---- MODULE Browse ----
(***************************************************************************)
(* Listings and admin downloads of a bucket that other sessions change     *)
(* meanwhile: Client.List (cos/fs.go), COS.ReadDir, dirFile                *)
(* (fsdriver/audit.go), listerAt (fsdriver/sftp_handlers.go), listFiles    *)
(* and downloadFile (admin/files.go).  The bucket is one folder of it:     *)
(* below a name there can be an object (name), a placeholder (name/) and   *)
(* deeper keys (name/...).  Names are numbered in the order of their keys. *)
(* A reader is an admin's request, an FTP or an SFTP listing.              *)
(***************************************************************************)
EXTENDS Integers, Sequences, FiniteSets, Functions

CONSTANTS
    Readers,
    Names,      \* numbered
    Versions,   \* contents of objects
    None,       \* no object
    Size,       \* the chunks of a content
    Children,   \* what there can be below a name
    MaxKeys,    \* what COS returns of a listing (1000)
    PageSize    \* the most entries a client asks for at once

ASSUME BrowseAssumption ==
    /\ Names \subseteq Nat /\ IsFiniteSet(Names) /\ Names # {}
    /\ None \notin Versions
    /\ Size \in [Versions -> Nat]
    /\ Children \subseteq [object: Versions \union {None}, placeholder: BOOLEAN, deeper: BOOLEAN]
    /\ MaxKeys \in Nat \ {0} /\ PageSize \in Nat \ {0}

VARIABLES
    bucket,     \* the folder's children, by name
    pc,         \* per reader: idle, stat, open, copy, list, pages, over
    name,       \* the file a download is for
    via,        \* who lists: admin, ftp, sftp
    promised,   \* Content-Length
    body,       \* the content that was opened
    sent,       \* its chunks that were sent
    logged,     \* FILE_DOWNLOAD is in the audit trail
    held,       \* history: the folder when it was listed
    listed,     \* the listing, to be handed over
    offset,     \* how far the reader has come
    shown,      \* what it has been given
    eof         \* it has been told that there is no more

browseVars == <<bucket, pc, name, via, promised, body, sent, logged, held, listed, offset, shown, eof>>
download == <<name, promised, body, sent, logged>>
listing == <<via, held, listed, offset, shown, eof>>

BrowseInit ==
    /\ bucket \in [Names -> Children]
    /\ pc = [r \in Readers |-> "idle"]
    /\ name = [r \in Readers |-> CHOOSE n \in Names : TRUE]
    /\ via = [r \in Readers |-> "admin"]
    /\ promised = [r \in Readers |-> 0]
    /\ body = [r \in Readers |-> None]
    /\ sent = [r \in Readers |-> 0]
    /\ logged = [r \in Readers |-> FALSE]
    /\ held = [r \in Readers |-> bucket]
    /\ listed = [r \in Readers |-> <<>>]
    /\ offset = [r \in Readers |-> 0]
    /\ shown = [r \in Readers |-> <<>>]
    /\ eof = [r \in Readers |-> FALSE]

Goto(r, label) == pc' = [pc EXCEPT ![r] = label]

\* An error answer, or the end of one.
Over(r) == Goto(r, "over")

\* Other sessions put, copy and delete.
Change ==
    /\ \E n \in Names, c \in Children : bucket' = [bucket EXCEPT ![n] = c]
    /\ UNCHANGED <<pc, download, listing>>

----
\* downloadFile

\* The user is found, the path is clean, the storage is there.
BeginDownload(r) ==
    /\ pc[r] = "idle"
    /\ \E n \in Names : name' = [name EXCEPT ![r] = n]
    /\ Goto(r, "stat")
    /\ UNCHANGED <<bucket, promised, body, sent, logged, listing>>

\* Content-Length is what Stat saw.
Stat(r) ==
    /\ pc[r] = "stat"
    /\ bucket[name[r]].object # None
    /\ promised' = [promised EXCEPT ![r] = Size[bucket[name[r]].object]]
    /\ Goto(r, "open")
    /\ UNCHANGED <<bucket, name, body, sent, logged, listing>>

\* Open gets the object there is by then, whole.
Open(r) ==
    /\ pc[r] = "open"
    /\ bucket[name[r]].object # None
    /\ body' = [body EXCEPT ![r] = bucket[name[r]].object]
    /\ Goto(r, "copy")
    /\ UNCHANGED <<bucket, name, promised, sent, logged, listing>>

\* 404 or 400: it is not there, a folder, or the storage fails.
NotServed(r) ==
    /\ pc[r] \in {"stat", "open"}
    /\ Over(r)
    /\ UNCHANGED <<bucket, download, listing>>

\* Fault: the copy does not stop where the content does.
CopyOn(r) ==
    /\ pc[r] = "copy"
    /\ sent' = [sent EXCEPT ![r] = @ + 1]
    /\ UNCHANGED <<bucket, pc, name, promised, body, logged, listing>>

Copy(r) ==
    /\ pc[r] = "copy"
    /\ sent[r] < Size[body[r]]
    /\ sent' = [sent EXCEPT ![r] = @ + 1]
    /\ UNCHANGED <<bucket, pc, name, promised, body, logged, listing>>

\* Fault: io.Copy's error is not looked at.
CopyFailsLogged(r) ==
    /\ pc[r] = "copy"
    /\ sent[r] < Size[body[r]]
    /\ logged' = [logged EXCEPT ![r] = TRUE]
    /\ Over(r)
    /\ UNCHANGED <<bucket, name, promised, body, sent, listing>>

\* The client is gone, or net/http refuses more than was promised: no event.
CopyFails(r) ==
    /\ pc[r] = "copy"
    /\ sent[r] < Size[body[r]]
    /\ Over(r)
    /\ UNCHANGED <<bucket, download, listing>>

CopyEnds(r) ==
    /\ pc[r] = "copy"
    /\ sent[r] = Size[body[r]]
    /\ logged' = [logged EXCEPT ![r] = TRUE]
    /\ Over(r)
    /\ UNCHANGED <<bucket, name, promised, body, sent, listing>>

----
\* Client.List

\* What COS answers with: a name's folder may come as a prefix or, when it has
\* a placeholder, among the contents, or as both.
Answers(b) ==
    {<<n, "file">> : n \in {m \in Names : b[m].object # None}}
        \union {<<n, "prefix">> : n \in {m \in Names : b[m].deeper \/ b[m].placeholder}}
        \union {<<n, "mark">> : n \in {m \in Names : b[m].placeholder}}

\* The least COS answers with.
Due(b, items) ==
    \A n \in Names :
        /\ b[n].object # None => <<n, "file">> \in items
        /\ b[n].deeper => <<n, "prefix">> \in items
        /\ b[n].placeholder => {<<n, "prefix">>, <<n, "mark">>} \intersect items # {}

\* The members of S in an order R, a set of pairs: at place i the one that i - 1
\* others come before.
Arranged(S, R) ==
    [i \in 1..Cardinality(S) |->
        CHOOSE x \in S : Cardinality({y \in S : <<y, x>> \in R}) = i - 1]

Rank(i) == CASE i[2] = "file" -> 0 [] i[2] = "mark" -> 1 [] i[2] = "prefix" -> 2
KeyOrder(i, j) == i[1] < j[1] \/ (i[1] = j[1] /\ Rank(i) < Rank(j))

KeysBefore(items) == {p \in items \X items : KeyOrder(p[1], p[2])}
ByKey(items) == Arranged(items, KeysBefore(items))

\* COS stops after MaxKeys of them, and nobody asks for the rest.
FirstKeys(items) == {i \in items : Cardinality({j \in items : KeyOrder(j, i)}) < MaxKeys}

Folder(n) == [name |-> n, isDir |-> TRUE]
File(n) == [name |-> n, isDir |-> FALSE]
Entry(i) == IF i[2] = "file" THEN File(i[1]) ELSE Folder(i[1])

Entries(items) == [i \in DOMAIN items |-> Entry(items[i])]

\* Fault: no look at seenDirs.
ListSeenTwice(items) == Entries(ByKey(items))

\* The prefixes, then the contents, without the placeholders of folders seen.
List(items) ==
    LET prefixes == {i \in items : i[2] = "prefix"}
        contents == {i \in items \ prefixes : i[2] = "mark" => <<i[1], "prefix">> \notin prefixes}
    IN  Entries(ByKey(prefixes) \o ByKey(contents))

\* The admin API sorts: folders first, then by name.
EntryOrder(e, f) == (e.isDir /\ ~f.isDir) \/ (e.isDir = f.isDir /\ e.name < f.name)

\* Two places of the same entry stay in the order they are in.
PlacesBefore(out) ==
    {p \in (DOMAIN out) \X (DOMAIN out) :
        \/ EntryOrder(out[p[1]], out[p[2]])
        \/ out[p[1]] = out[p[2]] /\ p[1] < p[2]}

Sorted(out) ==
    LET places == Arranged(DOMAIN out, PlacesBefore(out))
    IN  [i \in DOMAIN out |-> out[places[i]]]

BeginList(r) ==
    /\ pc[r] = "idle"
    /\ \E v \in {"admin", "ftp", "sftp"} : via' = [via EXCEPT ![r] = v]
    /\ Goto(r, "list")
    /\ UNCHANGED <<bucket, download, held, listed, offset, shown, eof>>

ReadDir(r) ==
    /\ pc[r] = "list"
    /\ \E items \in SUBSET Answers(bucket) :
          /\ Due(bucket, items)
          /\ listed' = [listed EXCEPT ![r] =
                 LET out == List(FirstKeys(items))
                 IN  IF via[r] = "admin" THEN Sorted(out) ELSE out]
    /\ held' = [held EXCEPT ![r] = bucket]
    /\ Goto(r, "pages")
    /\ UNCHANGED <<bucket, download, via, offset, shown, eof>>

ListFails(r) ==
    /\ pc[r] = "list"
    /\ Over(r)
    /\ UNCHANGED <<bucket, download, listing>>

----
\* Handing the listing over

Left(r) == Len(listed[r]) - offset[r]

\* The next n entries are given, and whether they are the last.
Give(r, n, last) ==
    /\ shown' = [shown EXCEPT ![r] = @ \o SubSeq(listed[r], offset[r] + 1, offset[r] + n)]
    /\ offset' = [offset EXCEPT ![r] = @ + n]
    /\ eof' = [eof EXCEPT ![r] = last]
    /\ UNCHANGED <<bucket, pc, download, via, held, listed>>

\* Fault: the page that comes with io.EOF is thrown away, as Readdirnames does.
ReaddirLastLost(r) ==
    /\ pc[r] = "pages" /\ via[r] = "ftp" /\ ~eof[r]
    /\ \E count \in 1..PageSize :
          IF count < Left(r) THEN Give(r, count, FALSE) ELSE Give(r, 0, TRUE)

\* dirFile.Readdir: with a count at most that many, else all that is left.
Readdir(r) ==
    /\ pc[r] = "pages" /\ via[r] = "ftp" /\ ~eof[r]
    /\ \/ Give(r, Left(r), TRUE)
       \/ \E count \in 1..PageSize :
             IF count < Left(r) THEN Give(r, count, FALSE) ELSE Give(r, Left(r), TRUE)

\* listerAt.ListAt: io.EOF only with a page that is not full.
ListAt(r) ==
    /\ pc[r] = "pages" /\ via[r] = "sftp" /\ ~eof[r]
    /\ \E room \in 1..PageSize :
          IF room <= Left(r) THEN Give(r, room, FALSE) ELSE Give(r, Left(r), TRUE)

\* listFiles answers with all entries.
Encode(r) ==
    /\ pc[r] = "pages" /\ via[r] = "admin" /\ ~eof[r]
    /\ Give(r, Left(r), TRUE)

\* The client closes the handle, at any time.
CloseDir(r) ==
    /\ pc[r] = "pages"
    /\ Over(r)
    /\ UNCHANGED <<bucket, download, listing>>

----
\* A reader that is done comes back with another request.
Again(r) ==
    /\ pc[r] = "over"
    /\ Goto(r, "idle")
    /\ name' = [name EXCEPT ![r] = CHOOSE n \in Names : TRUE]
    /\ via' = [via EXCEPT ![r] = "admin"]
    /\ promised' = [promised EXCEPT ![r] = 0]
    /\ body' = [body EXCEPT ![r] = None]
    /\ sent' = [sent EXCEPT ![r] = 0]
    /\ logged' = [logged EXCEPT ![r] = FALSE]
    /\ held' = [held EXCEPT ![r] = bucket]
    /\ listed' = [listed EXCEPT ![r] = <<>>]
    /\ offset' = [offset EXCEPT ![r] = 0]
    /\ shown' = [shown EXCEPT ![r] = <<>>]
    /\ eof' = [eof EXCEPT ![r] = FALSE]
    /\ UNCHANGED bucket

BrowseNext ==
    \/ Change
    \/ \E r \in Readers :
          \/ BeginDownload(r) \/ Stat(r) \/ Open(r) \/ NotServed(r)
          \/ Copy(r) \/ CopyFails(r) \/ CopyEnds(r)
          \/ BeginList(r) \/ ReadDir(r) \/ ListFails(r)
          \/ Readdir(r) \/ ListAt(r) \/ Encode(r) \/ CloseDir(r)
          \/ Again(r)

BrowseSpec == BrowseInit /\ [][BrowseNext]_browseVars

----
\* Properties

BrowseTypeOK ==
    /\ bucket \in [Names -> Children]
    /\ pc \in [Readers -> {"idle", "stat", "open", "copy", "list", "pages", "over"}]
    /\ name \in [Readers -> Names]
    /\ via \in [Readers -> {"admin", "ftp", "sftp"}]
    /\ promised \in [Readers -> Nat]
    /\ body \in [Readers -> Versions \union {None}]
    /\ sent \in [Readers -> Nat]
    /\ logged \in [Readers -> BOOLEAN] /\ eof \in [Readers -> BOOLEAN]
    /\ held \in [Readers -> [Names -> Children]]
    /\ listed \in [Readers -> Seq([name : Names, isDir : BOOLEAN])]
    /\ offset \in [Readers -> Nat]
    /\ shown \in [Readers -> Seq([name : Names, isDir : BOOLEAN])]
    /\ \A r \in Readers :
          /\ sent[r] <= (IF body[r] = None THEN 0 ELSE Size[body[r]])
          /\ offset[r] <= Len(listed[r]) /\ Len(shown[r]) = offset[r]

\* A download is in the audit trail exactly when every byte of the content it
\* opened was sent, whatever became of the object meanwhile (admin/files.go:214-219).
LoggedIfServed ==
    \A r \in Readers :
        pc[r] = "over" /\ body[r] # None => (logged[r] <=> sent[r] = Size[body[r]])

\* What there is to list of a folder.
Shown(b) ==
    {File(n) : n \in {m \in Names : b[m].object # None}}
        \union {Folder(n) : n \in {m \in Names : b[m].deeper \/ b[m].placeholder}}

\* A listing is what the folder held at one moment, each file and each folder
\* once, as long as COS need not cut it short (cos/fs.go:52-89).
ListedOnce ==
    \A r \in Readers :
        listed[r] # <<>> =>
            /\ Range(listed[r]) \subseteq Shown(held[r])
            /\ IsInjective(listed[r])
            /\ 2 * Cardinality(Shown(held[r])) <= MaxKeys
                  => Range(listed[r]) = Shown(held[r])

\* The pages of a listing are the listing: nothing is skipped, repeated or left
\* out at the end (fsdriver/audit.go:194-216, sftp_handlers.go:106-115).
PagesWhole ==
    \A r \in Readers :
        /\ shown[r] = SubSeq(listed[r], 1, Len(shown[r]))
        /\ eof[r] => shown[r] = listed[r]
====
