---- MODULE CosFS ----
(***************************************************************************)
(* fsdriver/cos.go, fsdriver/audit.go, fsdriver/sftp_handlers.go: the file *)
(* operations of FTP and SFTP sessions of one user on the bucket, as seen  *)
(* by the session (AuditFS around COS) and by the bucket.                  *)
(*                                                                         *)
(* The bucket has no folders and no rename: an operation is one or more    *)
(* requests, other sessions' requests come in between, and each of them    *)
(* may fail, before or after COS has done it.  An upload is collected in   *)
(* memory (memWriteFile) and sent when its handle is closed, by the client *)
(* or because the connection is gone.  An FTP session writes to it one     *)
(* chunk after the other; the SFTP library hands the write requests of a   *)
(* client to several workers, which call WriteAt concurrently.             *)
(***************************************************************************)
EXTENDS Naturals, Sequences, FiniteSets

CONSTANTS
    Sessions,   \* sessions of the user
    SFTP,       \* those that speak SFTP; the others speak FTP
    Names,      \* paths in the user's root folder
    NoObject,   \* there is no object at a key
    Workers,    \* write requests the SFTP library serves at a time (8)
    MaxChunks,  \* bound: chunks of an upload
    MaxOps      \* bound: operations

ASSUME CosFSAssumption ==
    /\ SFTP \subseteq Sessions
    /\ NoObject \notin Seq((0..MaxOps) \X (0..MaxChunks))
    /\ Workers \in Nat \ {0}
    /\ MaxChunks \in Nat \ {0}
    /\ MaxOps \in Nat

VARIABLES
    objects,    \* the object at each name: a sequence of pieces, or NoObject
    folders,    \* names with a placeholder object at "<name>/"
    ops,        \* operations begun
    pc,         \* where each session is
    op,         \* the operation it is doing, or did last
    file,       \* its upload handle
    said,       \* audit events of the operation
    told,       \* what the client was told: nothing yet, ok, failed
    base,       \* history: the object at op.name when the operation began
    alone       \* history: no other session has changed op's names since

vars == <<objects, folders, ops, pc, op, file, said, told, base, alone>>

bucketVars == <<objects, folders>>
historyVars == <<base, alone>>

\* The piece <<k, i>> is the i-th chunk of operation k's upload; place i of an
\* object that should hold it may hold garbage instead.
Pieces == (0..MaxOps) \X (0..MaxChunks)
Garbage == <<0, 0>>

NoOp == [id |-> 0, kind |-> "none", name |-> "", to |-> ""]

\* memWriteFile.buf; the requests handed out so far, those whose worker has
\* not called WriteAt yet, and those inside of Buffer.Write; WriteAt refused one.
NewFile == [buf |-> <<>>, sent |-> 0, queued |-> {}, copying |-> {},
            refused |-> FALSE]

Kinds == {"upload", "resume", "open", "download", "list", "mkdir", "delete",
          "rename"}

Init ==
    /\ objects \in [Names -> {NoObject, << <<0, 1>> >>}]
    /\ folders = {}
    /\ ops = 0
    /\ pc = [s \in Sessions |-> "idle"]
    /\ op = [s \in Sessions |-> NoOp]
    /\ file = [s \in Sessions |-> NewFile]
    /\ said = [s \in Sessions |-> <<>>]
    /\ told = [s \in Sessions |-> "nothing"]
    /\ base = [s \in Sessions |-> NoObject]
    /\ alone = [s \in Sessions |-> TRUE]

Goto(s, label) == pc' = [pc EXCEPT ![s] = label]

\* AuditFS.log
Log(s, action, ok) ==
    said' = [said EXCEPT ![s] = Append(@, [action |-> action, ok |-> ok])]

Answer(s, ok) ==
    /\ Goto(s, "idle")
    /\ told' = [told EXCEPT ![s] = IF ok THEN "ok" ELSE "failed"]

Start(kind) ==
    CASE kind \in {"upload", "resume"} -> "writing"
      [] kind = "open" -> "stat"
      [] kind = "download" -> "get"
      [] kind = "rename" -> "copy"
      [] OTHER -> kind

\* The client asks for something. Every handle to write starts with an empty
\* buffer: SFTP's Filewrite truncates, and after an FTP client's REST nothing
\* but Seek is called, which moves nothing. SFTP reads with Open, FTP with
\* OpenFile.
Begin(s) ==
    /\ pc[s] = "idle"
    /\ ops < MaxOps
    /\ ops' = ops + 1
    /\ \E kind \in Kinds, name, to \in Names :
          /\ kind # "rename" => to = name
          /\ kind = "resume" => s \notin SFTP
          /\ kind = "open" => s \in SFTP
          /\ kind = "download" => s \notin SFTP
          /\ op' = [op EXCEPT ![s] = [id |-> ops', kind |-> kind,
                                      name |-> name, to |-> to]]
          /\ base' = [base EXCEPT ![s] = objects[name]]
          /\ Goto(s, Start(kind))
    /\ file' = [file EXCEPT ![s] = NewFile]
    /\ said' = [said EXCEPT ![s] = <<>>]
    /\ told' = [told EXCEPT ![s] = "nothing"]
    /\ alone' = [alone EXCEPT ![s] = TRUE]
    /\ UNCHANGED bucketVars

----
\* Reading

\* AuditFS.Open asks what the name is: HEAD of the key ...
StatFile(s) ==
    /\ pc[s] = "stat"
    /\ \/ objects[op[s].name] # NoObject /\ Goto(s, "get")
       \/ Goto(s, "stat folder")
    /\ UNCHANGED <<bucketVars, ops, op, file, said, told, historyVars>>

\* ... or of the folder placeholder; failing both, the file is opened anyway.
StatFolder(s) ==
    /\ pc[s] = "stat folder"
    /\ \/ op[s].name \in folders /\ Goto(s, "list")
       \/ Goto(s, "get")
    /\ UNCHANGED <<bucketVars, ops, op, file, said, told, historyVars>>

\* One List request.
ReadDir(s) ==
    /\ pc[s] = "list"
    /\ \E ok \in BOOLEAN : Log(s, "LIST", ok) /\ Answer(s, ok)
    /\ UNCHANGED <<bucketVars, ops, op, file, historyVars>>

\* The whole object is read on opening ...
Get(s) ==
    /\ pc[s] = "get"
    /\ \/ /\ objects[op[s].name] # NoObject
          /\ Goto(s, "reading")
          /\ UNCHANGED <<said, told>>
       \/ Log(s, "DOWNLOAD", FALSE) /\ Answer(s, FALSE)
    /\ UNCHANGED <<bucketVars, ops, op, file, historyVars>>

\* ... and the download is logged when the handle is closed.
CloseRead(s) ==
    /\ pc[s] = "reading"
    /\ Log(s, "DOWNLOAD", TRUE)
    /\ Answer(s, TRUE)
    /\ UNCHANGED <<bucketVars, ops, op, file, historyVars>>

----
\* Requests that change the bucket

\* The objects become os, and other sessions see it: a request is done and
\* reported (ok), or done or not done and not reported.
Request(s, ok, os) ==
    /\ \/ objects' = os
       \/ ~ok /\ UNCHANGED objects
    /\ alone' = [t \in Sessions |->
                    /\ alone[t]
                    /\ t = s \/ \A n \in {op[t].name, op[t].to} \cap Names :
                                    objects'[n] = objects[n]]
    /\ UNCHANGED <<folders, ops, op, base>>

\* A 0-byte placeholder.
Mkdir(s) ==
    /\ pc[s] = "mkdir"
    /\ \E ok \in BOOLEAN :
          /\ \/ folders' = folders \union {op[s].name}
             \/ ~ok /\ UNCHANGED folders
          /\ Log(s, "MKDIR", ok)
          /\ Answer(s, ok)
    /\ UNCHANGED <<objects, ops, op, file, historyVars>>

\* Fault: the error of the request is not looked at.
RemoveUnchecked(s) ==
    /\ pc[s] = "delete"
    /\ Request(s, FALSE, [objects EXCEPT ![op[s].name] = NoObject])
    /\ Log(s, "DELETE", TRUE)
    /\ Answer(s, TRUE)
    /\ UNCHANGED file

\* DELE and RMD alike: the key without a slash is deleted, which COS confirms
\* also if there is none.
Remove(s) ==
    /\ pc[s] = "delete"
    /\ \E ok \in BOOLEAN :
          /\ Request(s, ok, [objects EXCEPT ![op[s].name] = NoObject])
          /\ Log(s, "DELETE", ok)
          /\ Answer(s, ok)
    /\ UNCHANGED file

Copied(s) == [objects EXCEPT ![op[s].to] = objects[op[s].name]]

\* Rename: copy the object ...
RenameCopy(s) ==
    /\ pc[s] = "copy"
    /\ objects[op[s].name] # NoObject
    /\ Request(s, TRUE, Copied(s))
    /\ Goto(s, "delete source")
    /\ UNCHANGED <<file, said, told>>

\* Fault: the copy's error is not looked at.
RenameCopyUnchecked(s) ==
    /\ pc[s] = "copy"
    /\ Request(s, FALSE, objects)
    /\ Goto(s, "delete source")
    /\ UNCHANGED <<file, said, told>>

RenameCopyFails(s) ==
    /\ pc[s] = "copy"
    /\ \/ objects[op[s].name] # NoObject /\ Request(s, FALSE, Copied(s))
       \/ Request(s, FALSE, objects)
    /\ Log(s, "RENAME", FALSE)
    /\ Answer(s, FALSE)
    /\ UNCHANGED file

\* Fault: the event says that the copy succeeded, whatever becomes of the source.
RenameDeleteUnlogged(s) ==
    /\ pc[s] = "delete source"
    /\ \E ok \in BOOLEAN :
          /\ Request(s, ok, [objects EXCEPT ![op[s].name] = NoObject])
          /\ Log(s, "RENAME", TRUE)
          /\ Answer(s, ok)
    /\ UNCHANGED file

\* ... and delete the source. One event for both.
RenameDelete(s) ==
    /\ pc[s] = "delete source"
    /\ \E ok \in BOOLEAN :
          /\ Request(s, ok, [objects EXCEPT ![op[s].name] = NoObject])
          /\ Log(s, "RENAME", ok)
          /\ Answer(s, ok)
    /\ UNCHANGED file

----
\* Uploads

Chunk(s, i) == <<op[s].id, i>>

\* FTP: Write appends.
Write(s) ==
    /\ pc[s] = "writing"
    /\ s \notin SFTP
    /\ file[s].sent < MaxChunks
    /\ file' = [file EXCEPT ![s].sent = @ + 1,
                            ![s].buf = Append(@, Chunk(s, Len(@) + 1))]
    /\ UNCHANGED <<bucketVars, ops, pc, op, said, told, historyVars>>

\* SFTP: a worker takes the next write request.
Dispatch(s) ==
    /\ pc[s] = "writing"
    /\ s \in SFTP
    /\ file[s].sent < MaxChunks
    /\ Cardinality(file[s].queued \union file[s].copying) < Workers
    /\ file' = [file EXCEPT ![s].sent = @ + 1,
                            ![s].queued = @ \union {file[s].sent + 1}]
    /\ UNCHANGED <<bucketVars, ops, pc, op, said, told, historyVars>>

\* Fault: WriteAt ignores the offset.
WriteAtAppends(s) ==
    /\ pc[s] = "writing"
    /\ \E i \in file[s].queued :
          file' = [file EXCEPT ![s].queued = @ \ {i},
                               ![s].buf = Append(@, Chunk(s, i))]
    /\ UNCHANGED <<bucketVars, ops, pc, op, said, told, historyVars>>

\* WriteAt: at the end of the buffer the chunk gets its place, elsewhere it is
\* refused.
WriteAt(s) ==
    /\ pc[s] = "writing"
    /\ \E i \in file[s].queued :
          file' = IF i = Len(file[s].buf) + 1
                  THEN [file EXCEPT ![s].queued = @ \ {i},
                                    ![s].buf = Append(@, Garbage),
                                    ![s].copying = @ \union {i}]
                  ELSE [file EXCEPT ![s].queued = @ \ {i},
                                    ![s].refused = TRUE]
    /\ UNCHANGED <<bucketVars, ops, pc, op, said, told, historyVars>>

\* The chunk is copied to its place. Nothing orders this with another worker's
\* Write, which may have moved the buffer meanwhile, and then it is lost.
CopyChunk(s) ==
    /\ pc[s] = "writing"
    /\ \E i \in file[s].copying :
          \E p \in {Chunk(s, i)} \union {g \in {Garbage} : i < Len(file[s].buf)} :
              file' = [file EXCEPT ![s].copying = @ \ {i}, ![s].buf[i] = p]
    /\ UNCHANGED <<bucketVars, ops, pc, op, said, told, historyVars>>

\* Fault: the handle of a refused write is never closed.
CloseWhole(s) ==
    /\ pc[s] = "writing"
    /\ file[s].queued = {} /\ file[s].copying = {} /\ ~file[s].refused
    /\ Goto(s, "put")
    /\ UNCHANGED <<bucketVars, ops, op, file, said, told, historyVars>>

\* The client closes the handle, or its connection ends and the libraries do;
\* the SFTP library lets the writes in progress finish first.
Close(s) ==
    /\ pc[s] = "writing"
    /\ file[s].queued = {} /\ file[s].copying = {}
    /\ Goto(s, "put")
    /\ UNCHANGED <<bucketVars, ops, op, file, said, told, historyVars>>

\* memWriteFile.Close puts what the buffer holds (or, in a retry, nothing: see
\* FlushedWhole in CosClient), and auditFile.Close logs a success either way.
Put(s) ==
    /\ pc[s] = "put"
    /\ \E ok \in BOOLEAN, body \in {file[s].buf, <<>>} :
          /\ Request(s, ok, [objects EXCEPT ![op[s].name] = body])
          /\ Answer(s, ok /\ ~file[s].refused)
    /\ Log(s, "UPLOAD", TRUE)
    /\ UNCHANGED file

----
Read(s) ==
    \/ StatFile(s) \/ StatFolder(s) \/ ReadDir(s) \/ Get(s) \/ CloseRead(s)

Change(s) ==
    \/ Mkdir(s) \/ Remove(s)
    \/ RenameCopy(s) \/ RenameCopyFails(s) \/ RenameDelete(s)

Upload(s) ==
    \/ Write(s) \/ Dispatch(s) \/ WriteAt(s) \/ CopyChunk(s) \/ Close(s)
    \/ Put(s)

Step(s) == Read(s) \/ Change(s) \/ Upload(s)

Next == \E s \in Sessions : Begin(s) \/ Step(s)

SafeSpec == Init /\ [][Next]_vars

\* A handle is closed by the client or when its connection is gone.
Closing(s) == CloseRead(s) \/ Close(s)

\* What the server does of itself once it was asked.
Serving(s) ==
    \/ StatFile(s) \/ StatFolder(s) \/ ReadDir(s) \/ Get(s)
    \/ Change(s)
    \/ WriteAt(s) \/ CopyChunk(s) \/ Put(s)

\* COS answers a request or the client's 60 s run out. Nobody has to write on or
\* to close a handle: the SFTP server has no idle timeout and no keepalive.
Spec == SafeSpec /\ \A s \in Sessions : WF_vars(Serving(s))

----
\* Properties

Labels == {"idle", "stat", "stat folder", "get", "reading", "list", "mkdir",
           "delete", "copy", "delete source", "writing", "put"}

Actions == {"LIST", "DOWNLOAD", "UPLOAD", "DELETE", "RENAME", "MKDIR"}

Contents == {c \in Seq(Pieces) : Len(c) <= MaxChunks}

\* The shape of the state.
TypeOK ==
    /\ \A n \in Names : objects[n] = NoObject \/ objects[n] \in Contents
    /\ folders \subseteq Names
    /\ ops \in 0..MaxOps
    /\ pc \in [Sessions -> Labels]
    /\ \A s \in Sessions :
          /\ op[s] = NoOp \/ op[s] \in [id : 1..ops, kind : Kinds,
                                        name : Names, to : Names]
          /\ file[s].buf \in Contents
          /\ file[s].sent \in 0..MaxChunks
          /\ file[s].queued \subseteq 1..file[s].sent
          /\ file[s].copying \subseteq 1..Len(file[s].buf)
          /\ Cardinality(file[s].queued \union file[s].copying) <= Workers
          /\ said[s] \in Seq([action : Actions, ok : BOOLEAN])
    /\ told \in [Sessions -> {"nothing", "ok", "failed"}]

\* The chunks of one upload, each at its place or lost.
InPlace(c) ==
    \A i, j \in 1..Len(c) :
        c[i] # Garbage => c[i][2] = i /\ (c[j] # Garbage => c[i][1] = c[j][1])

\* Write requests that overtake each other, uploads cut short and uploads to
\* the same name by other sessions never mix: an object holds a beginning of
\* one upload, with no chunk where another belongs (cos.go:222-251).
OffsetsKept == \A n \in Names : objects[n] = NoObject \/ InPlace(objects[n])

\* A rename, whichever of its two requests fails, loses nothing: unless another
\* session has changed one of the names meanwhile, the file is at the old name
\* or at the new one, and at the new one only if the client was told so
\* (cos.go:125-131). Not so for a rename of a name to itself.
RenameKeeps ==
    \A s \in Sessions :
        op[s].kind = "rename" /\ op[s].name # op[s].to /\ alone[s]
            => /\ base[s] # NoObject
                    => base[s] \in {objects[op[s].name], objects[op[s].to]}
               /\ told[s] = "ok"
                    => /\ objects[op[s].to] = base[s]
                       /\ objects[op[s].name] = NoObject

\* However many requests an operation took and whichever failed, the events it
\* left say what the client was told (fsdriver/audit.go:41-133): some event if
\* anything was told, only successes after an ok, a failure among them after a
\* failed operation. Not so for an upload that failed, see UploadAudited.
EventAgrees ==
    \A s \in Sessions :
        /\ told[s] # "nothing" => said[s] # <<>>
        /\ told[s] = "ok" => \A i \in 1..Len(said[s]) : said[s][i].ok
        /\ told[s] = "failed" =>
              \E i \in 1..Len(said[s]) : ~said[s][i].ok \/ said[s][i].action = "UPLOAD"

\* Nothing, or what is left to do of an operation at each place.
Todo(label) ==
    CASE label \in {"stat", "stat folder", "get"} -> <<"look">>
      [] label \in {"writing", "put"} -> <<"put">>
      [] label = "mkdir" -> <<"mark">>
      [] label \in {"delete", "delete source"} -> <<"drop">>
      [] label = "copy" -> <<"copy", "drop">>
      [] OTHER -> <<>>

Task(s) ==
    IF pc[s] = "idle"
    THEN [id |-> 0, name |-> "", to |-> "", todo |-> <<>>]
    ELSE [id |-> op[s].id, name |-> op[s].name, to |-> op[s].to, todo |-> Todo(pc[s])]

Store == INSTANCE FileStore WITH
    store <- objects,
    marks <- folders,
    count <- ops,
    task <- [s \in Sessions |-> Task(s)],
    answer <- told,
    Lost <- Garbage

\* The requests, buffers and workers keep the promise of FileStore: whatever
\* they do in between, an operation's effects happen in order, each once, before
\* its answer, and all of them if the answer is ok (cos.go:102-138, 222-251).
ImplementsStore == Store!Spec

\* Every operation of a session whose open handles are closed in the end comes
\* to an end, one with a write that was refused in the middle included, and
\* whatever the other sessions do with theirs (cos.go:235-251).
OperationsEnd ==
    \A s \in Sessions : WF_vars(Closing(s)) => (pc[s] # "idle" ~> pc[s] = "idle")

\* spec.md:91, FR-AUD-03: the event has "success". The event of an upload says
\* TRUE whatever the request of its Close has returned.
UploadAudited ==
    \A s \in Sessions :
        told[s] = "failed" => \A i \in 1..Len(said[s]) : ~said[s][i].ok
====
