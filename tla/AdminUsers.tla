---- MODULE AdminUsers ----
(***************************************************************************)
(* What admins do to accounts (admin/users_api.go): createUser,            *)
(* updateUser, resetUserPassword, setUserSFTPKey and deleteUser, each a    *)
(* sequence of statements of db/queries.go with no transaction around      *)
(* them.  Handlers are goroutines, so the statements of several requests   *)
(* interleave; each may fail, also after it took effect.  AdminSessions    *)
(* says which requests get here.                                           *)
(* ftp_enabled stands for both protocol flags, which the code treats       *)
(* alike.  Names are UNIQUE in ftp_users, deleted rows included, so a name *)
(* has one row for ever.                                                   *)
(***************************************************************************)
EXTENDS FiniteSets

CONSTANTS
    Requests,   \* requests in flight
    Names,      \* usernames
    Folders,    \* root folders
    Passwords,  \* each standing for its hash
    Keys,       \* sftp_public_key, NULL included
    NoKey,
    Omitted,    \* a flag the body leaves out
    Bodies      \* what requests ask for

Creates == [op: {"create"}, name: Names, root: Folders, pass: Passwords, enabled: BOOLEAN,
            flag: BOOLEAN]
Updates == [op: {"update"}, name: Names, root: Folders, enabled: BOOLEAN,
            flag: BOOLEAN \union {Omitted}]
Resets == [op: {"reset"}, name: Names, pass: Passwords]
KeySets == [op: {"key"}, name: Names, key: Keys]
Deletes == [op: {"delete"}, name: Names]

ASSUME UsersAssumption ==
    /\ NoKey \in Keys
    /\ Omitted \notin BOOLEAN
    /\ Folders # {} /\ Passwords # {} /\ Bodies # {}
    /\ Bodies \subseteq Creates \union Updates \union Resets \union KeySets \union Deletes

Nobody == CHOOSE b \in Bodies : TRUE

Columns == {"root", "pass", "key", "enabled", "flag"}

VARIABLES
    cosClient,  \* API.COSClient is not nil: files are in a bucket
    rows,       \* ftp_users
    placed,     \* folders that have their placeholder in the bucket
    pc,         \* where each request is
    body,       \* what it asks for
    seen,       \* the row updateUser read
    did,        \* history: its statement changed the row
    ok,         \* it was answered with success, and its event logged
    col,        \* history: the column that is watched
    alone,      \* history: no other request for that column ran beside it
    legit       \* history: the values that column may have

vars == <<cosClient, rows, placed, pc, body, seen, did, ok, col, alone, legit>>
history == <<col, alone, legit>>

Rows == [there: BOOLEAN, live: BOOLEAN, root: Folders, pass: Passwords, key: Keys,
         enabled: BOOLEAN, flag: BOOLEAN]

NoRow == [there |-> FALSE, live |-> FALSE, root |-> CHOOSE f \in Folders : TRUE,
          pass |-> CHOOSE p \in Passwords : TRUE, key |-> NoKey,
          enabled |-> FALSE, flag |-> FALSE]

\* The columns a body names, and what it wants in one of them.
Named(b) ==
    CASE b.op = "create" -> Columns
      [] b.op = "update" -> {"root", "enabled"} \union (IF b.flag = Omitted THEN {} ELSE {"flag"})
      [] b.op = "reset"  -> {"pass"}
      [] b.op = "key"    -> {"key"}
      [] b.op = "delete" -> {"enabled"}

Wanted(b, c) ==
    IF b.op = "delete" THEN FALSE
    ELSE IF b.op = "create" /\ c = "key" THEN NoKey ELSE b[c]

Init ==
    /\ cosClient \in BOOLEAN
    /\ rows = [n \in Names |-> NoRow]
    /\ placed = {}
    /\ pc = [q \in Requests |-> "idle"]
    /\ body = [q \in Requests |-> Nobody]
    /\ seen = [q \in Requests |-> NoRow]
    /\ did = [q \in Requests |-> FALSE]
    /\ ok = [q \in Requests |-> FALSE]
    /\ col \in Columns
    /\ alone = [q \in Requests |-> FALSE]
    /\ legit = [n \in Names |-> {NoRow[col]}]

Goto(q, label) == pc' = [pc EXCEPT ![q] = label]
Name(q) == body[q].name

----
\* The history: requests that name the watched column of a row

Rivals(q, b) ==
    {p \in Requests \ {q} : pc[p] # "idle" /\ Name(p) = b.name /\ col \in Named(body[p])}

\* The request begins: its value may appear from here on.
Beside(q, b) ==
    IF col \in Named(b)
    THEN /\ alone' = [p \in Requests |->
                         IF p = q THEN Rivals(q, b) = {}
                                  ELSE alone[p] /\ p \notin Rivals(q, b)]
         /\ legit' = [legit EXCEPT ![b.name] = @ \union {Wanted(b, col)}]
    ELSE /\ alone' = [alone EXCEPT ![q] = FALSE]
         /\ UNCHANGED legit

\* The request is answered with success: if nobody else was at the column
\* meanwhile, its value is the only one.
Settled(q) ==
    legit' = IF alone[q] THEN [legit EXCEPT ![Name(q)] = {Wanted(body[q], col)}] ELSE legit

----
\* A request whose body is well formed.
Begin(q) ==
    /\ pc[q] = "idle"
    /\ \E b \in Bodies :
          /\ body' = [body EXCEPT ![q] = b]
          /\ Goto(q, IF b.op = "create" THEN "put" ELSE "read")
          /\ Beside(q, b)
    /\ did' = [did EXCEPT ![q] = FALSE]
    /\ ok' = [ok EXCEPT ![q] = FALSE]
    /\ UNCHANGED <<rows, placed, seen, col>>

\* The request is over.
Over(q) ==
    /\ Goto(q, "idle")
    /\ body' = [body EXCEPT ![q] = Nobody]
    /\ seen' = [seen EXCEPT ![q] = NoRow]
    /\ alone' = [alone EXCEPT ![q] = FALSE]
    /\ UNCHANGED col

\* An error answer, and no event.
Refuse(q) ==
    /\ Over(q)
    /\ did' = [did EXCEPT ![q] = FALSE]
    /\ UNCHANGED <<ok, legit>>

\* The event is logged and success answered.
Acknowledge(q) ==
    /\ Over(q)
    /\ ok' = [ok EXCEPT ![q] = TRUE]
    /\ Settled(q)

----
\* createUser

\* Files are on the local disk: no placeholder is put anywhere.
NoPut(q) ==
    /\ pc[q] = "put"
    /\ ~cosClient
    /\ Goto(q, "insert")
    /\ UNCHANGED <<rows, placed, body, seen, did, ok, history>>

\* The root folder's placeholder is put, before the row.
Put(q) ==
    /\ pc[q] = "put"
    /\ cosClient
    /\ placed' = placed \union {body[q].root}
    /\ Goto(q, "insert")
    /\ UNCHANGED <<rows, body, seen, did, ok, history>>

\* Fault: the row is inserted all the same.
PutFailsUnseen(q) ==
    /\ pc[q] = "put"
    /\ cosClient
    /\ Goto(q, "insert")
    /\ UNCHANGED <<rows, placed, body, seen, did, ok, history>>

\* The put fails, whether or not the bucket has the placeholder: no row.
PutFails(q) ==
    /\ pc[q] = "put"
    /\ cosClient
    /\ placed' \in {placed, placed \union {body[q].root}}
    /\ Refuse(q)
    /\ UNCHANGED rows

\* 409: there is a row of that name, alive or deleted.
Conflict(q) ==
    /\ pc[q] = "insert"
    /\ rows[Name(q)].there
    /\ Refuse(q)
    /\ UNCHANGED <<rows, placed>>

----
\* Reading the row first (all handlers but createUser)

Read(q) ==
    /\ pc[q] = "read"
    /\ rows[Name(q)].live
    /\ seen' = [seen EXCEPT ![q] = rows[Name(q)]]
    /\ Goto(q, "write")
    /\ UNCHANGED <<rows, placed, body, did, ok, history>>

\* 404, or the database fails.
ReadFails(q) ==
    /\ pc[q] = "read"
    /\ Refuse(q)
    /\ UNCHANGED <<rows, placed>>

----
\* The statements

\* Fault: the statement writes every column of the row that was read.
UpdatedWhole(row, b, s) ==
    [s EXCEPT !.root = b.root, !.enabled = b.enabled,
              !.flag = IF b.flag = Omitted THEN @ ELSE b.flag]

\* Fault: no look at deleted_at.
UpdatedDeleted(row, b, s) ==
    [row EXCEPT !.root = b.root, !.enabled = b.enabled,
                !.flag = IF b.flag = Omitted THEN s.flag ELSE b.flag]

\* UpdateFTPUser: all columns the form shows, a flag that was omitted as it was
\* read; only of a row that is not deleted.
Updated(row, b, s) ==
    IF row.live THEN [row EXCEPT !.root = b.root, !.enabled = b.enabled,
                                 !.flag = IF b.flag = Omitted THEN s.flag ELSE b.flag]
                ELSE row

\* CreateFTPUser.
Inserted(b) ==
    [there |-> TRUE, live |-> TRUE, root |-> b.root, pass |-> b.pass, key |-> NoKey,
     enabled |-> b.enabled, flag |-> b.flag]

\* What the request's statement makes of the row; the others go by the id alone.
After(row, b, s) ==
    CASE b.op = "create" -> Inserted(b)
      [] b.op = "update" -> Updated(row, b, s)
      [] b.op = "reset"  -> [row EXCEPT !.pass = b.pass]
      [] b.op = "key"    -> [row EXCEPT !.key = b.key]
      [] b.op = "delete" -> [row EXCEPT !.live = FALSE, !.enabled = FALSE]

Writes(q) ==
    \/ pc[q] = "insert" /\ ~rows[Name(q)].there
    \/ pc[q] = "write"

Written(q) == [rows EXCEPT ![Name(q)] = After(@, body[q], seen[q])]

\* The statement, then the row is read again or the request is answered.
Exec(q) ==
    /\ Writes(q)
    /\ rows' = Written(q)
    /\ did' = [did EXCEPT ![q] = body[q].op = "update" => rows[Name(q)].live]
    /\ IF body[q].op \in {"create", "update"}
       THEN Goto(q, "reread") /\ UNCHANGED <<body, seen, ok, history>>
       ELSE Acknowledge(q)
    /\ UNCHANGED placed

\* The database fails, before the statement or after.
ExecFails(q) ==
    /\ Writes(q)
    /\ rows' \in {rows, Written(q)}
    /\ Refuse(q)
    /\ UNCHANGED placed

\* Fault: what is read again is not looked at.
RereadAny(q) ==
    /\ pc[q] = "reread"
    /\ Acknowledge(q)
    /\ UNCHANGED <<rows, placed, did>>

\* The row is read again for the answer.
Reread(q) ==
    /\ pc[q] = "reread"
    /\ rows[Name(q)].live
    /\ Acknowledge(q)
    /\ UNCHANGED <<rows, placed, did>>

\* It is gone, or the database fails: 500 and no event, though the row is changed.
RereadFails(q) ==
    /\ pc[q] = "reread"
    /\ Refuse(q)
    /\ UNCHANGED <<rows, placed>>

Handler(q) ==
    \/ NoPut(q) \/ Put(q) \/ PutFails(q) \/ Conflict(q)
    \/ Read(q) \/ ReadFails(q)
    \/ Exec(q) \/ ExecFails(q)
    \/ Reread(q) \/ RereadFails(q)

Next == UNCHANGED cosClient /\ \E q \in Requests : Begin(q) \/ Handler(q)

Spec == Init /\ [][Next]_vars

----
\* Properties

TypeOK ==
    /\ cosClient \in BOOLEAN
    /\ rows \in [Names -> Rows]
    /\ placed \subseteq Folders
    /\ pc \in [Requests -> {"idle", "put", "insert", "read", "write", "reread"}]
    /\ body \in [Requests -> Bodies]
    /\ seen \in [Requests -> Rows]
    /\ did \in [Requests -> BOOLEAN] /\ ok \in [Requests -> BOOLEAN]
    /\ col \in Columns /\ alone \in [Requests -> BOOLEAN]

\* A value that was acknowledged stays in its column until another request names
\* that column: no request puts back what another one replaced.  The flags are
\* exempt: a PATCH that leaves a flag out does put back the value it read
\* (users_api.go:123-139, 166-179, 189-197, 221-229).
AcknowledgedKept ==
    col # "flag" => \A n \in Names : rows[n].there => rows[n][col] \in legit[n]

\* A deleted account never comes back, and nothing enables it again, a request
\* that read it before it was deleted included (queries.go:114-128).
DeletedIsFinal ==
    [][\A n \in Names :
          rows[n].there /\ ~rows[n].live =>
              rows'[n].there /\ ~rows'[n].live /\ ~rows'[n].enabled]_vars

\* An event of the trail is about a change that was made (users_api.go:100-233).
EventsTrue == \A q \in Requests : ok[q] => did[q]

\* With a bucket behind the service no account appears whose folder has not been
\* put before; local storage promises nothing of the kind (users_api.go:51-60).
FolderFirst ==
    [][\A n \in Names :
          cosClient /\ ~rows[n].there /\ rows'[n].there => rows'[n].root \in placed]_vars
====
