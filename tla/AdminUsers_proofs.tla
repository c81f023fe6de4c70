---- MODULE AdminUsers_proofs ----
(***************************************************************************)
(* Proofs about AdminUsers, for any number of requests and names.          *)
(***************************************************************************)
EXTENDS AdminUsers, TLAPS

----
\* What the statements do to a row

LEMMA BodyKinds ==
    ASSUME NEW b \in Bodies
    PROVE  \/ b.op = "create" /\ b \in Creates
           \/ b.op = "update" /\ b \in Updates
           \/ b.op = "reset" /\ b \in Resets
           \/ b.op = "key" /\ b \in KeySets
           \/ b.op = "delete" /\ b \in Deletes
BY UsersAssumption DEF Creates, Updates, Resets, KeySets, Deletes

LEMMA BodyName == ASSUME NEW b \in Bodies PROVE b.name \in Names
BY BodyKinds DEF Creates, Updates, Resets, KeySets, Deletes

LEMMA UpdatedRow ==
    ASSUME NEW row \in Rows, NEW s \in Rows, NEW b \in Updates
    PROVE  /\ Updated(row, b, s) \in Rows
           /\ Updated(row, b, s).there = row.there /\ Updated(row, b, s).live = row.live
           /\ Updated(row, b, s).pass = row.pass /\ Updated(row, b, s).key = row.key
           /\ row.live => /\ Updated(row, b, s).root = b.root
                          /\ Updated(row, b, s).enabled = b.enabled
           /\ ~row.live => Updated(row, b, s) = row
BY DEF Updated, Rows, Updates

LEMMA AfterRow ==
    ASSUME NEW row \in Rows, NEW s \in Rows, NEW b \in Bodies
    PROVE  /\ After(row, b, s) \in Rows
           /\ b.op = "create" => After(row, b, s).there /\ After(row, b, s).live
           /\ b.op # "create" => /\ After(row, b, s).there = row.there
                                 /\ After(row, b, s).live => row.live
                                 /\ (row.enabled => row.live) =>
                                       (After(row, b, s).enabled => After(row, b, s).live)
<1>1. CASE b.op = "create" /\ b \in Creates
  BY <1>1, UsersAssumption DEF After, Inserted, Creates, Rows
<1>2. CASE b.op = "update" /\ b \in Updates
  BY <1>2, UpdatedRow DEF After, Rows
<1>3. CASE b.op = "reset" /\ b \in Resets
  BY <1>3 DEF After, Resets, Rows
<1>4. CASE b.op = "key" /\ b \in KeySets
  BY <1>4 DEF After, KeySets, Rows
<1>5. CASE b.op = "delete" /\ b \in Deletes
  BY <1>5 DEF After, Rows
<1> QED BY <1>1, <1>2, <1>3, <1>4, <1>5, BodyKinds

\* A statement leaves a column it does not name, and writes what is wanted in one
\* it does; an update of a deleted row does nothing.
LEMMA AfterColumn ==
    ASSUME NEW row \in Rows, NEW s \in Rows, NEW b \in Bodies, NEW c \in Columns \ {"flag"}
    PROVE  /\ c \notin Named(b) => After(row, b, s)[c] = row[c]
           /\ c \in Named(b) /\ (b.op = "update" => row.live) => After(row, b, s)[c] = Wanted(b, c)
           /\ b.op = "update" /\ ~row.live => After(row, b, s) = row
<1> USE DEF Columns
<1>1. CASE b.op = "create" /\ b \in Creates
  BY <1>1 DEF After, Inserted, Creates, Rows, Named, Wanted
<1>2. CASE b.op = "update" /\ b \in Updates
  <2>1. PICK u \in Rows :
           /\ After(row, b, s) = u
           /\ u.pass = row.pass /\ u.key = row.key
           /\ row.live => u.root = b.root /\ u.enabled = b.enabled
           /\ ~row.live => u = row
    BY <1>2, UpdatedRow DEF After
  <2>2. Named(b) \subseteq {"root", "enabled", "flag"} /\ {"root", "enabled"} \subseteq Named(b)
    BY <1>2 DEF Named
  <2>3. Wanted(b, c) = b[c]
    BY <1>2 DEF Wanted
  <2>4. CASE c = "root"
    BY <1>2, <2>1, <2>2, <2>3, <2>4
  <2>5. CASE c = "enabled"
    BY <1>2, <2>1, <2>2, <2>3, <2>5
  <2>6. CASE c = "pass"
    BY <1>2, <2>1, <2>2, <2>6
  <2>7. CASE c = "key"
    BY <1>2, <2>1, <2>2, <2>7
  <2> QED BY <2>4, <2>5, <2>6, <2>7
<1>3. CASE b.op = "reset" /\ b \in Resets
  BY <1>3 DEF After, Resets, Rows, Named, Wanted
<1>4. CASE b.op = "key" /\ b \in KeySets
  BY <1>4 DEF After, KeySets, Rows, Named, Wanted
<1>5. CASE b.op = "delete" /\ b \in Deletes
  BY <1>5 DEF After, Rows, Named, Wanted
<1> QED BY <1>1, <1>2, <1>3, <1>4, <1>5, BodyKinds

----
\* The inductive invariant

RowsSound ==
    \A n \in Names : /\ rows[n].live => rows[n].there
                     /\ rows[n].enabled => rows[n].live

\* Where a request is tells what it asks for and what it has found.
Stage(q) ==
    /\ pc[q] \in {"put", "insert"} => body[q].op = "create"
    /\ pc[q] \in {"read", "write"} => body[q].op # "create"
    /\ pc[q] = "reread" => body[q].op \in {"create", "update"}
    /\ pc[q] \in {"write", "reread"} => rows[Name(q)].there
    /\ pc[q] = "insert" /\ cosClient => body[q].root \in placed

\* A request whose statement changed nothing finds the row deleted.
Event(q) ==
    /\ ok[q] => did[q]
    /\ pc[q] # "idle" => ~ok[q]
    /\ pc[q] = "reread" => did[q] \/ ~rows[Name(q)].live

\* Request q is at the watched column of row n.
At(q, n) == pc[q] # "idle" /\ Name(q) = n /\ col \in Named(body[q])

\* The values on their way into the column are legitimate, one that is alone on
\* its way has no rival, and finds its value when it reads the row again.
Kept ==
    /\ DOMAIN legit = Names
    /\ \A q \in Requests : At(q, Name(q)) => Wanted(body[q], col) \in legit[Name(q)]
    /\ \A q \in Requests : alone[q] =>
          /\ At(q, Name(q))
          /\ \A p \in Requests \ {q} : ~At(p, Name(q))
          /\ pc[q] = "reread" /\ rows[Name(q)].live =>
                rows[Name(q)][col] = Wanted(body[q], col)
    /\ \A n \in Names : rows[n].there => rows[n][col] \in legit[n]

Basic == TypeOK /\ RowsSound /\ \A q \in Requests : Stage(q)

IInv ==
    /\ Basic
    /\ \A q \in Requests : Event(q)
    /\ col # "flag" => Kept

----
\* Rows and requests

LEMMA Defaults == NoRow \in Rows /\ Nobody \in Bodies
BY UsersAssumption DEF NoRow, Rows, Nobody

\* A statement keeps rows sound, for ever, and a deleted one deleted.
LEMMA Statement ==
    ASSUME Basic, NEW q \in Requests, Writes(q), NEW n \in Names
    PROVE  /\ Written(q) \in [Names -> Rows]
           /\ n = Name(q) => /\ Written(q)[n] = After(rows[n], body[q], seen[q])
                             /\ Written(q)[n].there
           /\ n # Name(q) => Written(q)[n] = rows[n]
           /\ Written(q)[n].live => Written(q)[n].there
           /\ Written(q)[n].enabled => Written(q)[n].live
           /\ rows[n].there => /\ Written(q)[n].there
                               /\ Written(q)[n].live => rows[n].live
<1>1. /\ rows[n] \in Rows /\ rows[Name(q)] \in Rows /\ seen[q] \in Rows /\ body[q] \in Bodies
      /\ Name(q) \in Names
  BY BodyName DEF Basic, TypeOK, Name
<1>2. PICK a \in Rows : a = After(rows[Name(q)], body[q], seen[q])
  BY <1>1, AfterRow
<1>3. /\ Written(q) \in [Names -> Rows]
      /\ n = Name(q) => Written(q)[n] = a
      /\ n # Name(q) => Written(q)[n] = rows[n]
  BY <1>1, <1>2 DEF Written, Basic, TypeOK
<1>4. /\ body[q].op = "create" => a.there /\ a.live
      /\ body[q].op # "create" => /\ a.there = rows[Name(q)].there
                                  /\ a.live => rows[Name(q)].live
                                  /\ (rows[Name(q)].enabled => rows[Name(q)].live) =>
                                        (a.enabled => a.live)
  BY <1>1, <1>2, AfterRow
<1>5. /\ pc[q] = "insert" => body[q].op = "create" /\ ~rows[Name(q)].there
      /\ pc[q] = "write" => body[q].op # "create" /\ rows[Name(q)].there
      /\ pc[q] = "insert" \/ pc[q] = "write"
  BY DEF Basic, Stage, Writes
<1>6. /\ rows[n].live => rows[n].there
      /\ rows[n].enabled => rows[n].live
  BY DEF Basic, RowsSound
<1>7. CASE n = Name(q)
  <2>1. Written(q)[n] = a /\ a = After(rows[n], body[q], seen[q])
    BY <1>2, <1>3, <1>7
  <2>2. CASE pc[q] = "insert"
    BY <1>4, <1>5, <1>7, <2>1, <2>2, <1>3
  <2>3. CASE pc[q] = "write"
    BY <1>4, <1>5, <1>6, <1>7, <2>1, <2>3, <1>3
  <2> QED BY <1>5, <2>2, <2>3
<1>8. CASE n # Name(q)
  BY <1>3, <1>6, <1>8
<1> QED BY <1>7, <1>8

\* What every step leaves: rows sound and never fewer, a deleted one deleted.
LEMMA RowsStep ==
    ASSUME Basic, Next, NEW n \in Names
    PROVE  /\ rows' \in [Names -> Rows]
           /\ rows'[n].live => rows'[n].there
           /\ rows'[n].enabled => rows'[n].live
           /\ rows[n].there => /\ rows'[n].there
                               /\ rows'[n].live => rows[n].live
<1>1. CASE rows' = rows
  BY <1>1 DEF Basic, TypeOK, RowsSound
<1>2. CASE \E q \in Requests : Writes(q) /\ rows' = Written(q)
  BY <1>2, Statement
<1>3. ASSUME NEW q \in Requests, Begin(q) \/ Handler(q)
      PROVE  rows' = rows \/ (Writes(q) /\ rows' = Written(q))
  BY <1>3 DEF Begin, Handler, NoPut, Put, PutFails, Conflict, Read, ReadFails, Exec, ExecFails,
              Reread, RereadFails
<1> QED BY <1>1, <1>2, <1>3 DEF Next

LEMMA TypeStep == ASSUME Basic, Next PROVE TypeOK'
<1>1. PICK q \in Requests : Begin(q) \/ Handler(q)
  BY DEF Next
<1>2. rows' \in [Names -> Rows]
  BY <1>1, RowsStep, BodyName DEF Basic, TypeOK
<1>3. body[q] \in Bodies /\ (pc[q] \in {"put", "insert"} => body[q].root \in Folders)
  BY BodyKinds DEF Basic, TypeOK, Stage, Creates
<1>0. cosClient' = cosClient
  BY DEF Next
<1> USE Defaults, <1>0, <1>2, <1>3 DEF Basic, TypeOK, Goto, history
<1>4. CASE Begin(q)
  <2>1. PICK b \in Bodies : Beside(q, b) /\ body' = [body EXCEPT ![q] = b]
                            /\ pc' = [pc EXCEPT ![q] = IF b.op = "create" THEN "put" ELSE "read"]
    BY <1>4 DEF Begin
  <2>2. alone' \in [Requests -> BOOLEAN]
    <3>1. CASE col \in Named(b)
      <4>1. alone' = [p \in Requests |-> IF p = q THEN Rivals(q, b) = {}
                                                  ELSE alone[p] /\ p \notin Rivals(q, b)]
        BY <2>1, <3>1 DEF Beside
      <4> QED BY ONLY <4>1, Zenon
    <3>2. CASE col \notin Named(b)
      BY <2>1, <3>2 DEF Beside
    <3> QED BY <3>1, <3>2
  <2> QED BY <1>4, <2>1, <2>2 DEF Begin
<1>5. CASE Over(q) /\ UNCHANGED placed /\ did' \in [Requests -> BOOLEAN] /\ ok' \in [Requests -> BOOLEAN]
  BY <1>5 DEF Over
<1>6. CASE PutFails(q)
  BY <1>6 DEF PutFails, Refuse, Over
<1>7. CASE NoPut(q) \/ Put(q)
  BY <1>7 DEF NoPut, Put
<1>8. CASE Read(q)
  BY <1>8, BodyName DEF Read, Name
<1>9. CASE Exec(q)
  <2>1. did' \in [Requests -> BOOLEAN]
    BY <1>9 DEF Exec
  <2>2. CASE body[q].op \in {"create", "update"}
    BY <1>9, <2>1, <2>2 DEF Exec
  <2>3. CASE body[q].op \notin {"create", "update"}
    BY <1>9, <2>1, <2>3 DEF Exec, Acknowledge, Over
  <2> QED BY <2>2, <2>3
<1> QED BY <1>1, <1>4, <1>5, <1>6, <1>7, <1>8, <1>9
        DEF Handler, Conflict, ReadFails, ExecFails, Reread, RereadFails, Refuse, Acknowledge

LEMMA StageStep == ASSUME Basic, Next, NEW p \in Requests PROVE Stage(p)'
<1>1. PICK q \in Requests : Begin(q) \/ Handler(q)
  BY DEF Next
<1>2. Stage(p) /\ Name(p) \in Names /\ body[p] \in Bodies
  BY BodyName DEF Basic, TypeOK, Name
<1>3. pc[p] \in {"write", "reread"} => rows'[Name(p)].there
  BY <1>2, RowsStep DEF Stage
<1>0. cosClient' = cosClient
  BY DEF Next
<1> USE <1>0, <1>2, <1>3 DEF Stage, Goto, Basic, TypeOK, Name
<1>4. CASE Begin(q)
  BY <1>4 DEF Begin
<1>5. CASE Over(q) /\ UNCHANGED placed
  BY <1>5 DEF Over
<1>6. CASE PutFails(q)
  BY <1>6 DEF PutFails, Refuse, Over
<1>7. CASE NoPut(q) \/ Put(q)
  BY <1>7 DEF NoPut, Put
<1>8. CASE Read(q)
  <2>1. rows[Name(q)].there
    BY <1>8, BodyName DEF Read, RowsSound
  <2> QED BY <1>8, <2>1 DEF Read
<1>9. CASE Exec(q) /\ ~Over(q)
  <2>1. rows'[Name(q)].there
    BY <1>9, Statement, BodyName DEF Exec
  <2> QED BY <1>9, <2>1 DEF Exec, Acknowledge
<1> QED BY <1>1, <1>4, <1>5, <1>6, <1>7, <1>8, <1>9
        DEF Handler, Conflict, ReadFails, Exec, ExecFails, Reread, RereadFails, Refuse, Acknowledge

LEMMA EventStep ==
    ASSUME Basic, Next, NEW p \in Requests, Event(p)
    PROVE  Event(p)'
<1>1. PICK q \in Requests : Begin(q) \/ Handler(q)
  BY DEF Next
<1>2. Name(p) \in Names /\ Name(q) \in Names
  BY BodyName DEF Basic, TypeOK, Name
<1>3. pc[p] = "reread" /\ ~rows[Name(p)].live => ~rows'[Name(p)].live
  BY <1>2, RowsStep DEF Basic, Stage
<1> USE <1>2, <1>3 DEF Event, Goto, Basic, TypeOK, Name
<1>4. CASE Begin(q)
  BY <1>4 DEF Begin
<1>5. CASE Refuse(q) /\ pc[q] # "idle"
  BY <1>5 DEF Refuse, Over
<1>6. CASE NoPut(q) \/ Put(q)
  BY <1>6 DEF NoPut, Put
<1>7. CASE Read(q)
  BY <1>7 DEF Read
<1>8. CASE Reread(q)
  BY <1>8 DEF Reread, Acknowledge, Over
<1>9. CASE Exec(q)
  <2>1. p # q => Event(p)'
    BY <1>9 DEF Exec, Acknowledge, Over
  <2>2. CASE body[q].op \in {"create", "update"}
    <3>1. did'[q] = (body[q].op = "update" => rows[Name(q)].live)
      BY <1>9 DEF Exec
    <3>2. ~rows[Name(q)].live /\ pc[q] = "write" => ~rows'[Name(q)].live
      BY RowsStep DEF Stage
    <3>3. pc[q] \in {"insert", "write"} /\ (pc[q] = "insert" => body[q].op = "create")
      BY <1>9 DEF Exec, Writes, Stage
    <3>4. pc'[q] = "reread" /\ ok'[q] = ok[q] /\ body'[q] = body[q]
      BY <1>9, <2>2 DEF Exec
    <3> QED BY <2>1, <2>2, <3>1, <3>2, <3>3, <3>4
  <2>3. CASE body[q].op \notin {"create", "update"}
    <3>1. did'[q] /\ pc'[q] = "idle"
      BY <1>9, <2>3 DEF Exec, Acknowledge, Over
    <3> QED BY <2>1, <3>1
  <2> QED BY <2>2, <2>3
<1> QED BY <1>1, <1>4, <1>5, <1>6, <1>7, <1>8, <1>9
        DEF Handler, PutFails, Conflict, ReadFails, ExecFails, RereadFails, Writes

----
\* The watched column

\* A statement leaves the column, or writes the value its request wants there.
LEMMA ColumnStatement ==
    ASSUME Basic, col # "flag", NEW q \in Requests, Writes(q), NEW n \in Names
    PROVE  /\ At(q, n) /\ Written(q)[n].live => Written(q)[n][col] = Wanted(body[q], col)
           /\ ~At(q, n) => Written(q)[n] = rows[n] \/ (rows[n].there /\ Written(q)[n][col] = rows[n][col])
           /\ At(q, n) => \/ Written(q)[n][col] = Wanted(body[q], col)
                          \/ /\ body[q].op = "update" /\ rows[n].there /\ ~rows[n].live
                             /\ Written(q)[n] = rows[n]
<1>1. /\ rows[n] \in Rows /\ seen[q] \in Rows /\ body[q] \in Bodies
      /\ Name(q) \in Names /\ col \in Columns \ {"flag"}
  BY BodyName DEF Basic, TypeOK, Name
<1>2. CASE n = Name(q)
  <2>1. Written(q)[n] = After(rows[n], body[q], seen[q])
    BY <1>2, Statement
  <2>2. PICK a : a = After(rows[n], body[q], seen[q])
    OBVIOUS
  <2>3. /\ col \notin Named(body[q]) => a[col] = rows[n][col]
        /\ col \in Named(body[q]) /\ (body[q].op = "update" => rows[n].live) =>
              a[col] = Wanted(body[q], col)
        /\ body[q].op = "update" /\ ~rows[n].live => a = rows[n]
    BY <1>1, <2>2, AfterColumn
  <2>4. body[q].op # "create" => (a.live => rows[n].live)
    BY <1>1, <2>2, AfterRow
  <2>5. pc[q] # "idle" /\ (body[q].op # "create" => rows[n].there)
    BY <1>2 DEF Writes, Stage, Basic
  <2>6. body[q].op = "create" => col \in Named(body[q])
    BY <1>1 DEF Named
  <2> QED BY <1>2, <2>1, <2>2, <2>3, <2>4, <2>5, <2>6 DEF At
<1>3. CASE n # Name(q)
  BY <1>3, Statement DEF At
<1> QED BY <1>2, <1>3

\* What a statement of q does to a column: its value stays legitimate, and the one
\* that another request is alone with stays.
LEMMA ColumnStep ==
    ASSUME Basic, Kept, col # "flag", NEW q \in Requests, NEW n \in Names,
           rows' = rows \/ (Writes(q) /\ rows' = Written(q))
    PROVE  /\ rows'[n].there => rows'[n][col] \in legit[n]
           /\ \A p \in Requests \ {q} :
                 alone[p] /\ Name(p) = n /\ pc[p] = "reread" /\ rows'[n].live =>
                    rows'[n][col] = Wanted(body[p], col)
<1>1. CASE rows' = rows
  BY <1>1 DEF Kept
<1>2. CASE Writes(q) /\ rows' = Written(q)
  <2>1. CASE At(q, n)
    <3>1. \/ rows'[n][col] = Wanted(body[q], col)
          \/ rows[n].there /\ rows'[n] = rows[n]
      BY <1>2, <2>1, ColumnStatement
    <3>2. Wanted(body[q], col) \in legit[n]
      BY <2>1 DEF Kept, At
    <3>3. \A p \in Requests \ {q} : Name(p) = n => ~alone[p]
      BY <2>1 DEF Kept
    <3> QED BY <3>1, <3>2, <3>3 DEF Kept
  <2>2. CASE ~At(q, n)
    <3>1. \/ rows'[n] = rows[n]
          \/ rows[n].there /\ rows'[n][col] = rows[n][col]
      BY <1>2, <2>2, ColumnStatement
    <3>2. rows[n].there /\ rows'[n].live => rows[n].live
      BY <1>2, Statement
    <3>3. \A p \in Requests \ {q} : Name(p) = n /\ pc[p] = "reread" => rows[n].there
      BY DEF Basic, Stage
    <3> QED BY <3>1, <3>2, <3>3 DEF Kept
  <2> QED BY <2>1, <2>2
<1> QED BY <1>1, <1>2

\* A request that is over leaves the column to the others.
LEMMA OverKept ==
    ASSUME Basic, Kept, col # "flag", NEW q \in Requests, Over(q),
           rows' = rows \/ (Writes(q) /\ rows' = Written(q)),
           \/ legit' = legit
           \/ /\ alone[q] /\ legit' = [legit EXCEPT ![Name(q)] = {Wanted(body[q], col)}]
              /\ rows'[Name(q)][col] = Wanted(body[q], col)
    PROVE  Kept'
<1>1. /\ pc' = [pc EXCEPT ![q] = "idle"] /\ body' = [body EXCEPT ![q] = Nobody]
      /\ alone' = [alone EXCEPT ![q] = FALSE] /\ col' = col
  BY DEF Over, Goto
<1>2. /\ pc \in [Requests -> {"idle", "put", "insert", "read", "write", "reread"}]
      /\ body \in [Requests -> Bodies] /\ alone \in [Requests -> BOOLEAN]
      /\ \A p \in Requests : Name(p) \in Names
  BY BodyName DEF Basic, TypeOK, Name
<1>3. ~alone'[q] /\ \A n : ~At(q, n)'
  BY <1>1, <1>2 DEF At
<1>4. ASSUME NEW p \in Requests, p # q
      PROVE  /\ pc'[p] = pc[p] /\ body'[p] = body[p] /\ alone'[p] = alone[p]
             /\ Name(p)' = Name(p)
  BY <1>1, <1>2, <1>4 DEF Name
<1>5. ASSUME NEW p \in Requests, p # q, NEW n PROVE At(p, n)' <=> At(p, n)
  BY <1>1, <1>4, <1>5 DEF At
<1>6. DOMAIN legit' = Names
  BY DEF Kept
<1>7. ASSUME NEW p \in Requests, At(p, Name(p))'
      PROVE  Wanted(body[p], col)' \in legit'[Name(p)']
  <2>1. p # q
    BY <1>3, <1>7
  <2>2. At(p, Name(p)) /\ Wanted(body[p], col)' = Wanted(body[p], col)
    BY <1>1, <1>4, <1>5, <1>7, <2>1 DEF Wanted
  <2>3. alone[q] => Name(p) # Name(q)
    BY <2>1, <2>2 DEF Kept
  <2>4. legit'[Name(p)] = legit[Name(p)]
    BY <1>2, <2>3 DEF Kept
  <2> QED BY <1>4, <2>1, <2>2, <2>4 DEF Kept
<1>8. ASSUME NEW p \in Requests, alone'[p]
      PROVE  /\ At(p, Name(p))'
             /\ \A r \in Requests \ {p} : ~At(r, Name(p))'
             /\ pc'[p] = "reread" /\ rows'[Name(p)'].live =>
                   rows'[Name(p)'][col'] = Wanted(body[p], col)'
  <2>1. p # q
    BY <1>3, <1>8
  <2>2. alone[p] /\ Wanted(body[p], col)' = Wanted(body[p], col)
    BY <1>1, <1>4, <1>8, <2>1 DEF Wanted
  <2>3. At(p, Name(p)) /\ \A r \in Requests \ {p} : ~At(r, Name(p))
    BY <2>2 DEF Kept
  <2>4. At(p, Name(p))'
    BY <1>4, <1>5, <2>1, <2>3
  <2>5. ASSUME NEW r \in Requests \ {p} PROVE ~At(r, Name(p))'
    BY <1>3, <1>4, <1>5, <2>1, <2>3
  <2>6. pc[p] = "reread" /\ rows'[Name(p)].live =>
           rows'[Name(p)][col] = Wanted(body[p], col)
    BY <1>2, <2>1, <2>2, ColumnStep
  <2> QED BY <1>1, <1>4, <2>1, <2>2, <2>4, <2>5, <2>6
<1>9. ASSUME NEW n \in Names, rows'[n].there PROVE rows'[n][col'] \in legit'[n]
  <2>1. rows'[n][col] \in legit[n]
    BY <1>9, ColumnStep
  <2> QED BY <1>1, <2>1 DEF Kept
<1> QED BY <1>6, <1>7, <1>8, <1>9 DEF Kept

\* A request that goes on stays at the column, and one that reads the row again
\* alone finds what it wrote.
LEMMA GoesOnKept ==
    ASSUME Basic, Kept, col # "flag", NEW q \in Requests, pc[q] # "idle",
           NEW l \in {"insert", "write", "reread"}, Goto(q, l),
           UNCHANGED <<body, alone, legit, col>>,
           rows' = rows \/ (Writes(q) /\ rows' = Written(q)),
           l = "reread" => Writes(q) /\ rows' = Written(q)
    PROVE  Kept'
<1>1. /\ pc \in [Requests -> {"idle", "put", "insert", "read", "write", "reread"}]
      /\ \A p \in Requests : Name(p) \in Names
  BY BodyName DEF Basic, TypeOK, Name
<1>2. \A p \in Requests : /\ p # q => pc'[p] = pc[p]
                          /\ pc'[p] # "idle" <=> pc[p] # "idle"
  BY <1>1 DEF Goto
<1>3. \A p \in Requests : /\ Name(p)' = Name(p)
                          /\ Wanted(body[p], col)' = Wanted(body[p], col)
                          /\ \A n : At(p, n)' <=> At(p, n)
  BY <1>2 DEF At, Name, Wanted
<1>4. \A n \in Names : rows'[n].there => rows'[n][col] \in legit[n]
  BY ColumnStep
<1>5. ASSUME NEW p \in Requests, alone[p], pc'[p] = "reread", rows'[Name(p)].live
      PROVE  rows'[Name(p)][col] = Wanted(body[p], col)
  <2>1. CASE p = q
    <3>1. l = "reread"
      BY <1>1, <1>5, <2>1 DEF Goto
    <3>2. At(q, Name(q))
      BY <1>5, <2>1 DEF Kept
    <3> QED BY <1>1, <1>5, <2>1, <3>1, <3>2, ColumnStatement
  <2>2. CASE p # q
    BY <1>1, <1>2, <1>5, <2>2, ColumnStep
  <2> QED BY <2>1, <2>2
<1> QED BY <1>3, <1>4, <1>5 DEF Kept

\* A request that comes has its value admitted, and who was alone at the column no
\* longer is.
LEMMA BeginKept == ASSUME Basic, Kept, NEW q \in Requests, Begin(q) PROVE Kept'
<1>1. PICK b \in Bodies : /\ body' = [body EXCEPT ![q] = b]
                          /\ pc' = [pc EXCEPT ![q] = IF b.op = "create" THEN "put" ELSE "read"]
                          /\ Beside(q, b)
  BY DEF Begin, Goto
<1>2. /\ pc \in [Requests -> {"idle", "put", "insert", "read", "write", "reread"}]
      /\ body \in [Requests -> Bodies] /\ alone \in [Requests -> BOOLEAN] /\ b.name \in Names
      /\ \A p \in Requests : Name(p) \in Names
  BY BodyName DEF Basic, TypeOK, Name
<1>3. pc[q] = "idle" /\ rows' = rows /\ col' = col
  BY DEF Begin
<1>4. /\ \A n : At(q, n)' <=> n = b.name /\ col \in Named(b)
      /\ Name(q)' = b.name /\ pc'[q] # "reread"
  BY <1>1, <1>2, <1>3 DEF At, Name
<1>5. ASSUME NEW p \in Requests, p # q
      PROVE  /\ \A n : At(p, n)' <=> At(p, n)
             /\ pc'[p] = pc[p] /\ Name(p)' = Name(p)
             /\ Wanted(body[p], col)' = Wanted(body[p], col)
  BY <1>1, <1>2, <1>3, <1>5 DEF At, Name, Wanted
<1>6. Wanted(body[q], col)' = Wanted(b, col)
  BY <1>1, <1>2, <1>3 DEF Wanted
<1>7. \A p \in Requests \ {q} : p \in Rivals(q, b) <=> At(p, b.name)
  <2>1. ASSUME NEW p \in Requests \ {q} PROVE p \in Rivals(q, b) <=> At(p, b.name)
    BY DEF Rivals, At
  <2> QED BY <2>1
<1>8. Rivals(q, b) \subseteq Requests \ {q}
  BY DEF Rivals
<1>9. /\ DOMAIN legit' = Names
      /\ \A n \in Names : legit[n] \subseteq legit'[n]
      /\ At(q, b.name)' => Wanted(b, col) \in legit'[b.name]
  BY <1>1, <1>2, <1>4 DEF Beside, Kept
<1>10. ASSUME NEW p \in Requests, alone'[p], p # q
       PROVE  alone[p] /\ ~At(q, Name(p))'
  <2>1. CASE col \in Named(b)
    <3>1. alone'[p] = (alone[p] /\ p \notin Rivals(q, b))
      BY <1>1, <1>10, <2>1 DEF Beside
    <3>2. alone[p] /\ p \notin Rivals(q, b)
      BY <1>10, <3>1
    <3>3. At(p, Name(p))
      BY <3>2 DEF Kept
    <3> QED BY <1>4, <1>5, <1>7, <1>10, <3>2, <3>3
  <2>2. CASE col \notin Named(b)
    BY <1>1, <1>2, <1>4, <1>10, <2>2 DEF Beside
  <2> QED BY <2>1, <2>2
<1>11. ASSUME alone'[q]
       PROVE  At(q, b.name)' /\ \A p \in Requests \ {q} : ~At(p, b.name)
  <2>1. CASE col \in Named(b)
    BY <1>1, <1>4, <1>7, <1>11, <2>1 DEF Beside
  <2>2. CASE col \notin Named(b)
    BY <1>1, <1>2, <1>11, <2>2 DEF Beside
  <2> QED BY <2>1, <2>2
<1>12. ASSUME NEW p \in Requests, At(p, Name(p))'
       PROVE  Wanted(body[p], col)' \in legit'[Name(p)']
  BY <1>2, <1>4, <1>5, <1>6, <1>9, <1>12 DEF Kept
<1>13. ASSUME NEW p \in Requests, alone'[p]
       PROVE  /\ At(p, Name(p))'
              /\ \A r \in Requests \ {p} : ~At(r, Name(p))'
              /\ pc'[p] = "reread" /\ rows'[Name(p)'].live =>
                    rows'[Name(p)'][col'] = Wanted(body[p], col)'
  <2>1. CASE p = q
    BY <1>4, <1>5, <1>11, <1>13, <2>1
  <2>2. CASE p # q
    BY <1>3, <1>5, <1>10, <1>13, <2>2 DEF Kept
  <2> QED BY <2>1, <2>2
<1>14. \A n \in Names : rows'[n].there => rows'[n][col'] \in legit'[n]
  BY <1>3, <1>9 DEF Kept
<1> QED BY <1>9, <1>12, <1>13, <1>14 DEF Kept

LEMMA KeptStep == ASSUME Basic, Kept, Next, col # "flag" PROVE Kept'
<1>1. PICK q \in Requests : Begin(q) \/ Handler(q)
  BY DEF Next
<1>2. CASE Begin(q)
  BY <1>2, BeginKept
<1>3. CASE NoPut(q) \/ Put(q) \/ Read(q)
  <2>1. /\ pc[q] # "idle" /\ (Goto(q, "insert") \/ Goto(q, "write"))
        /\ UNCHANGED <<body, alone, legit, col>> /\ rows' = rows
    BY <1>3 DEF NoPut, Put, Read, history
  <2> QED BY <2>1, GoesOnKept
<1>4. CASE PutFails(q) \/ Conflict(q) \/ ReadFails(q) \/ ExecFails(q) \/ RereadFails(q)
  <2>1. /\ Over(q) /\ legit' = legit
        /\ rows' = rows \/ (Writes(q) /\ rows' = Written(q))
    BY <1>4 DEF PutFails, Conflict, ReadFails, ExecFails, RereadFails, Refuse
  <2> QED BY <2>1, OverKept
<1>5. CASE Exec(q) /\ body[q].op \in {"create", "update"}
  <2>1. /\ Goto(q, "reread") /\ UNCHANGED <<body, alone, legit, col>>
        /\ Writes(q) /\ rows' = Written(q)
    BY <1>5 DEF Exec, history
  <2> QED BY <2>1, GoesOnKept DEF Writes
<1>6. CASE Exec(q) /\ body[q].op \notin {"create", "update"}
  <2>1. Over(q) /\ Settled(q) /\ Writes(q) /\ rows' = Written(q)
    BY <1>6 DEF Exec, Acknowledge
  <2>2. alone[q] => rows'[Name(q)][col] = Wanted(body[q], col)
    <3>1. Name(q) \in Names /\ (alone[q] => At(q, Name(q)))
      BY BodyName DEF Basic, TypeOK, Name, Kept
    <3> QED BY <1>6, <2>1, <3>1, ColumnStatement
  <2> QED BY <2>1, <2>2, OverKept DEF Settled
<1>7. CASE Reread(q)
  <2>1. Over(q) /\ Settled(q) /\ rows' = rows /\ pc[q] = "reread" /\ rows[Name(q)].live
    BY <1>7 DEF Reread, Acknowledge
  <2>2. alone[q] => rows'[Name(q)][col] = Wanted(body[q], col)
    BY <2>1 DEF Kept
  <2> QED BY <2>1, <2>2, OverKept DEF Settled
<1> QED BY <1>1, <1>2, <1>3, <1>4, <1>5, <1>6, <1>7 DEF Handler

----
LEMMA Initial == Init => IInv
<1> SUFFICES ASSUME Init PROVE IInv
  OBVIOUS
<1>1. /\ rows = [n \in Names |-> NoRow] /\ body = [q \in Requests |-> Nobody]
      /\ pc = [q \in Requests |-> "idle"] /\ ok = [q \in Requests |-> FALSE]
      /\ alone = [q \in Requests |-> FALSE] /\ legit = [n \in Names |-> {NoRow[col]}]
  BY DEF Init
<1>2. TypeOK
  BY Defaults DEF Init, TypeOK
<1>3. RowsSound
  BY <1>1 DEF RowsSound, NoRow
<1>4. \A q \in Requests : Stage(q) /\ Event(q)
  BY <1>1 DEF Stage, Event
<1>5. Kept
  BY <1>1 DEF Kept, At, NoRow
<1> QED BY <1>2, <1>3, <1>4, <1>5 DEF IInv, Basic

LEMMA Inductive == IInv /\ [Next]_vars => IInv'
<1>1. CASE IInv /\ Next
  <2>1. TypeOK' /\ RowsSound' /\ \A q \in Requests : Stage(q)'
    BY <1>1, TypeStep, RowsStep, StageStep DEF IInv, RowsSound
  <2>2. \A q \in Requests : Event(q)'
    BY <1>1, EventStep DEF IInv
  <2>3. col' = col
    BY <1>1 DEF Next, Begin, Handler, NoPut, Put, PutFails, Conflict, Read, ReadFails, Exec, ExecFails,
                Reread, RereadFails, Refuse, Acknowledge, Over, history
  <2>4. col # "flag" => Kept'
    BY <1>1, KeptStep DEF IInv
  <2> QED BY <2>1, <2>2, <2>3, <2>4 DEF IInv, Basic
<1>2. CASE IInv /\ UNCHANGED vars
  BY <1>2 DEF IInv, Basic, TypeOK, RowsSound, Stage, Event, Kept, At, Name, vars
<1> QED BY <1>1, <1>2

\* The inductive invariant holds in every state.
THEOREM Invariance == Spec => []IInv
BY Initial, Inductive, PTL DEF Spec

\* Every variable has its type, whatever requests do to the accounts.
THEOREM TypeCorrect == Spec => []TypeOK
<1>1. IInv => TypeOK
  BY DEF IInv, Basic
<1> QED BY <1>1, Invariance, PTL

\* No request puts back a value that another one replaced and had acknowledged, for
\* every column but the flags (users_api.go:123-139).
THEOREM KeptForGood == Spec => []AcknowledgedKept
<1>1. IInv => AcknowledgedKept
  BY DEF IInv, Kept, AcknowledgedKept
<1> QED BY <1>1, Invariance, PTL

\* An event of the trail is about a change that was made (users_api.go:100-233).
THEOREM EventsAreTrue == Spec => []EventsTrue
<1>1. IInv => EventsTrue
  BY DEF IInv, Event, EventsTrue
<1> QED BY <1>1, Invariance, PTL

\* A deleted account stays deleted and disabled (queries.go:114-128).
THEOREM DeletedForGood == Spec => DeletedIsFinal
<1> DEFINE Stays == \A n \in Names :
                       rows[n].there /\ ~rows[n].live =>
                          rows'[n].there /\ ~rows'[n].live /\ ~rows'[n].enabled
<1>1. IInv /\ [Next]_vars => [Stays]_vars
  <2>1. IInv /\ Next => Stays
    BY RowsStep DEF IInv
  <2> QED BY <2>1
<1> QED BY <1>1, Invariance, PTL DEF Spec, DeletedIsFinal

\* With a bucket behind the service the folder is there before the account
\* (users_api.go:51-60).
THEOREM FolderBefore == Spec => FolderFirst
<1> DEFINE First == \A n \in Names :
                       cosClient /\ ~rows[n].there /\ rows'[n].there => rows'[n].root \in placed
<1>1. IInv /\ [Next]_vars => [First]_vars
  <2>1. ASSUME IInv, cosClient, NEW q \in Requests, Begin(q) \/ Handler(q), NEW n \in Names,
               ~rows[n].there, rows'[n].there
        PROVE  rows'[n].root \in placed
    <3>1. rows' = rows \/ (Writes(q) /\ rows' = Written(q))
      BY <2>1 DEF Begin, Handler, NoPut, Put, PutFails, Conflict, Read, ReadFails, Exec, ExecFails,
                  Reread, RereadFails
    <3>2. Writes(q) /\ rows' = Written(q) /\ n = Name(q)
      BY <2>1, <3>1, Statement DEF IInv
    <3>3. pc[q] = "insert" /\ body[q].op = "create" /\ body[q].root \in placed
      BY <2>1, <3>2 DEF IInv, Basic, Stage, Writes
    <3>4. rows'[n] = Inserted(body[q])
      BY <2>1, <3>2, <3>3, Statement DEF IInv, After
    <3> QED BY <3>3, <3>4 DEF Inserted
  <2> QED BY <2>1 DEF Next
<1> QED BY <1>1, Invariance, PTL DEF Spec, FolderFirst
====
