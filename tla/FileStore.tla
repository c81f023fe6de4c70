---- MODULE FileStore ----
(***************************************************************************)
(* What the file driver promises of one user's files, without saying with  *)
(* which requests, buffers and workers: an operation has a list of effects *)
(* on the store.  They happen one by one, in order, each once, between the *)
(* operation's beginning and its answer, and all of them before an answer  *)
(* that says ok.  What an upload stores is made of its own chunks, each at *)
(* its place or lost, never of another's.  CosFS is shown to implement     *)
(* this module.                                                            *)
(***************************************************************************)
EXTENDS Naturals, Sequences

CONSTANTS
    Sessions,
    Names,
    NoObject,   \* there is no file of a name
    Lost        \* what is at the place of a lost chunk

VARIABLES
    store,      \* the content of each name
    marks,      \* names that are folders
    count,      \* operations begun
    task,       \* each session's operation, with the effects still to come
    answer      \* of its latest operation: nothing yet, ok, failed

vars == <<store, marks, count, task, answer>>

Nothing == [id |-> 0, name |-> "", to |-> "", todo |-> <<>>]

\* The effects of an operation: of a listing, a download, an upload, a new
\* folder, a removal, a renaming.
Works == {<<>>, <<"look">>, <<"put">>, <<"mark">>, <<"drop">>, <<"copy", "drop">>}

Init ==
    /\ store = [n \in Names |-> store[n]]
    /\ marks = {}
    /\ count = 0
    /\ task = [s \in Sessions |-> Nothing]
    /\ answer = [s \in Sessions |-> "nothing"]

Begin(s) ==
    /\ task[s] = Nothing
    /\ count' = count + 1
    /\ \E name, to \in Names, work \in Works :
          task' = [task EXCEPT ![s] = [id |-> count', name |-> name, to |-> to, todo |-> work]]
    /\ answer' = [answer EXCEPT ![s] = "nothing"]
    /\ UNCHANGED <<store, marks>>

----
\* The first effect that is still to come

\* c is what the upload of operation k may leave.
Of(k, c) == \A i \in 1..Len(c) : c[i] \in {Lost, <<k, i>>}

\* There is something to read.
Look(t) ==
    /\ store[t.name] # NoObject \/ t.name \in marks
    /\ UNCHANGED <<store, marks>>

Put(t) ==
    /\ store' = [store EXCEPT ![t.name] = store'[t.name]]
    /\ store'[t.name] # NoObject /\ Of(t.id, store'[t.name])
    /\ UNCHANGED marks

Mark(t) ==
    /\ marks' = marks \union {t.name}
    /\ UNCHANGED store

Drop(t) ==
    /\ store' = [store EXCEPT ![t.name] = NoObject]
    /\ UNCHANGED marks

Copy(t) ==
    /\ store[t.name] # NoObject
    /\ store' = [store EXCEPT ![t.to] = store[t.name]]
    /\ UNCHANGED marks

Effect(t) ==
    /\ t.todo # <<>>
    /\ \/ Head(t.todo) = "look" /\ Look(t)
       \/ Head(t.todo) = "put" /\ Put(t)
       \/ Head(t.todo) = "mark" /\ Mark(t)
       \/ Head(t.todo) = "drop" /\ Drop(t)
       \/ Head(t.todo) = "copy" /\ Copy(t)

----
\* An effect, with more to come or with the answer to come.
Advance(s) ==
    /\ Effect(task[s])
    /\ task' = [task EXCEPT ![s].todo = Tail(@)]
    /\ UNCHANGED <<count, answer>>

Answer(s, a) ==
    /\ task' = [task EXCEPT ![s] = Nothing]
    /\ answer' = [answer EXCEPT ![s] = a]
    /\ UNCHANGED count

\* All is done by now, or with the last effect.
Succeed(s) ==
    /\ task[s] # Nothing
    /\ \/ task[s].todo = <<>> /\ UNCHANGED <<store, marks>>
       \/ Len(task[s].todo) = 1 /\ Effect(task[s])
    /\ Answer(s, "ok")

\* The effect that failed has happened or not; those after it have not.
Fail(s) ==
    /\ task[s] # Nothing
    /\ Effect(task[s]) \/ UNCHANGED <<store, marks>>
    /\ Answer(s, "failed")

Next == \E s \in Sessions : Begin(s) \/ Advance(s) \/ Succeed(s) \/ Fail(s)

Spec == Init /\ [][Next]_vars
====
