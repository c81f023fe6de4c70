---- MODULE AuditTrail ----
(***************************************************************************)
(* What audit.Logger promises to the rest of the server, without saying    *)
(* how: an unbounded line of accepted events that leaves from the front,   *)
(* a batch at a time.  A batch is stored whole or lost whole, so the table *)
(* only ever grows at its end, in the order the events were accepted.      *)
(* AuditLogger (the buffered channel, the writer goroutine and its         *)
(* transactions) is shown to implement this module.                        *)
(***************************************************************************)
EXTENDS Naturals, Sequences

CONSTANTS
    Events,     \* everything a caller could log
    MaxBatch    \* the most events one transaction carries

VARIABLES
    up,         \* the process is running
    pending,    \* accepted events that no transaction has settled yet
    table       \* the rows of audit_events, in insertion order

vars == <<up, pending, table>>

Init ==
    /\ up = TRUE
    /\ pending = <<>>
    /\ table = <<>>

\* An event joins the line.
Accept(e) ==
    /\ up
    /\ pending' = Append(pending, e)
    /\ UNCHANGED <<up, table>>

\* The first n pending events leave the line ...
Leave(n) ==
    /\ up
    /\ n <= MaxBatch
    /\ pending' = SubSeq(pending, n + 1, Len(pending))
    /\ UNCHANGED up

\* ... for the table, all of them and in order,
Store(n) ==
    /\ Leave(n)
    /\ table' = table \o SubSeq(pending, 1, n)

\* ... or for nowhere: the transaction was rolled back and is not retried.
Lose(n) ==
    /\ Leave(n)
    /\ UNCHANGED table

\* The process dies and takes the line with it; the table survives.
Die ==
    /\ up
    /\ up' = FALSE
    /\ pending' = <<>>
    /\ UNCHANGED table

Settle == \E n \in 1..Len(pending) : Store(n) \/ Lose(n)

Next ==
    \/ \E e \in Events : Accept(e)
    \/ Settle
    \/ Die

\* The safety part of the promise.
SafeSpec == Init /\ [][Next]_vars

\* With its liveness: while the process lives the line keeps moving.
Spec == SafeSpec /\ WF_vars(Settle)
====
