---- MODULE AuditLogger ----
(***************************************************************************)
(* internal/audit/audit.go: Logger.  Any goroutine of the server calls     *)
(* Log, which never blocks; one writer goroutine (run) moves events from   *)
(* the buffered channel to a batch and writes each batch in a transaction; *)
(* Close stops intake, closes the channel and waits for the writer.        *)
(*                                                                         *)
(* Log reads the closed flag and sends in two steps, and Close sets the    *)
(* flag and closes the channel in two steps, so all four can interleave.   *)
(* What an event says is left out: an event is <<caller, n>>, the n-th one *)
(* that caller logs.                                                       *)
(***************************************************************************)
EXTENDS Naturals, Sequences, SequencesExt

CONSTANTS
    Callers,    \* goroutines that log (FTP, SFTP, admin handlers, refresh hook)
    Recovering, \* callers whose goroutine survives a panic (net/http handlers)
    Closers,    \* goroutines that call Close
    Deadline,   \* closers whose ctx can expire (main's Background never does)
    QueueCap,   \* capacity of the channel (1024 in the code)
    BatchSize,  \* events per transaction (100 in the code)
    MaxEvents   \* bound: events each caller logs

ASSUME CallersAssumption == Recovering \subseteq Callers
ASSUME ClosersAssumption == Deadline \subseteq Closers
ASSUME CapacityAssumption ==
    /\ QueueCap \in Nat \ {0}
    /\ BatchSize \in Nat \ {0}
    /\ MaxEvents \in Nat

VARIABLES
    alive,      \* no goroutine has panicked unrecovered, nobody killed the process
    closed,     \* Logger.closed
    open,       \* the channel has not been closed
    ch,         \* the channel's contents
    writer,     \* where run() is: select, begin, exec, commit, done
    buf,        \* run()'s batch
    tx,         \* rows inserted by the transaction in progress
    final,      \* run() saw the closed channel: this flush is its last
    rows,       \* audit_events: committed rows only
    pc,         \* per caller: idle, send (between the flag and the channel)
                \* or dead (its goroutine panicked, without the recovery)
    count,      \* per caller: events it has logged
    cl,         \* per closer: idle, close, wait, ok, timeout, noop
    accepted,   \* history: events the channel took
    reported    \* history: events whose loss was written to the process log

vars == <<alive, closed, open, ch, writer, buf, tx, final, rows, pc, count,
          cl, accepted, reported>>

writerVars == <<writer, buf, tx, final, rows>>
callerVars == <<pc, count, accepted>>
closerVars == <<closed, open, cl>>

Events == Callers \X (1..MaxEvents)

\* Everything that has been accepted and neither rolled back nor forgotten.
Pending == buf \o ch

Init ==
    /\ alive = TRUE
    /\ closed = FALSE
    /\ open = TRUE
    /\ ch = <<>>
    /\ writer = "select"
    /\ buf = <<>>
    /\ tx = <<>>
    /\ final = FALSE
    /\ rows = <<>>
    /\ pc = [c \in Callers |-> "idle"]
    /\ count = [c \in Callers |-> 0]
    /\ cl = [p \in Closers |-> "idle"]
    /\ accepted = {}
    /\ reported = {}

----
\* Log(e)

\* The event a caller in "send" is holding.
Held(c) == <<c, count[c]>>

\* The flag is read: a closed logger ignores the event without a word.
LogCheck(c) ==
    /\ alive
    /\ pc[c] = "idle"
    /\ count[c] < MaxEvents
    /\ count' = [count EXCEPT ![c] = @ + 1]
    /\ pc' = [pc EXCEPT ![c] = IF closed THEN "idle" ELSE "send"]
    /\ UNCHANGED <<alive, ch, accepted, reported, writerVars, closerVars>>

\* The select sends when the buffer has room ...
LogSend(c) ==
    /\ alive
    /\ pc[c] = "send"
    /\ open
    /\ Len(ch) < QueueCap
    /\ ch' = Append(ch, Held(c))
    /\ accepted' = accepted \union {Held(c)}
    /\ pc' = [pc EXCEPT ![c] = "idle"]
    /\ UNCHANGED <<alive, count, reported, writerVars, closerVars>>

\* Fault: the default says nothing.
LogDropSilently(c) ==
    /\ alive
    /\ pc[c] = "send"
    /\ open
    /\ Len(ch) >= QueueCap
    /\ pc' = [pc EXCEPT ![c] = "idle"]
    /\ UNCHANGED <<alive, ch, count, accepted, reported, writerVars, closerVars>>

\* ... takes the default when it has none, and warns,
LogDrop(c) ==
    /\ alive
    /\ pc[c] = "send"
    /\ open
    /\ Len(ch) >= QueueCap
    /\ reported' = reported \union {Held(c)}
    /\ pc' = [pc EXCEPT ![c] = "idle"]
    /\ UNCHANGED <<alive, ch, count, accepted, writerVars, closerVars>>

\* ... and panics when Close closed the channel after the flag was read.
\* net/http recovers a handler's panic; anywhere else the process dies.
LogPanic(c) ==
    /\ alive
    /\ pc[c] = "send"
    /\ ~open
    /\ pc' = [pc EXCEPT ![c] = IF c \in Recovering THEN "idle" ELSE "dead"]
    /\ alive' = (c \in Recovering)
    /\ UNCHANGED <<ch, count, accepted, reported, writerVars, closerVars>>

----
\* run()

\* A receive; the batch is flushed as soon as it is full.
Receive ==
    /\ alive
    /\ writer = "select"
    /\ ch # <<>>
    /\ ch' = Tail(ch)
    /\ buf' = Append(buf, Head(ch))
    /\ writer' = IF Len(buf') >= BatchSize THEN "begin" ELSE "select"
    /\ UNCHANGED <<alive, tx, final, rows, reported, callerVars, closerVars>>

\* The ticker flushes a partial batch (with an empty one it does nothing).
Tick ==
    /\ alive
    /\ writer = "select"
    /\ buf # <<>>
    /\ writer' = "begin"
    /\ UNCHANGED <<alive, ch, buf, tx, final, rows, reported, callerVars,
                   closerVars>>

\* Fault: run returns on the closed channel without the last flush.
DrainedNoFlush ==
    /\ alive
    /\ writer = "select"
    /\ ch = <<>>
    /\ ~open
    /\ final' = TRUE
    /\ writer' = "done"
    /\ UNCHANGED <<alive, ch, buf, tx, rows, reported, callerVars, closerVars>>

\* Fault: the closed channel is not told from an empty one.
DrainedUnseen ==
    /\ alive
    /\ writer = "select"
    /\ ch = <<>>
    /\ ~open
    /\ writer' = IF buf = <<>> THEN "select" ELSE "begin"
    /\ UNCHANGED <<alive, ch, buf, tx, final, rows, reported, callerVars,
                   closerVars>>

\* The channel is closed and drained: the last flush, if there is one.
Drained ==
    /\ alive
    /\ writer = "select"
    /\ ch = <<>>
    /\ ~open
    /\ final' = TRUE
    /\ writer' = IF buf = <<>> THEN "done" ELSE "begin"
    /\ UNCHANGED <<alive, ch, buf, tx, rows, reported, callerVars, closerVars>>

----
\* writeBatch(): one transaction, one INSERT per event

\* What flush does whatever writeBatch returned.
Flushed ==
    /\ buf' = <<>>
    /\ tx' = <<>>
    /\ writer' = IF final THEN "done" ELSE "select"
    /\ UNCHANGED <<alive, ch, final, callerVars, closerVars>>

Begin ==
    /\ alive
    /\ writer = "begin"
    /\ writer' = "exec"
    /\ UNCHANGED <<alive, ch, buf, tx, final, rows, reported, callerVars,
                   closerVars>>

\* One INSERT, visible to nobody until the commit.
Exec ==
    /\ alive
    /\ writer = "exec"
    /\ tx' = Append(tx, buf[Len(tx) + 1])
    /\ writer' = IF Len(tx') = Len(buf) THEN "commit" ELSE "exec"
    /\ UNCHANGED <<alive, ch, buf, final, rows, reported, callerVars,
                   closerVars>>

Commit ==
    /\ alive
    /\ writer = "commit"
    /\ rows' = rows \o tx
    /\ Flushed
    /\ UNCHANGED reported

\* Fault: what was inserted before the error stays.
WriteFailsPartway ==
    /\ alive
    /\ writer \in {"begin", "exec", "commit"}
    /\ rows' = rows \o tx
    /\ reported' = reported \union ToSet(buf)
    /\ Flushed

\* Begin, an INSERT or Commit fails: rolled back, logged, forgotten.
WriteFails ==
    /\ alive
    /\ writer \in {"begin", "exec", "commit"}
    /\ reported' = reported \union ToSet(buf)
    /\ Flushed
    /\ UNCHANGED rows

\* The connection breaks after the server committed: an error is logged, the
\* rows are there.
CommitUnacknowledged ==
    /\ alive
    /\ writer = "commit"
    /\ rows' = rows \o tx
    /\ reported' = reported \union ToSet(buf)
    /\ Flushed

----
\* Close(ctx)

\* Fault: the flag is set without looking at it.
CloseSwapBlind(p) ==
    /\ alive
    /\ cl[p] = "idle"
    /\ cl' = [cl EXCEPT ![p] = "close"]
    /\ closed' = TRUE
    /\ UNCHANGED <<alive, open, ch, reported, writerVars, callerVars>>

\* CompareAndSwap lets one closer through; the others return nil at once.
CloseSwap(p) ==
    /\ alive
    /\ cl[p] = "idle"
    /\ cl' = [cl EXCEPT ![p] = IF closed THEN "noop" ELSE "close"]
    /\ closed' = TRUE
    /\ UNCHANGED <<alive, open, ch, reported, writerVars, callerVars>>

CloseChannel(p) ==
    /\ alive
    /\ cl[p] = "close"
    /\ cl' = [cl EXCEPT ![p] = "wait"]
    /\ open' = FALSE
    /\ UNCHANGED <<alive, closed, ch, reported, writerVars, callerVars>>

\* wg.Wait returned: the writer goroutine is gone.
CloseReturns(p) ==
    /\ alive
    /\ cl[p] = "wait"
    /\ writer = "done"
    /\ cl' = [cl EXCEPT ![p] = "ok"]
    /\ UNCHANGED <<alive, closed, open, ch, reported, writerVars, callerVars>>

CloseExpires(p) ==
    /\ alive
    /\ cl[p] = "wait"
    /\ p \in Deadline
    /\ cl' = [cl EXCEPT ![p] = "timeout"]
    /\ UNCHANGED <<alive, closed, open, ch, reported, writerVars, callerVars>>

----
\* SIGKILL, an out-of-memory kill, or a panic elsewhere.
Crash ==
    /\ alive
    /\ alive' = FALSE
    /\ UNCHANGED <<ch, reported, writerVars, callerVars, closerVars>>

Log(c) == LogCheck(c) \/ LogSend(c) \/ LogDrop(c) \/ LogPanic(c)

Run ==
    \/ Receive \/ Tick \/ Drained
    \/ Begin \/ Exec \/ Commit \/ WriteFails \/ CommitUnacknowledged

Close(p) ==
    \/ CloseSwap(p) \/ CloseChannel(p) \/ CloseReturns(p) \/ CloseExpires(p)

Next ==
    \/ \E c \in Callers : Log(c)
    \/ Run
    \/ \E p \in Closers : Close(p)
    \/ Crash

\* The writer goroutine is scheduled and the database answers, for better or
\* worse: every blocking call of the writer returns.  A goroutine inside Close
\* keeps going.  Nothing makes a caller log, or a closer close.
Fairness ==
    /\ WF_vars(Run)
    /\ \A p \in Closers : WF_vars(CloseChannel(p) \/ CloseReturns(p))

SafeSpec == Init /\ [][Next]_vars
Spec == SafeSpec /\ Fairness

----
\* Properties

\* The shape of the state: the channel within its capacity, the batch within
\* its size. (That the transaction is a prefix of the batch is in WriterInv.)
TypeOK ==
    /\ alive \in BOOLEAN
    /\ closed \in BOOLEAN
    /\ open \in BOOLEAN
    /\ ch \in Seq(Events) /\ Len(ch) <= QueueCap
    /\ writer \in {"select", "begin", "exec", "commit", "done"}
    /\ buf \in Seq(Events) /\ Len(buf) <= BatchSize
    /\ tx \in Seq(Events)
    /\ final \in BOOLEAN
    /\ rows \in Seq(Events)
    /\ pc \in [Callers -> {"idle", "send", "dead"}]
    /\ count \in [Callers -> 0..MaxEvents]
    /\ cl \in [Closers -> {"idle", "close", "wait", "ok", "timeout", "noop"}]
    /\ accepted \subseteq Events
    /\ reported \subseteq Events

\* e was logged before f, if the same caller logged both.
Before(e, f) == e[1] = f[1] => e[2] < f[2]

\* s lists each caller's events in the order the caller logged them, none twice.
Ordered(s) ==
    \A i, j \in 1..Len(s) :
        i < j => Before(s[i], s[j])

\* However callers, writer and closers interleave, the stored rows followed by
\* the batch and the channel are in each caller's order, with no event twice
\* (run, audit.go:92-123: the batch is cleared whatever the write returned, so
\* nothing can be written again after a later event).
PerCallerOrder == Ordered(rows \o Pending)

\* e was logged by a call that is over.
Logged(e) == e[2] < count[e[1]] \/ (e[2] = count[e[1]] /\ pc[e[1]] # "send")

\* No event disappears without a word: one the channel took is stored, still on
\* its way, or its loss was written to the process log; one the channel had no
\* room for was written there too. Only a logger that is being closed turns
\* events away in silence (Log and flush, audit.go:72-107).
NoSilentLoss ==
    alive =>
        /\ accepted \subseteq ToSet(rows) \union ToSet(Pending) \union reported
        /\ ~closed => \A e \in Events : Logged(e) => e \in accepted \union reported

\* When Close reports success nothing it accepted is still in memory: main may
\* close the database pool (Close, audit.go:157-170; main.go:50,85).
CloseMeansSettled ==
    \A p \in Closers :
        cl[p] = "ok" => accepted \subseteq ToSet(rows) \union reported

\* The inductive strengthening of the invariants above, proved in
\* AuditLogger_proofs and checked here on the small instance.

\* Where the writer is says what its batch and its transaction hold.
WriterInv ==
    /\ Len(tx) <= Len(buf)
    /\ \A i \in 1..Len(tx) : tx[i] = buf[i]
    /\ writer = "select" => tx = <<>> /\ Len(buf) < BatchSize /\ ~final
    /\ writer = "begin" => tx = <<>> /\ buf # <<>>
    /\ writer = "exec" => Len(tx) < Len(buf)
    /\ writer = "commit" => Len(tx) = Len(buf) /\ buf # <<>>
    /\ writer = "done" => tx = <<>> /\ buf = <<>> /\ final
    /\ final => ch = <<>> /\ ~open

\* One closer at most is past the swap, and the flag and the channel follow it.
Winner(p) == cl[p] \in {"close", "wait", "ok", "timeout"}

CloserInv ==
    /\ \A p, q \in Closers : Winner(p) /\ Winner(q) => p = q
    /\ \A p \in Closers : Winner(p) => closed
    /\ ~open => closed
    /\ \A p \in Closers : cl[p] = "close" => open
    /\ \A p \in Closers : cl[p] = "ok" => writer = "done"

AllBefore(s, t) ==
    \A i \in 1..Len(s), j \in 1..Len(t) : Before(s[i], t[j])

OrderInv ==
    /\ Ordered(rows) /\ Ordered(buf) /\ Ordered(ch)
    /\ AllBefore(rows, buf) /\ AllBefore(rows, ch) /\ AllBefore(buf, ch)
    /\ \A i \in 1..Len(rows) : Logged(rows[i])
    /\ \A i \in 1..Len(buf) : Logged(buf[i])
    /\ \A i \in 1..Len(ch) : Logged(ch[i])
    /\ \A c \in Callers : pc[c] = "send" => count[c] \in 1..MaxEvents

FateInv ==
    accepted \subseteq ToSet(rows) \union ToSet(buf) \union ToSet(ch)
                         \union reported

HeardInv == ~closed => \A e \in Events : Logged(e) => e \in accepted \union reported

IInv == TypeOK /\ WriterInv /\ CloserInv /\ OrderInv /\ FateInv /\ HeardInv

\* Only one Close ever reaches close(l.ch), and finds the channel open: a
\* second close(l.ch) would panic (audit.go:158-161).
ClosedOnce == \A p \in Closers : cl[p] = "close" => open

\* The table changes only by the whole batch that was collected, at its end
\* (writeBatch, audit.go:125-155: one transaction per batch).
WholeBatches == [][rows' # rows => rows' = rows \o buf]_vars

\* A Close that won the swap returns, unless the process dies first.
CloseTerminates ==
    \A p \in Closers : cl[p] = "close" ~> (cl[p] \in {"ok", "timeout"} \/ ~alive)

\* The logger implements the audit trail it promises.
Trail == INSTANCE AuditTrail WITH
    MaxBatch <- BatchSize,
    up <- alive,
    pending <- IF alive THEN Pending ELSE <<>>,
    table <- rows

ImplementsTrail == Trail!Spec
====
