---- MODULE AuditLogger_proofs ----
(***************************************************************************)
(* Proofs about the audit logger, for every set of callers and closers,    *)
(* every channel capacity, batch size and number of events.                *)
(***************************************************************************)
EXTENDS AuditLogger, SequenceTheorems, TLAPS

\* The initial state satisfies the inductive invariant of AuditLogger.
LEMMA InitInv == Init => IInv
  <1> SUFFICES ASSUME Init PROVE IInv
    OBVIOUS
  <1> USE DEF Init
  <1>1. TypeOK
    <2>1. <<>> \in Seq(Events) /\ Len(<<>>) = 0
      OBVIOUS
    <2>2. pc \in [Callers -> {"idle", "send", "dead"}]
      OBVIOUS
    <2>3. count \in [Callers -> 0..MaxEvents]
      BY CapacityAssumption
    <2>4. cl \in [Closers -> {"idle", "close", "wait", "ok", "timeout", "noop"}]
      OBVIOUS
    <2>5. {alive, closed, open, final} \subseteq BOOLEAN
      OBVIOUS
    <2>6. 0 <= QueueCap /\ 0 <= BatchSize
      BY CapacityAssumption
    <2> QED
      BY <2>1, <2>2, <2>3, <2>4, <2>5, <2>6 DEF TypeOK
  <1>2. WriterInv
    BY CapacityAssumption DEF WriterInv
  <1>3. CloserInv
    BY DEF CloserInv, Winner
  <1>4. OrderInv
    BY DEF OrderInv, Ordered, AllBefore
  <1>5. FateInv
    BY DEF FateInv
  <1>6. HeardInv
    BY DEF HeardInv, Logged, Events
  <1> QED
    BY <1>1, <1>2, <1>3, <1>4, <1>5, <1>6 DEF IInv

----
\* The shape of the state is preserved by every step of the logger
\* (audit.go:72-170): the channel never exceeds its capacity, the batch never
\* exceeds its size.
LEMMA TypeStep == TypeOK /\ WriterInv /\ OrderInv /\ [Next]_vars => TypeOK'
  <1> SUFFICES ASSUME TypeOK, WriterInv, OrderInv, [Next]_vars PROVE TypeOK'
    OBVIOUS
  <1> USE CapacityAssumption, CallersAssumption DEF TypeOK
  <1>1. ASSUME NEW c \in Callers, LogCheck(c) PROVE TypeOK'
    BY <1>1 DEF LogCheck, writerVars, closerVars
  <1>2. ASSUME NEW c \in Callers, LogSend(c) PROVE TypeOK'
    <2>1. Held(c) \in Events
      BY <1>2 DEF LogSend, Held, Events, OrderInv
    <2>2. ch' \in Seq(Events) /\ Len(ch') <= QueueCap
      BY <1>2, <2>1 DEF LogSend
    <2> QED
      BY <1>2, <2>1, <2>2 DEF LogSend, writerVars, closerVars
  <1>3. ASSUME NEW c \in Callers, LogDrop(c) PROVE TypeOK'
    <2>1. Held(c) \in Events
      BY <1>3 DEF LogDrop, Held, Events, OrderInv
    <2> QED
      BY <1>3, <2>1 DEF LogDrop, writerVars, closerVars
  <1>4. ASSUME NEW c \in Callers, LogPanic(c) PROVE TypeOK'
    BY <1>4 DEF LogPanic, writerVars, closerVars
  <1>5. CASE Receive
    <2>1. buf' \in Seq(Events) /\ Len(buf') = Len(buf) + 1
      BY <1>5 DEF Receive
    <2>2. ch' \in Seq(Events) /\ Len(ch') <= QueueCap
      BY <1>5 DEF Receive
    <2>3. writer' \in {"select", "begin"}
      BY <1>5 DEF Receive
    <2> QED
      BY <1>5, <2>1, <2>2, <2>3 DEF Receive, WriterInv, callerVars, closerVars
  <1>6. CASE Tick
    BY <1>6 DEF Tick, callerVars, closerVars
  <1>7. CASE Drained
    BY <1>7 DEF Drained, callerVars, closerVars
  <1>8. CASE Begin
    BY <1>8 DEF Begin, callerVars, closerVars
  <1>9. CASE Exec
    <2>1. tx' \in Seq(Events)
      BY <1>9 DEF Exec, WriterInv
    <2> QED
      BY <1>9, <2>1 DEF Exec, callerVars, closerVars
  <1>10. CASE Commit
    <2>1. rows' \in Seq(Events)
      BY <1>10 DEF Commit
    <2> QED
      BY <1>10, <2>1 DEF Commit, Flushed, callerVars, closerVars
  <1>11. CASE WriteFails
    <2>1. reported' \subseteq Events
      BY <1>11 DEF WriteFails, ToSet
    <2> QED
      BY <1>11, <2>1 DEF WriteFails, Flushed, callerVars, closerVars
  <1>12. CASE CommitUnacknowledged
    <2>1. reported' \subseteq Events
      BY <1>12 DEF CommitUnacknowledged, ToSet
    <2>2. rows' \in Seq(Events)
      BY <1>12 DEF CommitUnacknowledged
    <2> QED
      BY <1>12, <2>1, <2>2
      DEF CommitUnacknowledged, Flushed, callerVars, closerVars
  <1>13. ASSUME NEW p \in Closers, Close(p) PROVE TypeOK'
    BY <1>13 DEF Close, CloseSwap, CloseChannel, CloseReturns, CloseExpires,
                 writerVars, callerVars
  <1>14. CASE Crash
    BY <1>14 DEF Crash, writerVars, callerVars, closerVars
  <1>15. CASE UNCHANGED vars
    BY <1>15 DEF vars
  <1> QED
    BY <1>1, <1>2, <1>3, <1>4, <1>5, <1>6, <1>7, <1>8, <1>9, <1>10, <1>11,
       <1>12, <1>13, <1>14, <1>15
    DEF Next, Log, Run

----
\* Two sequences with the same length and the same elements are the same.
LEMMA SameElements ==
  ASSUME NEW S, NEW s \in Seq(S), NEW t \in Seq(S), Len(s) = Len(t),
         \A i \in 1..Len(s) : s[i] = t[i]
  PROVE  s = t
  BY SeqEqual

\* At the commit the transaction holds exactly the batch (audit.go:131-154).
LEMMA TxIsBatch == TypeOK /\ WriterInv /\ writer = "commit" => tx = buf
  <1> SUFFICES ASSUME TypeOK, WriterInv, writer = "commit" PROVE tx = buf
    OBVIOUS
  <1>1. tx \in Seq(Events) /\ buf \in Seq(Events)
    BY DEF TypeOK
  <1>2. Len(tx) = Len(buf) /\ \A i \in 1..Len(tx) : tx[i] = buf[i]
    BY DEF WriterInv
  <1> QED
    BY <1>1, <1>2, SameElements

\* The writer's position agrees with its batch and transaction after every
\* step (run and writeBatch, audit.go:92-155).
LEMMA WriterStep == TypeOK /\ WriterInv /\ CloserInv /\ [Next]_vars => WriterInv'
  <1> SUFFICES ASSUME TypeOK, WriterInv, CloserInv, [Next]_vars PROVE WriterInv'
    OBVIOUS
  <1> USE CapacityAssumption DEF WriterInv
  <1>1. ASSUME NEW c \in Callers, LogCheck(c) PROVE WriterInv'
    BY <1>1 DEF LogCheck, writerVars, closerVars
  <1>2. ASSUME NEW c \in Callers, LogSend(c) PROVE WriterInv'
    BY <1>2 DEF LogSend, writerVars, closerVars
  <1>3. ASSUME NEW c \in Callers, LogDrop(c) PROVE WriterInv'
    BY <1>3 DEF LogDrop, writerVars, closerVars
  <1>4. ASSUME NEW c \in Callers, LogPanic(c) PROVE WriterInv'
    BY <1>4 DEF LogPanic, writerVars, closerVars
  <1>5. CASE Receive
    <2>1. buf \in Seq(Events) /\ ch \in Seq(Events) /\ Len(buf) \in Nat
      BY DEF TypeOK
    <2>2. Len(buf') = Len(buf) + 1 /\ buf' # <<>>
      BY <1>5, <2>1 DEF Receive
    <2> QED
      BY <1>5, <2>1, <2>2 DEF Receive, callerVars, closerVars
  <1>6. CASE Tick
    BY <1>6 DEF Tick, callerVars, closerVars
  <1>7. CASE Drained
    BY <1>7 DEF Drained, callerVars, closerVars
  <1>8. CASE Begin
    BY <1>8 DEF Begin, callerVars, closerVars, TypeOK
  <1>9. CASE Exec
    <2>1. tx \in Seq(Events) /\ buf \in Seq(Events) /\ Len(tx) < Len(buf)
      BY <1>9 DEF Exec, TypeOK
    <2>2. buf[Len(tx) + 1] \in Events
      BY <2>1
    <2>3. Len(tx') = Len(tx) + 1 /\ Len(tx') <= Len(buf)
      BY <1>9, <2>1, <2>2 DEF Exec
    <2>4. \A i \in 1..Len(tx') : tx'[i] = buf[i]
      BY <1>9, <2>1, <2>2 DEF Exec
    <2> QED
      BY <1>9, <2>1, <2>3, <2>4 DEF Exec, callerVars, closerVars
  <1>10. CASE Commit \/ WriteFails \/ CommitUnacknowledged
    <2>1. final => ch = <<>> /\ ~open
      OBVIOUS
    <2> QED
      BY <1>10, <2>1 DEF Commit, WriteFails, CommitUnacknowledged, Flushed,
                         callerVars, closerVars
  <1>11. ASSUME NEW p \in Closers, Close(p) PROVE WriterInv'
    BY <1>11 DEF Close, CloseSwap, CloseChannel, CloseReturns, CloseExpires,
                 writerVars, callerVars
  <1>12. CASE Crash
    BY <1>12 DEF Crash, writerVars, callerVars, closerVars
  <1>13. CASE UNCHANGED vars
    BY <1>13 DEF vars, writerVars
  <1> QED
    BY <1>1, <1>2, <1>3, <1>4, <1>5, <1>6, <1>7, <1>8, <1>9, <1>10, <1>11,
       <1>12, <1>13
    DEF Next, Log, Run

\* At most one closer is past the swap, and it returns ok only when the writer
\* is gone, after every step (Close, audit.go:157-170).
LEMMA CloserStep == TypeOK /\ CloserInv /\ WriterInv /\ [Next]_vars => CloserInv'
  <1> SUFFICES ASSUME TypeOK, CloserInv, WriterInv, [Next]_vars PROVE CloserInv'
    OBVIOUS
  <1> USE DEF CloserInv, Winner
  <1>1. ASSUME NEW c \in Callers, Log(c) PROVE CloserInv'
    BY <1>1 DEF Log, LogCheck, LogSend, LogDrop, LogPanic, writerVars, closerVars
  <1>2. CASE Run
    <2>1. UNCHANGED closerVars
      BY <1>2 DEF Run, Receive, Tick, Drained, Begin, Exec, Commit, WriteFails,
                  CommitUnacknowledged, Flushed
    <2>2. writer # "done"
      BY <1>2 DEF Run, Receive, Tick, Drained, Begin, Exec, Commit, WriteFails,
                  CommitUnacknowledged
    <2> QED
      BY <2>1, <2>2 DEF closerVars
  <1>3. ASSUME NEW p \in Closers, CloseSwap(p) PROVE CloserInv'
    <2>0. cl \in [Closers -> {"idle", "close", "wait", "ok", "timeout", "noop"}]
      BY DEF TypeOK
    <2>1. UNCHANGED <<open, writer>> /\ closed'
      BY <1>3 DEF CloseSwap, writerVars
    <2>2. CASE closed
      BY <1>3, <2>0, <2>1, <2>2 DEF CloseSwap
    <2>3. CASE ~closed
      <3>1. \A q \in Closers : ~Winner(q)
        BY <2>3
      <3>2. open
        BY <2>3
      <3> QED
        BY <1>3, <2>0, <2>1, <2>3, <3>1, <3>2 DEF CloseSwap
    <2> QED
      BY <2>2, <2>3
  <1>4. ASSUME NEW p \in Closers, CloseChannel(p) PROVE CloserInv'
    BY <1>4 DEF CloseChannel, writerVars, TypeOK
  <1>5. ASSUME NEW p \in Closers, CloseReturns(p) PROVE CloserInv'
    BY <1>5 DEF CloseReturns, writerVars, TypeOK
  <1>6. ASSUME NEW p \in Closers, CloseExpires(p) PROVE CloserInv'
    BY <1>6 DEF CloseExpires, writerVars, TypeOK
  <1>7. CASE Crash
    BY <1>7 DEF Crash, writerVars, callerVars, closerVars
  <1>8. CASE UNCHANGED vars
    BY <1>8 DEF vars
  <1> QED
    BY <1>1, <1>2, <1>3, <1>4, <1>5, <1>6, <1>7, <1>8 DEF Next, Close

----
\* Two ordered sequences, the first wholly before the second, are ordered when
\* put one after the other.
LEMMA OrderedConcat ==
  ASSUME NEW s \in Seq(Events), NEW t \in Seq(Events),
         Ordered(s), Ordered(t), AllBefore(s, t)
  PROVE  Ordered(s \o t)
  <1> DEFINE u == s \o t
  <1>1. Len(u) = Len(s) + Len(t) /\ Len(s) \in Nat /\ Len(t) \in Nat
    BY ConcatProperties, LenProperties
  <1>2. \A i \in 1..Len(u) :
           u[i] = IF i <= Len(s) THEN s[i] ELSE t[i - Len(s)]
    BY <1>1, ConcatProperties
  <1> SUFFICES ASSUME NEW i \in 1..Len(u), NEW j \in 1..Len(u), i < j
               PROVE  Before(u[i], u[j])
    BY DEF Ordered
  <1> HIDE DEF u
  <1>3. CASE j <= Len(s)
    BY <1>1, <1>2, <1>3 DEF Ordered
  <1>4. CASE i > Len(s)
    <2>1. i - Len(s) \in 1..Len(t) /\ j - Len(s) \in 1..Len(t)
          /\ i - Len(s) < j - Len(s)
      BY <1>1, <1>4
    <2>2. u[i] = t[i - Len(s)] /\ u[j] = t[j - Len(s)]
      BY <1>1, <1>2, <1>4
    <2> QED
      BY <2>1, <2>2 DEF Ordered
  <1>5. CASE i <= Len(s) /\ j > Len(s)
    <2>1. i \in 1..Len(s) /\ j - Len(s) \in 1..Len(t)
      BY <1>1, <1>5
    <2>2. u[i] = s[i] /\ u[j] = t[j - Len(s)]
      BY <1>1, <1>2, <1>5
    <2> QED
      BY <2>1, <2>2 DEF AllBefore
  <1> QED
    BY <1>1, <1>3, <1>4, <1>5

\* Elements of a concatenation come from its parts, and all of them do.
LEMMA ConcatElements ==
  ASSUME NEW S, NEW s \in Seq(S), NEW t \in Seq(S)
  PROVE  /\ \A i \in 1..Len(s \o t) :
              \/ \E j \in 1..Len(s) : (s \o t)[i] = s[j]
              \/ \E j \in 1..Len(t) : (s \o t)[i] = t[j]
         /\ ToSet(s \o t) = ToSet(s) \union ToSet(t)
  <1> DEFINE u == s \o t
  <1>1. u \in Seq(S) /\ Len(u) = Len(s) + Len(t) /\ Len(s) \in Nat /\ Len(t) \in Nat
    BY ConcatProperties, LenProperties
  <1>2. \A i \in 1..Len(s) + Len(t) :
           u[i] = IF i <= Len(s) THEN s[i] ELSE t[i - Len(s)]
    BY ConcatProperties
  <1>3. DOMAIN u = 1..Len(u) /\ DOMAIN s = 1..Len(s) /\ DOMAIN t = 1..Len(t)
    BY <1>1, LenProperties
  <1> HIDE DEF u
  <1>4. \A i \in 1..Len(u) :
           \/ i \in 1..Len(s) /\ u[i] = s[i]
           \/ i - Len(s) \in 1..Len(t) /\ u[i] = t[i - Len(s)]
    BY <1>1, <1>2
  <1>5. ToSet(u) \subseteq ToSet(s) \union ToSet(t)
    BY <1>3, <1>4 DEF ToSet
  <1>6. ToSet(s) \subseteq ToSet(u)
    <2>1. \A j \in 1..Len(s) : j \in 1..Len(u) /\ u[j] = s[j]
      BY <1>1, <1>2
    <2> QED
      BY <1>3, <2>1 DEF ToSet
  <1>7. ToSet(t) \subseteq ToSet(u)
    <2>1. ASSUME NEW j \in 1..Len(t)
          PROVE  Len(s) + j \in 1..Len(u) /\ u[Len(s) + j] = t[j]
      <3>1. Len(s) + j \in 1..Len(s) + Len(t) /\ ~(Len(s) + j <= Len(s))
            /\ (Len(s) + j) - Len(s) = j
        BY <1>1
      <3> QED
        BY <1>1, <1>2, <3>1
    <2> QED
      BY <1>3, <2>1 DEF ToSet
  <1>8. \A i \in 1..Len(u) : \/ \E j \in 1..Len(s) : u[i] = s[j]
                             \/ \E j \in 1..Len(t) : u[i] = t[j]
    BY <1>4
  <1>9. ToSet(u) = ToSet(s) \union ToSet(t)
    BY <1>5, <1>6, <1>7
  <1> QED
    BY <1>8, <1>9, Zenon DEF u

\* A call that is over stays over.
LEMMA LoggedStays ==
  TypeOK /\ [Next]_vars => \A e \in Events : Logged(e) => Logged(e)'
  <1> SUFFICES ASSUME TypeOK, [Next]_vars, NEW e \in Events, Logged(e)
               PROVE  Logged(e)'
    OBVIOUS
  <1>0. e[1] \in Callers /\ e[2] \in Nat /\ count[e[1]] \in Nat
    BY CapacityAssumption DEF TypeOK, Events
  <1>1. ASSUME NEW c \in Callers, LogCheck(c) PROVE Logged(e)'
    <2>1. count \in [Callers -> 0..MaxEvents] /\ pc \in [Callers -> {"idle", "send", "dead"}]
      BY DEF TypeOK
    <2>2. CASE e[1] = c
      <3>1. count'[c] = count[c] + 1
        BY <1>1, <2>1 DEF LogCheck
      <3>2. e[2] <= count[c]
        BY <1>0, <2>2 DEF Logged
      <3> QED
        BY <1>0, <2>2, <3>1, <3>2 DEF Logged
    <2>3. CASE e[1] # c
      <3>1. count'[e[1]] = count[e[1]] /\ pc'[e[1]] = pc[e[1]]
        BY <1>0, <1>1, <2>1, <2>3 DEF LogCheck
      <3> QED
        BY <3>1 DEF Logged
    <2> QED
      BY <2>2, <2>3
  <1>2. ASSUME NEW c \in Callers, LogSend(c) \/ LogDrop(c) \/ LogPanic(c)
        PROVE  Logged(e)'
    <2>1. count' = count
      BY <1>2 DEF LogSend, LogDrop, LogPanic
    <2>2. pc[e[1]] # "send" => pc'[e[1]] # "send"
      BY <1>0, <1>2 DEF LogSend, LogDrop, LogPanic, TypeOK
    <2> QED
      BY <2>1, <2>2 DEF Logged
  <1>3. CASE Run \/ Crash \/ (\E p \in Closers : Close(p)) \/ UNCHANGED vars
    <2>1. UNCHANGED callerVars
      BY <1>3 DEF Run, Receive, Tick, Drained, Begin, Exec, Commit, WriteFails,
                  CommitUnacknowledged, Flushed, Crash, Close, CloseSwap,
                  CloseChannel, CloseReturns, CloseExpires, vars, callerVars
    <2> QED
      BY <2>1 DEF callerVars, Logged
  <1> QED
    BY <1>1, <1>2, <1>3 DEF Next, Log

\* Every caller's events stay in the order it logged them, across the table,
\* the batch and the channel (Log and run, audit.go:72-123).
LEMMA OrderStep ==
  TypeOK /\ TypeOK' /\ WriterInv /\ OrderInv /\ [Next]_vars => OrderInv'
  <1> SUFFICES ASSUME TypeOK, TypeOK', WriterInv, OrderInv, [Next]_vars
               PROVE  OrderInv'
    OBVIOUS
  <1>1. /\ rows \in Seq(Events) /\ buf \in Seq(Events) /\ ch \in Seq(Events)
        /\ rows' \in Seq(Events) /\ buf' \in Seq(Events) /\ ch' \in Seq(Events)
    BY DEF TypeOK
  <1> DEFINE L(e) == \/ e[2] < count'[e[1]]
                     \/ e[2] = count'[e[1]] /\ pc'[e[1]] # "send"
  <1>2. \A e \in Events : Logged(e) => L(e)
    BY LoggedStays DEF Logged
  <1>3. /\ \A i \in 1..Len(rows) : rows[i] \in Events /\ Logged(rows[i])
        /\ \A i \in 1..Len(buf) : buf[i] \in Events /\ Logged(buf[i])
        /\ \A i \in 1..Len(ch) : ch[i] \in Events /\ Logged(ch[i])
    BY <1>1, ElementOfSeq DEF OrderInv
  <1>4. /\ \A i \in 1..Len(rows) : L(rows[i])
        /\ \A i \in 1..Len(buf) : L(buf[i])
        /\ \A i \in 1..Len(ch) : L(ch[i])
    BY <1>2, <1>3
  <1> DEFINE Holding == \A c \in Callers :
                           pc'[c] = "send" => count'[c] \in 1..MaxEvents
  <1>5. Holding
    <2>1. ASSUME NEW d \in Callers, LogCheck(d) PROVE Holding
      <3>1. \A c \in Callers \ {d} : pc'[c] = pc[c] /\ count'[c] = count[c]
        BY <2>1 DEF LogCheck, TypeOK
      <3>2. count'[d] \in 1..MaxEvents
        BY <2>1, CapacityAssumption DEF LogCheck, TypeOK
      <3> QED
        BY <3>1, <3>2 DEF OrderInv
    <2>2. ASSUME NEW d \in Callers, LogSend(d) \/ LogDrop(d) \/ LogPanic(d)
          PROVE  Holding
      BY <2>2 DEF LogSend, LogDrop, LogPanic, TypeOK, OrderInv
    <2>3. CASE UNCHANGED callerVars
      BY <2>3 DEF callerVars, OrderInv
    <2> QED
      BY <2>1, <2>2, <2>3
      DEF Next, Log, Run, Receive, Tick, Drained, Begin, Exec, Commit, WriteFails,
          CommitUnacknowledged, Flushed, Crash, Close, CloseSwap, CloseChannel,
          CloseReturns, CloseExpires, vars, callerVars
  <1> HIDE DEF L
  <1>6. CASE UNCHANGED <<rows, buf, ch>>
    BY <1>4, <1>5, <1>6 DEF OrderInv, Ordered, AllBefore, L, Logged
  <1>7. ASSUME NEW c \in Callers, LogSend(c) PROVE OrderInv'
    <2> DEFINE h == Held(c)
    <2>1. rows' = rows /\ buf' = buf /\ ch' = Append(ch, h) /\ h \in Events
      BY <1>7 DEF LogSend, writerVars, Held, Events, OrderInv
    <2>2. Len(ch') = Len(ch) + 1 /\ Len(ch) \in Nat
          /\ \A i \in 1..Len(ch') : ch'[i] = IF i <= Len(ch) THEN ch[i] ELSE h
      BY <1>1, <2>1
    <2>3. L(h)
      BY <1>7 DEF LogSend, L, Held, TypeOK
    <2>4. \A e \in Events : Logged(e) => Before(e, h)
      BY <1>7 DEF LogSend, Logged, Before, Held
    <2> HIDE DEF h
    <2>5. \A i \in 1..Len(ch') : L(ch'[i])
      BY <1>4, <2>2, <2>3
    <2>6. Ordered(ch)'
      <3> SUFFICES ASSUME NEW i \in 1..Len(ch'), NEW j \in 1..Len(ch'), i < j
                   PROVE  Before(ch'[i], ch'[j])
        BY DEF Ordered, Before
      <3>1. i \in 1..Len(ch) /\ ch'[i] = ch[i]
        BY <2>2
      <3>2. CASE j <= Len(ch)
        BY <2>2, <3>1, <3>2 DEF OrderInv, Ordered
      <3>3. CASE j > Len(ch)
        BY <1>3, <2>2, <2>4, <3>1, <3>3
      <3> QED
        BY <2>2, <3>2, <3>3
    <2>7. AllBefore(rows, ch)' /\ AllBefore(buf, ch)'
      BY <1>3, <2>1, <2>2, <2>4 DEF OrderInv, AllBefore, Before
    <2> QED
      BY <1>4, <1>5, <2>1, <2>5, <2>6, <2>7
      DEF OrderInv, Ordered, AllBefore, L, Logged
  <1>8. CASE Receive
    <2>1. /\ rows' = rows /\ ch # <<>>
          /\ ch' = Tail(ch) /\ buf' = Append(buf, Head(ch))
      BY <1>8 DEF Receive
    <2>2. /\ Len(ch) \in Nat \ {0} /\ Len(buf) \in Nat
          /\ Head(ch) = ch[1] /\ 1 \in 1..Len(ch)
      BY <1>1, <2>1
    <2>3. /\ Len(ch') = Len(ch) - 1
          /\ \A i \in 1..Len(ch') : i + 1 \in 1..Len(ch) /\ ch'[i] = ch[i + 1]
      BY <1>1, <2>1, <2>2
    <2>4. /\ Len(buf') = Len(buf) + 1
          /\ \A i \in 1..Len(buf') :
                buf'[i] = IF i <= Len(buf) THEN buf[i] ELSE ch[1]
      BY <1>1, <1>3, <2>1, <2>2
    <2>5. /\ \A i \in 1..Len(ch') : L(ch'[i])
          /\ \A i \in 1..Len(buf') : L(buf'[i])
      BY <1>4, <2>2, <2>3, <2>4
    <2>6. Ordered(ch)'
      <3> SUFFICES ASSUME NEW i \in 1..Len(ch'), NEW j \in 1..Len(ch'), i < j
                   PROVE  Before(ch'[i], ch'[j])
        BY DEF Ordered, Before
      <3>1. i + 1 \in 1..Len(ch) /\ j + 1 \in 1..Len(ch) /\ i + 1 < j + 1
        BY <2>2, <2>3
      <3> QED
        BY <2>3, <3>1 DEF OrderInv, Ordered
    <2>7. Ordered(buf)'
      <3> SUFFICES ASSUME NEW i \in 1..Len(buf'), NEW j \in 1..Len(buf'), i < j
                   PROVE  Before(buf'[i], buf'[j])
        BY DEF Ordered, Before
      <3>1. i \in 1..Len(buf) /\ buf'[i] = buf[i]
        BY <2>2, <2>4
      <3>2. CASE j <= Len(buf)
        BY <2>2, <2>4, <3>1, <3>2 DEF OrderInv, Ordered
      <3>3. CASE j > Len(buf)
        BY <2>2, <2>4, <3>1, <3>3 DEF OrderInv, AllBefore
      <3> QED
        BY <2>2, <2>4, <3>2, <3>3
    <2>8. AllBefore(rows, ch)'
      BY <2>1, <2>3 DEF OrderInv, AllBefore, Before
    <2>9. AllBefore(rows, buf)'
      BY <2>1, <2>2, <2>4 DEF OrderInv, AllBefore, Before
    <2>10. AllBefore(buf, ch)'
      <3> SUFFICES ASSUME NEW i \in 1..Len(buf'), NEW j \in 1..Len(ch')
                   PROVE  Before(buf'[i], ch'[j])
        BY DEF AllBefore, Before
      <3>1. j + 1 \in 1..Len(ch) /\ 1 < j + 1 /\ ch'[j] = ch[j + 1]
        BY <2>2, <2>3
      <3>2. CASE i <= Len(buf)
        BY <2>2, <2>4, <3>1, <3>2 DEF OrderInv, AllBefore
      <3>3. CASE i > Len(buf)
        BY <2>2, <2>4, <3>1, <3>3 DEF OrderInv, Ordered
      <3> QED
        BY <2>2, <2>4, <3>2, <3>3
    <2>11. \A i \in 1..Len(rows') : L(rows'[i])
      BY <1>4, <2>1
    <2>12. Ordered(rows)'
      BY <2>1 DEF OrderInv, Ordered, Before
    <2> QED
      BY <1>5, <2>5, <2>6, <2>7, <2>8, <2>9, <2>10, <2>11, <2>12
      DEF OrderInv, L, Logged
  <1>9. CASE Commit \/ CommitUnacknowledged
    <2>1. rows' = rows \o buf /\ buf' = <<>> /\ ch' = ch
      BY <1>9, TxIsBatch DEF Commit, CommitUnacknowledged, Flushed
    <2>2. Ordered(rows)'
      <3>1. Ordered(rows \o buf)
        BY <1>1, OrderedConcat DEF OrderInv
      <3> QED
        BY <2>1, <3>1 DEF Ordered, Before
    <2>3. \A i \in 1..Len(rows') : \/ \E j \in 1..Len(rows) : rows'[i] = rows[j]
                                   \/ \E j \in 1..Len(buf) : rows'[i] = buf[j]
      BY <1>1, <2>1, ConcatElements
    <2>4. \A i \in 1..Len(rows') : L(rows'[i])
      BY <1>4, <2>3
    <2>5. AllBefore(rows, ch)'
      <3> SUFFICES ASSUME NEW i \in 1..Len(rows'), NEW j \in 1..Len(ch')
                   PROVE  Before(rows'[i], ch'[j])
        BY DEF AllBefore, Before
      <3>1. j \in 1..Len(ch) /\ ch'[j] = ch[j]
        BY <2>1
      <3>2. CASE \E k \in 1..Len(rows) : rows'[i] = rows[k]
        BY <3>1, <3>2 DEF OrderInv, AllBefore
      <3>3. CASE \E k \in 1..Len(buf) : rows'[i] = buf[k]
        BY <3>1, <3>3 DEF OrderInv, AllBefore
      <3> QED
        BY <2>3, <3>2, <3>3
    <2>6. Len(buf') = 0
      BY <2>1
    <2>7. Ordered(buf)' /\ AllBefore(rows, buf)' /\ AllBefore(buf, ch)'
          /\ \A i \in 1..Len(buf') : L(buf'[i])
      BY <2>6 DEF Ordered, AllBefore
    <2>8. Ordered(ch)' /\ \A i \in 1..Len(ch') : L(ch'[i])
      BY <1>4, <2>1 DEF OrderInv, Ordered, Before
    <2> QED
      BY <1>5, <2>2, <2>4, <2>5, <2>7, <2>8 DEF OrderInv, L, Logged
  <1>10. CASE WriteFails
    <2>1. rows' = rows /\ buf' = <<>> /\ ch' = ch
      BY <1>10 DEF WriteFails, Flushed
    <2>2. Len(buf') = 0
      BY <2>1
    <2>3. Ordered(buf)' /\ AllBefore(rows, buf)' /\ AllBefore(buf, ch)'
          /\ \A i \in 1..Len(buf') : L(buf'[i])
      BY <2>2 DEF Ordered, AllBefore
    <2>4. Ordered(rows)' /\ Ordered(ch)' /\ AllBefore(rows, ch)'
      BY <2>1 DEF OrderInv, Ordered, AllBefore, Before
    <2>5. /\ \A i \in 1..Len(ch') : L(ch'[i])
          /\ \A i \in 1..Len(rows') : L(rows'[i])
      BY <1>4, <2>1
    <2> QED
      BY <1>5, <2>3, <2>4, <2>5 DEF OrderInv, L, Logged
  <1> QED
    BY <1>6, <1>7, <1>8, <1>9, <1>10
    DEF Next, Log, Run, LogCheck, LogDrop, LogPanic, Tick, Drained, Begin, Exec,
        Crash, Close, CloseSwap, CloseChannel, CloseReturns, CloseExpires, vars,
        writerVars

\* Every accepted event is stored, in memory or reported after every step
\* (Log, run, flush: audit.go:72-123).
LEMMA FateStep ==
  TypeOK /\ TypeOK' /\ WriterInv /\ FateInv /\ [Next]_vars => FateInv'
  <1> SUFFICES ASSUME TypeOK, TypeOK', WriterInv, FateInv, [Next]_vars
               PROVE  FateInv'
    OBVIOUS
  <1>1. /\ rows \in Seq(Events) /\ buf \in Seq(Events) /\ ch \in Seq(Events)
        /\ rows' \in Seq(Events) /\ buf' \in Seq(Events) /\ ch' \in Seq(Events)
    BY DEF TypeOK
  <1>2. CASE UNCHANGED <<rows, buf, ch, accepted>> /\ reported \subseteq reported'
    BY <1>2 DEF FateInv
  <1>3. ASSUME NEW c \in Callers, LogSend(c) PROVE FateInv'
    <2>1. /\ rows' = rows /\ buf' = buf /\ reported' = reported
          /\ ch' = Append(ch, Held(c)) /\ accepted' = accepted \union {Held(c)}
      BY <1>3 DEF LogSend, writerVars
    <2>2. /\ Len(ch) \in Nat /\ Len(ch') = Len(ch) + 1
          /\ \A i \in 1..Len(ch) : ch'[i] = ch[i]
          /\ ch'[Len(ch) + 1] = Held(c)
      BY <1>1, <2>1
    <2>3. DOMAIN ch = 1..Len(ch) /\ DOMAIN ch' = 1..Len(ch')
      BY <1>1
    <2>4. ToSet(ch) \subseteq ToSet(ch)' /\ Held(c) \in ToSet(ch)'
      BY <2>2, <2>3 DEF ToSet
    <2>5. ToSet(rows)' = ToSet(rows) /\ ToSet(buf)' = ToSet(buf)
      BY <2>1 DEF ToSet
    <2> QED
      BY <2>1, <2>4, <2>5 DEF FateInv
  <1>4. CASE Receive
    <2>1. /\ rows' = rows /\ reported' = reported /\ accepted' = accepted
          /\ ch # <<>> /\ ch' = Tail(ch) /\ buf' = Append(buf, Head(ch))
      BY <1>4 DEF Receive, callerVars
    <2>2. DOMAIN ch = 1..Len(ch) /\ DOMAIN ch' = 1..Len(ch')
          /\ DOMAIN buf = 1..Len(buf) /\ DOMAIN buf' = 1..Len(buf')
      BY <1>1
    <2>3. /\ Len(ch) \in Nat \ {0} /\ Len(buf) \in Nat
          /\ Len(ch') = Len(ch) - 1 /\ Len(buf') = Len(buf) + 1
          /\ \A i \in 1..Len(ch') : ch'[i] = ch[i + 1]
          /\ \A i \in 1..Len(buf) : buf'[i] = buf[i]
          /\ buf'[Len(buf) + 1] = ch[1]
      BY <1>1, <2>1
    <2>4. ToSet(buf) \subseteq ToSet(buf)'
      BY <2>2, <2>3 DEF ToSet
    <2>5. ToSet(ch) \subseteq ToSet(ch)' \union ToSet(buf)'
      <3> SUFFICES ASSUME NEW i \in 1..Len(ch)
                   PROVE  ch[i] \in ToSet(ch)' \union ToSet(buf)'
        BY <2>2 DEF ToSet
      <3>1. CASE i = 1
        BY <2>2, <2>3, <3>1 DEF ToSet
      <3>2. CASE i # 1
        <4>1. i - 1 \in 1..Len(ch') /\ (i - 1) + 1 = i
          BY <2>3, <3>2
        <4>2. ch'[i - 1] = ch[i]
          BY <2>3, <4>1
        <4> QED
          BY <2>2, <4>1, <4>2 DEF ToSet
      <3> QED
        BY <3>1, <3>2
    <2>6. ToSet(rows)' = ToSet(rows)
      BY <2>1 DEF ToSet
    <2> QED
      BY <2>1, <2>4, <2>5, <2>6 DEF FateInv
  <1>5. CASE Commit \/ CommitUnacknowledged
    <2>1. /\ rows' = rows \o buf /\ ch' = ch /\ accepted' = accepted
          /\ reported \subseteq reported'
      BY <1>5, TxIsBatch DEF Commit, CommitUnacknowledged, Flushed, callerVars
    <2>2. ToSet(rows)' = ToSet(rows) \union ToSet(buf)
      <3>1. ToSet(rows \o buf) = ToSet(rows) \union ToSet(buf)
        BY <1>1, ConcatElements
      <3> QED
        BY <2>1, <3>1 DEF ToSet
    <2>3. ToSet(ch)' = ToSet(ch)
      BY <2>1 DEF ToSet
    <2> QED
      BY <2>1, <2>2, <2>3 DEF FateInv
  <1>6. CASE WriteFails
    <2>1. /\ rows' = rows /\ ch' = ch /\ accepted' = accepted
          /\ reported' = reported \union ToSet(buf)
      BY <1>6 DEF WriteFails, Flushed, callerVars
    <2>2. ToSet(rows)' = ToSet(rows) /\ ToSet(ch)' = ToSet(ch)
      BY <2>1 DEF ToSet
    <2> QED
      BY <2>1, <2>2 DEF FateInv
  <1> QED
    BY <1>2, <1>3, <1>4, <1>5, <1>6
    DEF Next, Log, Run, LogCheck, LogDrop, LogPanic, Tick, Drained, Begin, Exec,
        Crash, Close, CloseSwap, CloseChannel, CloseReturns, CloseExpires, vars,
        writerVars, callerVars

\* While the logger is not being closed, every call of Log that is over has left
\* its event in the channel or in the process log (Log, audit.go:72-90).
LEMMA HeardStep ==
  TypeOK /\ CloserInv /\ HeardInv /\ [Next]_vars => HeardInv'
  <1> SUFFICES ASSUME TypeOK, CloserInv, HeardInv, [Next]_vars, ~closed',
                      NEW e \in Events, Logged(e)'
               PROVE  e \in accepted' \union reported'
    BY DEF HeardInv
  <1>0. e[1] \in Callers /\ e[2] \in Nat /\ e = <<e[1], e[2]>> /\ count[e[1]] \in Nat
    BY CapacityAssumption DEF TypeOK, Events
  <1> DEFINE Kept == ~closed /\ accepted \subseteq accepted' /\ reported \subseteq reported'
  <1>1. ASSUME Kept, Logged(e) PROVE e \in accepted' \union reported'
    BY <1>1 DEF HeardInv
  <1>2. ASSUME NEW c \in Callers, LogCheck(c) PROVE Kept /\ Logged(e)
    <2>1. Kept /\ pc[c] = "idle"
      BY <1>2 DEF LogCheck, closerVars
    <2>2. CASE e[1] = c
      <3>1. count'[c] = count[c] + 1 /\ pc'[c] = "send"
        BY <1>2, <2>1 DEF LogCheck, TypeOK
      <3> QED
        BY <1>0, <2>1, <2>2, <3>1 DEF Logged
    <2>3. CASE e[1] # c
      <3>1. count'[e[1]] = count[e[1]] /\ pc'[e[1]] = pc[e[1]]
        BY <1>0, <1>2, <2>3 DEF LogCheck, TypeOK
      <3> QED
        BY <2>1, <3>1 DEF Logged
    <2> QED
      BY <2>2, <2>3
  <1>3. ASSUME NEW c \in Callers, LogSend(c) \/ LogDrop(c)
        PROVE  e \in accepted' \union reported'
    <2>1. Kept /\ count' = count /\ Held(c) \in accepted' \union reported'
      BY <1>3 DEF LogSend, LogDrop, closerVars
    <2>2. CASE Logged(e)
      BY <1>1, <2>1, <2>2
    <2>3. CASE ~Logged(e)
      <3>1. pc'[e[1]] # pc[e[1]]
        BY <2>1, <2>3 DEF Logged
      <3>2. e[1] = c
        BY <1>0, <1>3, <3>1 DEF LogSend, LogDrop, TypeOK
      <3>3. e = Held(c)
        BY <1>0, <2>1, <2>3, <3>2 DEF Logged, Held
      <3> QED
        BY <2>1, <3>3
    <2> QED
      BY <2>2, <2>3
  <1>4. ASSUME NEW c \in Callers, LogPanic(c) PROVE FALSE
    BY <1>4 DEF LogPanic, CloserInv, closerVars
  <1>5. CASE UNCHANGED <<pc, count, accepted>> /\ reported \subseteq reported'
              /\ (closed' \/ closed' = closed)
    <2>1. Kept /\ Logged(e)
      BY <1>5 DEF Logged
    <2> QED
      BY <1>1, <2>1
  <1> QED
    BY <1>1, <1>2, <1>3, <1>4, <1>5
    DEF Next, Log, Run, Receive, Tick, Drained, Begin, Exec, Commit, WriteFails,
        CommitUnacknowledged, Flushed, Crash, Close, CloseSwap, CloseChannel,
        CloseReturns, CloseExpires, vars, callerVars, closerVars

----
\* The inductive invariant holds in every reachable state of the logger.
THEOREM Invariance == SafeSpec => []IInv
  <1>1. IInv /\ [Next]_vars => IInv'
    BY TypeStep, WriterStep, CloserStep, OrderStep, FateStep, HeardStep DEF IInv
  <1> QED
    BY InitInv, <1>1, PTL DEF SafeSpec

\* The channel and the batch stay within their sizes and every variable has
\* its type (audit.go:64,95).
THEOREM TypeCorrect == SafeSpec => []TypeOK
  <1>1. IInv => TypeOK
    BY DEF IInv
  <1> QED
    BY Invariance, <1>1, PTL

\* Each caller's events are stored in the order it logged them, none twice.
THEOREM OrderKept == SafeSpec => []PerCallerOrder
  <1>1. IInv => PerCallerOrder
    <2> SUFFICES ASSUME IInv PROVE Ordered(rows \o (buf \o ch))
      BY DEF PerCallerOrder, Pending
    <2>1. rows \in Seq(Events) /\ buf \in Seq(Events) /\ ch \in Seq(Events)
          /\ (buf \o ch) \in Seq(Events)
      BY ConcatProperties DEF IInv, TypeOK
    <2>2. Ordered(buf \o ch)
      BY <2>1, OrderedConcat DEF IInv, OrderInv
    <2>3. AllBefore(rows, buf \o ch)
      <3> SUFFICES ASSUME NEW i \in 1..Len(rows), NEW j \in 1..Len(buf \o ch)
                   PROVE  Before(rows[i], (buf \o ch)[j])
        BY DEF AllBefore
      <3>1. \/ \E k \in 1..Len(buf) : (buf \o ch)[j] = buf[k]
            \/ \E k \in 1..Len(ch) : (buf \o ch)[j] = ch[k]
        BY <2>1, ConcatElements
      <3>2. CASE \E k \in 1..Len(buf) : (buf \o ch)[j] = buf[k]
        BY <3>2 DEF IInv, OrderInv, AllBefore
      <3>3. CASE \E k \in 1..Len(ch) : (buf \o ch)[j] = ch[k]
        BY <3>3 DEF IInv, OrderInv, AllBefore
      <3> QED
        BY <3>1, <3>2, <3>3
    <2> QED
      BY <2>1, <2>2, <2>3, OrderedConcat DEF IInv, OrderInv
  <1> QED
    BY Invariance, <1>1, PTL

\* No event disappears without a line in the process log, but for those that a
\* logger that is being closed turns away (Log and flush, audit.go:72-107).
THEOREM LossReported == SafeSpec => []NoSilentLoss
  <1>1. IInv => NoSilentLoss
    <2> SUFFICES ASSUME IInv
                 PROVE  accepted \subseteq ToSet(rows) \union ToSet(buf \o ch)
                                            \union reported
      BY DEF NoSilentLoss, Pending, IInv, HeardInv
    <2>1. ToSet(buf \o ch) = ToSet(buf) \union ToSet(ch)
      BY ConcatElements DEF IInv, TypeOK
    <2> QED
      BY <2>1 DEF IInv, FateInv
  <1> QED
    BY Invariance, <1>1, PTL

\* A Close that returns nil after waiting leaves nothing accepted in memory.
THEOREM CloseSettles == SafeSpec => []CloseMeansSettled
  <1>1. IInv => CloseMeansSettled
    <2> SUFFICES ASSUME IInv, NEW p \in Closers, cl[p] = "ok"
                 PROVE  accepted \subseteq ToSet(rows) \union reported
      BY DEF CloseMeansSettled
    <2>1. writer = "done"
      BY DEF IInv, CloserInv
    <2>2. buf = <<>> /\ ch = <<>>
      BY <2>1 DEF IInv, WriterInv
    <2>3. ToSet(<<>>) = {}
      BY DEF ToSet
    <2> QED
      BY <2>2, <2>3 DEF IInv, FateInv
  <1> QED
    BY Invariance, <1>1, PTL

\* The channel is closed at most once.
THEOREM NoDoubleClose == SafeSpec => []ClosedOnce
  <1>1. IInv => ClosedOnce
    BY DEF IInv, CloserInv, ClosedOnce
  <1> QED
    BY Invariance, <1>1, PTL

\* The table grows by whole batches only.
THEOREM BatchesWhole == SafeSpec => WholeBatches
  <1>1. IInv /\ [Next]_vars => [rows' # rows => rows' = rows \o buf]_vars
    <2> SUFFICES ASSUME IInv, [Next]_vars, rows' # rows PROVE rows' = rows \o buf
      OBVIOUS
    <2>1. Commit \/ CommitUnacknowledged
      BY DEF Next, Log, Run, LogCheck, LogSend, LogDrop, LogPanic, Receive, Tick,
             Drained, Begin, Exec, WriteFails, Crash, Close, CloseSwap,
             CloseChannel, CloseReturns, CloseExpires, vars, writerVars
    <2> QED
      BY <2>1, TxIsBatch DEF IInv, Commit, CommitUnacknowledged
  <1> QED
    BY Invariance, <1>1, PTL DEF SafeSpec, WholeBatches

----
\* Moving the first event of the channel to the end of the batch does not
\* change the line they form together.
LEMMA HandOver ==
  ASSUME NEW s \in Seq(Events), NEW t \in Seq(Events), t # <<>>
  PROVE  Append(s, Head(t)) \o Tail(t) = s \o t
  <1> DEFINE a == Append(s, Head(t))
             u == a \o Tail(t)
             w == s \o t
  <1>1. Len(s) \in Nat /\ Len(t) \in Nat \ {0} /\ Head(t) = t[1] /\ t[1] \in Events
    OBVIOUS
  <1>2. /\ Tail(t) \in Seq(Events) /\ Len(Tail(t)) = Len(t) - 1
        /\ \A i \in 1..Len(t) - 1 : Tail(t)[i] = t[i + 1]
    OBVIOUS
  <1>3. /\ a \in Seq(Events) /\ Len(a) = Len(s) + 1
        /\ \A i \in 1..Len(s) + 1 : a[i] = IF i <= Len(s) THEN s[i] ELSE t[1]
    BY <1>1
  <1>4. /\ u \in Seq(Events) /\ Len(u) = Len(a) + Len(Tail(t))
        /\ \A i \in 1..Len(a) + Len(Tail(t)) :
              u[i] = IF i <= Len(a) THEN a[i] ELSE Tail(t)[i - Len(a)]
    BY <1>2, <1>3, ConcatProperties
  <1>5. /\ w \in Seq(Events) /\ Len(w) = Len(s) + Len(t)
        /\ \A i \in 1..Len(s) + Len(t) :
              w[i] = IF i <= Len(s) THEN s[i] ELSE t[i - Len(s)]
    BY ConcatProperties
  <1> HIDE DEF a, u, w
  <1>6. Len(u) = Len(w)
    BY <1>1, <1>2, <1>3, <1>4, <1>5
  <1>7. ASSUME NEW i \in 1..Len(u) PROVE u[i] = w[i]
    <2>0. i \in 1..Len(a) + Len(Tail(t)) /\ i \in 1..Len(s) + Len(t)
      BY <1>1, <1>2, <1>3, <1>4
    <2>1. CASE i <= Len(s)
      <3>1. i <= Len(a) /\ i \in 1..Len(s) + 1
        BY <1>1, <1>3, <2>0, <2>1
      <3>2. u[i] = a[i] /\ a[i] = s[i] /\ w[i] = s[i]
        BY <1>3, <1>4, <1>5, <2>0, <2>1, <3>1
      <3> QED
        BY <3>2
    <2>2. CASE i = Len(s) + 1
      <3>1. i <= Len(a) /\ i \in 1..Len(s) + 1 /\ ~(i <= Len(s)) /\ i - Len(s) = 1
        BY <1>1, <1>3, <2>2
      <3>2. u[i] = a[i] /\ a[i] = t[1] /\ w[i] = t[1]
        BY <1>3, <1>4, <1>5, <2>0, <3>1
      <3> QED
        BY <3>2
    <2>3. CASE i > Len(s) + 1
      <3>1. i - Len(a) \in 1..Len(t) - 1 /\ (i - Len(a)) + 1 = i - Len(s)
        BY <1>1, <1>2, <1>3, <1>4, <2>3
      <3> QED
        BY <1>1, <1>2, <1>3, <1>4, <1>5, <2>3, <3>1
    <2> QED
      BY <1>1, <1>2, <1>3, <1>4, <2>1, <2>2, <2>3
  <1>8. u = w
    BY <1>4, <1>5, <1>6, <1>7, SeqEqual
  <1> QED
    BY <1>8 DEF u, w, a

\* A concatenation splits where its first part ends.
LEMMA Split ==
  ASSUME NEW s \in Seq(Events), NEW t \in Seq(Events)
  PROVE  /\ SubSeq(s \o t, 1, Len(s)) = s
         /\ SubSeq(s \o t, Len(s) + 1, Len(s \o t)) = t
  <1> DEFINE u == s \o t
             b == SubSeq(u, 1, Len(s))
             c == SubSeq(u, Len(s) + 1, Len(u))
  <1>1. /\ Len(s) \in Nat /\ Len(t) \in Nat
        /\ u \in Seq(Events) /\ Len(u) = Len(s) + Len(t)
        /\ \A i \in 1..Len(s) + Len(t) :
              u[i] = IF i <= Len(s) THEN s[i] ELSE t[i - Len(s)]
    BY ConcatProperties, LenProperties
  <1> HIDE DEF u
  <1>2. \A i \in 1..Len(u) : u[i] \in Events
    BY <1>1, ElementOfSeq
  <1>3. /\ b \in Seq(Events) /\ Len(b) = Len(s)
        /\ \A i \in 1..Len(s) : b[i] = u[i]
    BY <1>1, <1>2
  <1>4. /\ c \in Seq(Events) /\ Len(c) = Len(t)
        /\ \A i \in 1..Len(t) : c[i] = u[Len(s) + i]
    BY <1>1, <1>2
  <1> HIDE DEF b, c
  <1>5. b = s
    <2>1. \A i \in 1..Len(b) : b[i] = s[i]
      BY <1>1, <1>3
    <2> QED
      BY <1>3, <2>1, SeqEqual
  <1>6. c = t
    <2>1. ASSUME NEW i \in 1..Len(c) PROVE c[i] = t[i]
      <3>1. Len(s) + i \in 1..Len(s) + Len(t) /\ ~(Len(s) + i <= Len(s))
            /\ (Len(s) + i) - Len(s) = i
        BY <1>1, <1>4
      <3> QED
        BY <1>1, <1>4, <3>1
    <2> QED
      BY <1>4, <2>1, SeqEqual
  <1> QED
    BY <1>5, <1>6 DEF u, b, c

\* Every step of the logger is a step of the audit trail or leaves it as it is.
LEMMA TrailStep == IInv /\ [Next]_vars => [Trail!Next]_(Trail!vars)
  <1> SUFFICES ASSUME IInv, [Next]_vars PROVE [Trail!Next]_(Trail!vars)
    OBVIOUS
  <1> USE DEF Trail!vars, Pending
  <1>1. buf \in Seq(Events) /\ ch \in Seq(Events) /\ rows \in Seq(Events)
        /\ buf \o ch \in Seq(Events)
    BY ConcatProperties DEF IInv, TypeOK
  <1>2. CASE UNCHANGED <<alive, buf, ch, rows>>
    BY <1>2
  <1>3. ASSUME NEW c \in Callers, LogSend(c) PROVE Trail!Next
    <2>1. /\ alive /\ alive' = alive /\ buf' = buf /\ rows' = rows
          /\ ch' = Append(ch, Held(c)) /\ Held(c) \in Events
      BY <1>3 DEF LogSend, writerVars, Held, Events, IInv, OrderInv
    <2>2. buf \o Append(ch, Held(c)) = Append(buf \o ch, Held(c))
      BY <1>1, <2>1
    <2>3. Trail!Accept(Held(c))
      BY <2>1, <2>2 DEF Trail!Accept
    <2> QED
      BY <2>1, <2>3 DEF Trail!Next
  <1>4. CASE Receive
    <2>1. /\ UNCHANGED <<alive, rows>> /\ ch # <<>>
          /\ ch' = Tail(ch) /\ buf' = Append(buf, Head(ch))
      BY <1>4 DEF Receive
    <2>2. buf' \o ch' = buf \o ch
      BY <1>1, <2>1, HandOver
    <2> QED
      BY <2>1, <2>2
  <1>5. ASSUME alive, alive' = alive, buf # <<>>, buf' = <<>>, ch' = ch,
               rows' = rows \/ rows' = rows \o buf
        PROVE  Trail!Next
    <2> DEFINE n == Len(buf)
               line == buf \o ch
    <2>1. n \in Nat \ {0} /\ n <= BatchSize /\ n \in 1..Len(line)
      BY <1>1, <1>5, ConcatProperties, LenProperties DEF IInv, TypeOK
    <2>2. SubSeq(line, 1, n) = buf /\ SubSeq(line, n + 1, Len(line)) = ch
      BY <1>1, Split
    <2>3. buf' \o ch' = ch
      BY <1>1, <1>5, ConcatEmptySeq
    <2> HIDE DEF n, line
    <2>4. (IF alive THEN line ELSE <<>>) = line
          /\ (IF alive' THEN buf' \o ch' ELSE <<>>) = ch
      BY <1>5, <2>3
    <2>5. Trail!Leave(n)
      BY <1>5, <2>1, <2>2, <2>4 DEF Trail!Leave, line
    <2>6. Trail!Store(n) \/ Trail!Lose(n)
      BY <1>5, <2>2, <2>4, <2>5 DEF Trail!Store, Trail!Lose, line
    <2>7. Trail!Settle
      BY <1>5, <2>1, <2>6 DEF Trail!Settle, line
    <2> QED
      BY <2>7 DEF Trail!Next
  <1>6. CASE Commit \/ CommitUnacknowledged \/ WriteFails
    <2>1. /\ alive /\ alive' = alive /\ buf' = <<>> /\ ch' = ch
          /\ rows' = rows \/ rows' = rows \o buf
      BY <1>6, TxIsBatch
      DEF IInv, Commit, CommitUnacknowledged, WriteFails, Flushed
    <2>2. buf # <<>>
      BY <1>1, <1>6 DEF IInv, WriterInv, Commit, CommitUnacknowledged, WriteFails
    <2> QED
      BY <1>5, <2>1, <2>2
  <1>7. ASSUME alive, alive' = FALSE, rows' = rows PROVE Trail!Next
    BY <1>7 DEF Trail!Next, Trail!Die
  <1>8. ASSUME NEW c \in Callers, LogPanic(c)
        PROVE  [Trail!Next]_(Trail!vars)
    <2>1. /\ alive = TRUE /\ alive' = (c \in Recovering) /\ UNCHANGED <<buf, ch, rows>>
      BY <1>8 DEF LogPanic, writerVars, IInv, TypeOK
    <2>2. CASE c \in Recovering
      BY <1>2, <2>1, <2>2
    <2>3. CASE c \notin Recovering
      <3>1. (c \in Recovering) = FALSE
        BY <2>3
      <3>2. alive' = FALSE /\ alive /\ rows' = rows
        BY <2>1, <3>1, Zenon
      <3>3. Trail!Next
        BY <1>7, <3>2
      <3> QED
        BY <3>3
    <2> QED
      BY <2>2, <2>3
  <1>9. CASE Crash
    BY <1>7, <1>9 DEF Crash, writerVars
  <1> QED
    BY <1>2, <1>3, <1>4, <1>6, <1>8, <1>9
    DEF Next, Log, Run, LogCheck, LogDrop, Tick, Drained, Begin, Exec, Close,
        CloseSwap, CloseChannel, CloseReturns, CloseExpires, vars, writerVars

\* The logger refines the audit trail: rows appear a whole batch at a time,
\* oldest first, and only at the end of the table (audit.go:72-170). Safety
\* only: that the line keeps moving is checked by TLC.
THEOREM RefinesTrail == SafeSpec => Trail!SafeSpec
  <1>1. Init => Trail!Init
    <2> SUFFICES ASSUME Init PROVE Trail!Init
      OBVIOUS
    <2>1. <<>> \o <<>> = <<>>
      OBVIOUS
    <2> QED
      BY <2>1 DEF Init, Trail!Init, Pending
  <1> QED
    BY Invariance, <1>1, TrailStep, PTL DEF SafeSpec, Trail!SafeSpec
====
