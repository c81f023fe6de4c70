---- MODULE Lifecycle_proofs ----
(***************************************************************************)
(* Proofs about Lifecycle, for any number of sessions: the audit writer    *)
(* has its pool as long as it runs, whatever it took is settled when run   *)
(* has returned, and after a stop without an error no session begins.      *)
(* SignalEnds is left to TLC.                                              *)
(***************************************************************************)
EXTENDS Lifecycle, TLAPS

Early == {"config", "pool", "migrate", "seed", "audit"}
Served == {"storage", "ftp", "sftp", "admin", "wait"} \union Stopping
              \union {"close_audit", "close_channel", "join_audit"}
Late == {"close_pool", "join_pool", "exited"}

\* The pool is open from OpenPool until it is closed, which run does last.
PoolOpen == stage \in {"migrate", "seed", "audit"} \union Served => pool = "open"

\* The writer runs from NewAudit until JoinAudit has seen it done.
WriterSpan ==
    /\ stage \in Early => writer = "none"
    /\ stage \in Served => writer # "none"
    /\ stage \in Late => writer # "running"
    /\ writer = "running" => pool = "open"

\* Nothing is served, and so nothing logged, before there is a writer.
NothingYet ==
    writer = "none" =>
        /\ \A l \in Listeners : loop[l] = "none"
        /\ \A s \in Sessions : at[s] = "none" /\ event[s] = "none"

\* The writer that is done has emptied the channel, which stays closed.
Emptied == writer = "done" => ~open /\ \A s \in Sessions : event[s] # "queued"

\* The channel closes after every stop, and the process dies of nothing else.
ClosedLate == ~open => stage \in {"join_audit"} \union Late \union {"crashed"}

\* An accept loop that is about to spawn holds a connection of its own.
Held ==
    /\ \A l \in Listeners :
          loop[l] = "spawn" =>
              taken[l] \in Sessions /\ of[taken[l]] = l /\ at[taken[l]] = "taken"
    /\ \A s \in Sessions : at[s] = "none" => of[s] = "admin"
    /\ \A s \in Sessions : at[s] = "taken" => loop[of[s]] = "spawn" /\ taken[of[s]] = s

\* The accept loops a stop has waited for are over.
Joined ==
    /\ stage \in {"stop_ftp", "join_ftp"} => loop["sftp"] \in {"none", "done"}
    /\ code = "ok" =>
          /\ stage \in Unwinding \union Gone
          /\ loop["sftp"] \in {"none", "done"} /\ loop["ftp"] \in {"none", "done"}

\* An accept loop begins once.
Unstarted ==
    /\ stage \in Early \union {"storage", "ftp"} => loop["ftp"] = "none"
    /\ stage \in Early \union {"storage", "ftp", "sftp"} => loop["sftp"] = "none"
    /\ stage \in Starting => loop["admin"] = "none"

IInv ==
    /\ TypeOK /\ PoolOpen /\ WriterSpan /\ NothingYet /\ Emptied /\ ClosedLate
    /\ Held /\ Joined /\ Unstarted

LEMMA InitInv == Init => IInv
<1>1. ASSUME Init PROVE TypeOK
  BY <1>1 DEF Init, TypeOK, Starting, Listeners, Touchpoints
<1>2. ASSUME Init
      PROVE  /\ PoolOpen /\ WriterSpan /\ NothingYet /\ Emptied /\ ClosedLate /\ Held
             /\ Joined /\ Unstarted
  BY <1>2 DEF Init, PoolOpen, WriterSpan, NothingYet, Emptied, ClosedLate, Held, Joined,
              Unstarted, Served, Stopping, Starting, Early, Late, Listeners, Touchpoints
<1> QED BY <1>1, <1>2 DEF IInv

USE DEF Listeners, Touchpoints, Starting, Stopping, Unwinding, Gone, Early, Served, Late

\* The steps of run that lead to the wait for a signal.
LEMMA StartInv ==
    ASSUME IInv, Load \/ OpenPool \/ Migrate \/ Seed \/ NewAudit \/ InitStorage
                 \/ StartTouchpoint("ftp", "sftp") \/ StartTouchpoint("sftp", "admin") \/ StartAdmin
                 \/ StartFails
    PROVE  IInv'
<1> USE DEF IInv, servers, logger, sessions
<1>1. CASE Load
  <2> USE <1>1 DEF Load, Silent
  <2>1. TypeOK'
    BY DEF TypeOK
  <2>2. PoolOpen' /\ WriterSpan' /\ ClosedLate' /\ Emptied'
    BY DEF PoolOpen, WriterSpan, Emptied, ClosedLate, TypeOK
  <2>3. NothingYet' /\ Held'
    BY DEF NothingYet, WriterSpan, Held, Unstarted, TypeOK
  <2>4. Joined' /\ Unstarted'
    BY DEF Joined, Unstarted, TypeOK
  <2> QED BY <2>1, <2>2, <2>3, <2>4
<1>2. CASE OpenPool
  <2> USE <1>2 DEF OpenPool
  <2>1. TypeOK'
    BY DEF TypeOK
  <2>2. PoolOpen' /\ WriterSpan' /\ ClosedLate' /\ Emptied'
    BY DEF PoolOpen, WriterSpan, Emptied, ClosedLate, TypeOK
  <2>3. NothingYet' /\ Held'
    BY DEF NothingYet, WriterSpan, Held, Unstarted, TypeOK
  <2>4. Joined' /\ Unstarted'
    BY DEF Joined, Unstarted, TypeOK
  <2> QED BY <2>1, <2>2, <2>3, <2>4
<1>3. CASE Migrate
  <2> USE <1>3 DEF Migrate, Silent
  <2>1. TypeOK'
    BY DEF TypeOK
  <2>2. PoolOpen' /\ WriterSpan' /\ ClosedLate' /\ Emptied'
    BY DEF PoolOpen, WriterSpan, Emptied, ClosedLate, TypeOK
  <2>3. NothingYet' /\ Held'
    BY DEF NothingYet, WriterSpan, Held, Unstarted, TypeOK
  <2>4. Joined' /\ Unstarted'
    BY DEF Joined, Unstarted, TypeOK
  <2> QED BY <2>1, <2>2, <2>3, <2>4
<1>4. CASE Seed
  <2> USE <1>4 DEF Seed, Silent
  <2>1. TypeOK'
    BY DEF TypeOK
  <2>2. PoolOpen' /\ WriterSpan' /\ ClosedLate' /\ Emptied'
    BY DEF PoolOpen, WriterSpan, Emptied, ClosedLate, TypeOK
  <2>3. NothingYet' /\ Held'
    BY DEF NothingYet, WriterSpan, Held, Unstarted, TypeOK
  <2>4. Joined' /\ Unstarted'
    BY DEF Joined, Unstarted, TypeOK
  <2> QED BY <2>1, <2>2, <2>3, <2>4
<1>5. CASE NewAudit
  <2> USE <1>5 DEF NewAudit
  <2>1. TypeOK'
    BY DEF TypeOK
  <2>2. PoolOpen' /\ WriterSpan' /\ ClosedLate' /\ Emptied'
    BY DEF PoolOpen, WriterSpan, Emptied, ClosedLate, TypeOK
  <2>3. NothingYet' /\ Held'
    BY DEF NothingYet, WriterSpan, Held, Unstarted, TypeOK
  <2>4. Joined' /\ Unstarted'
    BY DEF Joined, Unstarted, TypeOK
  <2> QED BY <2>1, <2>2, <2>3, <2>4
<1>6. CASE InitStorage
  <2> USE <1>6 DEF InitStorage, Silent
  <2>1. TypeOK'
    BY DEF TypeOK
  <2>2. PoolOpen' /\ WriterSpan' /\ ClosedLate' /\ Emptied'
    BY DEF PoolOpen, WriterSpan, Emptied, ClosedLate, TypeOK
  <2>3. NothingYet' /\ Held'
    BY DEF NothingYet, WriterSpan, Held, Unstarted, TypeOK
  <2>4. Joined' /\ Unstarted'
    BY DEF Joined, Unstarted, TypeOK
  <2> QED BY <2>1, <2>2, <2>3, <2>4
<1>7. CASE StartTouchpoint("ftp", "sftp")
  <2> USE <1>7 DEF StartTouchpoint
  <2>1. TypeOK'
    BY DEF TypeOK
  <2>2. PoolOpen' /\ WriterSpan' /\ ClosedLate' /\ Emptied'
    BY DEF PoolOpen, WriterSpan, Emptied, ClosedLate, TypeOK
  <2>3. NothingYet' /\ Held'
    BY DEF NothingYet, WriterSpan, Held, Unstarted, TypeOK
  <2>4. Joined' /\ Unstarted'
    BY DEF Joined, Unstarted, TypeOK
  <2> QED BY <2>1, <2>2, <2>3, <2>4
<1>8. CASE StartTouchpoint("sftp", "admin")
  <2> USE <1>8 DEF StartTouchpoint
  <2>1. TypeOK'
    BY DEF TypeOK
  <2>2. PoolOpen' /\ WriterSpan' /\ ClosedLate' /\ Emptied'
    BY DEF PoolOpen, WriterSpan, Emptied, ClosedLate, TypeOK
  <2>3. NothingYet' /\ Held'
    BY DEF NothingYet, WriterSpan, Held, Unstarted, TypeOK
  <2>4. Joined' /\ Unstarted'
    BY DEF Joined, Unstarted, TypeOK
  <2> QED BY <2>1, <2>2, <2>3, <2>4
<1>9. CASE StartAdmin
  <2> USE <1>9 DEF StartAdmin
  <2>1. TypeOK'
    BY DEF TypeOK
  <2>2. PoolOpen' /\ WriterSpan' /\ ClosedLate' /\ Emptied'
    BY DEF PoolOpen, WriterSpan, Emptied, ClosedLate, TypeOK
  <2>3. NothingYet' /\ Held'
    BY DEF NothingYet, WriterSpan, Held, Unstarted, TypeOK
  <2>4. Joined' /\ Unstarted'
    BY DEF Joined, Unstarted, TypeOK
  <2> QED BY <2>1, <2>2, <2>3, <2>4
<1>10. CASE StartFails
  <2> USE <1>10 DEF StartFails, Return, Unwind
  <2>1. TypeOK'
    BY DEF TypeOK
  <2>2. PoolOpen' /\ WriterSpan' /\ ClosedLate' /\ Emptied'
    BY DEF PoolOpen, WriterSpan, Emptied, ClosedLate, TypeOK
  <2>3. NothingYet' /\ Held'
    BY DEF NothingYet, WriterSpan, Held, Unstarted, TypeOK
  <2>4. Joined' /\ Unstarted'
    BY DEF Joined, Unstarted, TypeOK
  <2> QED BY <2>1, <2>2, <2>3, <2>4
<1> QED
  BY <1>1, <1>2, <1>3, <1>4, <1>5, <1>6, <1>7, <1>8, <1>9, <1>10

\* The steps of run from the signal to the return.
LEMMA StopInv ==
    ASSUME IInv, BeginShutdown \/ Drain \/ CheckAdmin
                 \/ StopTouchpoint("sftp", "stop_sftp", "join_sftp") \/ JoinSftp
                 \/ StopTouchpoint("ftp", "stop_ftp", "join_ftp") \/ JoinFtp
    PROVE  IInv'
<1> USE DEF IInv, servers, logger, sessions
<1>1. CASE BeginShutdown
  <2> USE <1>1 DEF BeginShutdown
  <2>1. TypeOK'
    BY DEF TypeOK
  <2>2. PoolOpen' /\ WriterSpan' /\ ClosedLate' /\ Emptied'
    BY DEF PoolOpen, WriterSpan, Emptied, ClosedLate, TypeOK
  <2>3. NothingYet' /\ Held'
    BY DEF NothingYet, WriterSpan, Held, Unstarted, TypeOK
  <2>4. Joined' /\ Unstarted'
    BY DEF Joined, Unstarted, TypeOK
  <2> QED BY <2>1, <2>2, <2>3, <2>4
<1>2. CASE Drain
  <2> USE <1>2 DEF Drain, Silent
  <2>1. TypeOK'
    BY DEF TypeOK
  <2>2. PoolOpen' /\ WriterSpan' /\ ClosedLate' /\ Emptied'
    BY DEF PoolOpen, WriterSpan, Emptied, ClosedLate, TypeOK
  <2>3. NothingYet' /\ Held'
    BY DEF NothingYet, WriterSpan, Held, Unstarted, TypeOK
  <2>4. Joined' /\ Unstarted'
    BY DEF Joined, Unstarted, TypeOK
  <2> QED BY <2>1, <2>2, <2>3, <2>4
<1>3. CASE CheckAdmin
  <2> USE <1>3 DEF CheckAdmin, Return, Unwind
  <2>1. TypeOK'
    BY DEF TypeOK
  <2>2. PoolOpen' /\ WriterSpan' /\ ClosedLate' /\ Emptied'
    BY DEF PoolOpen, WriterSpan, Emptied, ClosedLate, TypeOK
  <2>3. NothingYet' /\ Held'
    BY DEF NothingYet, WriterSpan, Held, Unstarted, TypeOK
  <2>4. Joined' /\ Unstarted'
    BY DEF Joined, Unstarted, TypeOK
  <2> QED BY <2>1, <2>2, <2>3, <2>4
<1>4. CASE StopTouchpoint("sftp", "stop_sftp", "join_sftp")
  <2> USE <1>4 DEF StopTouchpoint
  <2>1. TypeOK'
    BY DEF TypeOK
  <2>2. PoolOpen' /\ WriterSpan' /\ ClosedLate' /\ Emptied'
    BY DEF PoolOpen, WriterSpan, Emptied, ClosedLate, TypeOK
  <2>3. NothingYet' /\ Held'
    BY DEF NothingYet, WriterSpan, Held, Unstarted, TypeOK
  <2>4. Joined' /\ Unstarted'
    BY DEF Joined, Unstarted, TypeOK
  <2> QED BY <2>1, <2>2, <2>3, <2>4
<1>5. CASE JoinSftp
  <2> USE <1>5 DEF JoinSftp, Joins, Silent
  <2>1. TypeOK'
    BY DEF TypeOK
  <2>2. PoolOpen' /\ WriterSpan' /\ ClosedLate' /\ Emptied'
    BY DEF PoolOpen, WriterSpan, Emptied, ClosedLate, TypeOK
  <2>3. NothingYet' /\ Held'
    BY DEF NothingYet, WriterSpan, Held, Unstarted, TypeOK
  <2>4. Joined' /\ Unstarted'
    BY DEF Joined, Unstarted, TypeOK
  <2> QED BY <2>1, <2>2, <2>3, <2>4
<1>6. CASE StopTouchpoint("ftp", "stop_ftp", "join_ftp")
  <2> USE <1>6 DEF StopTouchpoint
  <2>1. TypeOK'
    BY DEF TypeOK
  <2>2. PoolOpen' /\ WriterSpan' /\ ClosedLate' /\ Emptied'
    BY DEF PoolOpen, WriterSpan, Emptied, ClosedLate, TypeOK
  <2>3. NothingYet' /\ Held'
    BY DEF NothingYet, WriterSpan, Held, Unstarted, TypeOK
  <2>4. Joined' /\ Unstarted'
    BY DEF Joined, Unstarted, TypeOK
  <2> QED BY <2>1, <2>2, <2>3, <2>4
<1>7. CASE JoinFtp
  <2> USE <1>7 DEF JoinFtp, Joins, Return, Unwind
  <2>1. TypeOK'
    BY DEF TypeOK
  <2>2. PoolOpen' /\ WriterSpan' /\ ClosedLate' /\ Emptied'
    BY DEF PoolOpen, WriterSpan, Emptied, ClosedLate, TypeOK
  <2>3. NothingYet' /\ Held'
    BY DEF NothingYet, WriterSpan, Held, Unstarted, TypeOK
  <2>4. Joined' /\ Unstarted'
    BY DEF Joined, Unstarted, TypeOK
  <2> QED BY <2>1, <2>2, <2>3, <2>4
<1> QED
  BY <1>1, <1>2, <1>3, <1>4, <1>5, <1>6, <1>7

\* run's deferred calls.
LEMMA UnwindInv ==
    ASSUME IInv, SetClosed \/ CloseChannel \/ JoinAudit \/ ClosePool \/ JoinPool
    PROVE  IInv'
<1> USE DEF IInv, servers, logger, sessions
<1>1. CASE SetClosed
  <2> USE <1>1 DEF SetClosed
  <2>1. TypeOK'
    BY DEF TypeOK
  <2>2. PoolOpen' /\ WriterSpan' /\ ClosedLate' /\ Emptied'
    BY DEF PoolOpen, WriterSpan, Emptied, ClosedLate, TypeOK
  <2>3. NothingYet' /\ Held'
    BY DEF NothingYet, WriterSpan, Held, Unstarted, TypeOK
  <2>4. Joined' /\ Unstarted'
    BY DEF Joined, Unstarted, TypeOK
  <2> QED BY <2>1, <2>2, <2>3, <2>4
<1>2. CASE CloseChannel
  <2> USE <1>2 DEF CloseChannel
  <2>1. TypeOK'
    BY DEF TypeOK
  <2>2. PoolOpen' /\ WriterSpan' /\ ClosedLate' /\ Emptied'
    BY DEF PoolOpen, WriterSpan, Emptied, ClosedLate, TypeOK
  <2>3. NothingYet' /\ Held'
    BY DEF NothingYet, WriterSpan, Held, Unstarted, TypeOK
  <2>4. Joined' /\ Unstarted'
    BY DEF Joined, Unstarted, TypeOK
  <2> QED BY <2>1, <2>2, <2>3, <2>4
<1>3. CASE JoinAudit
  <2> USE <1>3 DEF JoinAudit, Silent
  <2>1. TypeOK'
    BY DEF TypeOK
  <2>2. PoolOpen' /\ WriterSpan' /\ ClosedLate' /\ Emptied'
    BY DEF PoolOpen, WriterSpan, Emptied, ClosedLate, TypeOK
  <2>3. NothingYet' /\ Held'
    BY DEF NothingYet, WriterSpan, Held, Unstarted, TypeOK
  <2>4. Joined' /\ Unstarted'
    BY DEF Joined, Unstarted, TypeOK
  <2> QED BY <2>1, <2>2, <2>3, <2>4
<1>4. CASE ClosePool
  <2> USE <1>4 DEF ClosePool
  <2>1. TypeOK'
    BY DEF TypeOK
  <2>2. PoolOpen' /\ WriterSpan' /\ ClosedLate' /\ Emptied'
    BY DEF PoolOpen, WriterSpan, Emptied, ClosedLate, TypeOK
  <2>3. NothingYet' /\ Held'
    BY DEF NothingYet, WriterSpan, Held, Unstarted, TypeOK
  <2>4. Joined' /\ Unstarted'
    BY DEF Joined, Unstarted, TypeOK
  <2> QED BY <2>1, <2>2, <2>3, <2>4
<1>5. CASE JoinPool
  <2> USE <1>5 DEF JoinPool
  <2>1. TypeOK'
    BY DEF TypeOK
  <2>2. PoolOpen' /\ WriterSpan' /\ ClosedLate' /\ Emptied'
    BY DEF PoolOpen, WriterSpan, Emptied, ClosedLate, TypeOK
  <2>3. NothingYet' /\ Held'
    BY DEF NothingYet, WriterSpan, Held, Unstarted, TypeOK
  <2>4. Joined' /\ Unstarted'
    BY DEF Joined, Unstarted, TypeOK
  <2> QED BY <2>1, <2>2, <2>3, <2>4
<1> QED
  BY <1>1, <1>2, <1>3, <1>4, <1>5

\* The signal, the admin listener's goroutine, and the end of the writer.
LEMMA OthersInv ==
    ASSUME IInv, Signal \/ AdminListens \/ AdminFails \/ AdminReports \/ WriterEnds
    PROVE  IInv'
<1> USE DEF IInv, servers, logger, sessions
<1>1. CASE Signal
  <2> USE <1>1 DEF Signal, Up
  <2>1. TypeOK'
    BY DEF TypeOK
  <2>2. PoolOpen' /\ WriterSpan' /\ ClosedLate' /\ Emptied'
    BY DEF PoolOpen, WriterSpan, Emptied, ClosedLate, TypeOK
  <2>3. NothingYet' /\ Held'
    BY DEF NothingYet, WriterSpan, Held, Unstarted, TypeOK
  <2>4. Joined' /\ Unstarted'
    BY DEF Joined, Unstarted, TypeOK
  <2> QED BY <2>1, <2>2, <2>3, <2>4
<1>2. CASE AdminListens
  <2> USE <1>2 DEF AdminListens, Up
  <2>1. TypeOK'
    BY DEF TypeOK
  <2>2. PoolOpen' /\ WriterSpan' /\ ClosedLate' /\ Emptied'
    BY DEF PoolOpen, WriterSpan, Emptied, ClosedLate, TypeOK
  <2>3. NothingYet' /\ Held'
    BY DEF NothingYet, WriterSpan, Held, Unstarted, TypeOK
  <2>4. Joined' /\ Unstarted'
    BY DEF Joined, Unstarted, TypeOK
  <2> QED BY <2>1, <2>2, <2>3, <2>4
<1>3. CASE AdminFails
  <2> USE <1>3 DEF AdminFails, Up
  <2>1. TypeOK'
    BY DEF TypeOK
  <2>2. PoolOpen' /\ WriterSpan' /\ ClosedLate' /\ Emptied'
    BY DEF PoolOpen, WriterSpan, Emptied, ClosedLate, TypeOK
  <2>3. NothingYet' /\ Held'
    BY DEF NothingYet, WriterSpan, Held, Unstarted, TypeOK
  <2>4. Joined' /\ Unstarted'
    BY DEF Joined, Unstarted, TypeOK
  <2> QED BY <2>1, <2>2, <2>3, <2>4
<1>4. CASE AdminReports
  <2> USE <1>4 DEF AdminReports, Up
  <2>1. TypeOK'
    BY DEF TypeOK
  <2>2. PoolOpen' /\ WriterSpan' /\ ClosedLate' /\ Emptied'
    BY DEF PoolOpen, WriterSpan, Emptied, ClosedLate, TypeOK
  <2>3. NothingYet' /\ Held'
    BY DEF NothingYet, WriterSpan, Held, Unstarted, TypeOK
  <2>4. Joined' /\ Unstarted'
    BY DEF Joined, Unstarted, TypeOK
  <2> QED BY <2>1, <2>2, <2>3, <2>4
<1>5. CASE WriterEnds
  <2> USE <1>5 DEF WriterEnds, Up
  <2>1. TypeOK'
    BY DEF TypeOK
  <2>2. PoolOpen' /\ WriterSpan' /\ ClosedLate' /\ Emptied'
    BY DEF PoolOpen, WriterSpan, Emptied, ClosedLate, TypeOK
  <2>3. NothingYet' /\ Held'
    BY DEF NothingYet, WriterSpan, Held, Unstarted, TypeOK
  <2>4. Joined' /\ Unstarted'
    BY DEF Joined, Unstarted, TypeOK
  <2> QED BY <2>1, <2>2, <2>3, <2>4
<1> QED
  BY <1>1, <1>2, <1>3, <1>4, <1>5

\* The accept loops.
LEMMA LoopInv ==
    ASSUME IInv, NEW l \in Listeners, Spawn(l) \/ LoopOver(l)
    PROVE  IInv'
<1> USE DEF IInv, servers, logger, sessions
<1>1. CASE Spawn(l)
  <2> USE <1>1 DEF Spawn, Up
  <2>0. taken[l] \in Sessions /\ of[taken[l]] = l /\ at[taken[l]] = "taken"
    BY DEF Held
  <2>1. TypeOK'
    <3>1. at' \in [Sessions -> {"none", "taken", "live", "busy", "over"}]
      BY <2>0 DEF TypeOK
    <3>2. loop' \in [Listeners -> {"none", "begun", "accept", "spawn", "done"}]
      BY DEF TypeOK
    <3>3. taken' \in [Listeners -> Sessions \union {Nobody}]
      BY DEF TypeOK
    <3> QED BY <3>1, <3>2, <3>3 DEF TypeOK
  <2>2. PoolOpen' /\ WriterSpan' /\ ClosedLate' /\ Emptied'
    BY DEF PoolOpen, WriterSpan, Emptied, ClosedLate, TypeOK
  <2>5. NothingYet'
    BY <2>0 DEF NothingYet, TypeOK
  <2>6. ASSUME NEW k \in Listeners, loop'[k] = "spawn"
        PROVE  taken'[k] \in Sessions /\ of'[taken'[k]] = k /\ at'[taken'[k]] = "taken"
    BY <2>0, <2>6 DEF Held, TypeOK
  <2>7. ASSUME NEW z \in Sessions
        PROVE  /\ at'[z] = "none" => of'[z] = "admin"
               /\ at'[z] = "taken" => loop'[of'[z]] = "spawn" /\ taken'[of'[z]] = z
    BY <2>0, <2>7 DEF Held, TypeOK
  <2>3. NothingYet' /\ Held'
    BY <2>5, <2>6, <2>7 DEF Held
  <2>4. Joined' /\ Unstarted'
    BY DEF Joined, Unstarted, TypeOK
  <2> QED BY <2>1, <2>2, <2>3, <2>4
<1>2. CASE LoopOver(l)
  <2> USE <1>2 DEF LoopOver, Up
  <2>1. TypeOK'
    BY DEF TypeOK
  <2>2. PoolOpen' /\ WriterSpan' /\ ClosedLate' /\ Emptied'
    BY DEF PoolOpen, WriterSpan, Emptied, ClosedLate, TypeOK
  <2>3. NothingYet' /\ Held'
    BY DEF NothingYet, WriterSpan, Held, Unstarted, TypeOK
  <2>4. Joined' /\ Unstarted'
    BY DEF Joined, Unstarted, TypeOK
  <2> QED BY <2>1, <2>2, <2>3, <2>4
<1> QED
  BY <1>1, <1>2

\* Sessions, from their connection to the writing of their event.
LEMMA SessionInv ==
    ASSUME IInv, NEW s \in Sessions, NEW l \in Listeners,
           Accept(l, s) \/ Session(s) \/ Write(s)
    PROVE  IInv'
<1> USE DEF IInv, servers, logger, sessions
<1>1. CASE Accept(l, s)
  <2> USE <1>1 DEF Accept, Up
  <2>1. TypeOK'
    BY DEF TypeOK
  <2>2. PoolOpen' /\ WriterSpan' /\ ClosedLate' /\ Emptied'
    BY DEF PoolOpen, WriterSpan, Emptied, ClosedLate, TypeOK
  <2>3. NothingYet' /\ Held'
    BY DEF NothingYet, WriterSpan, Held, Unstarted, TypeOK
  <2>4. Joined' /\ Unstarted'
    BY DEF Joined, Unstarted, TypeOK
  <2> QED BY <2>1, <2>2, <2>3, <2>4
<1>2. CASE Query(s)
  <2> USE <1>2 DEF Query, Up
  <2>1. TypeOK'
    BY DEF TypeOK
  <2>2. PoolOpen' /\ WriterSpan' /\ ClosedLate' /\ Emptied'
    BY DEF PoolOpen, WriterSpan, Emptied, ClosedLate, TypeOK
  <2>3. NothingYet' /\ Held'
    BY DEF NothingYet, WriterSpan, Held, Unstarted, TypeOK
  <2>4. Joined' /\ Unstarted'
    BY DEF Joined, Unstarted, TypeOK
  <2> QED BY <2>1, <2>2, <2>3, <2>4
<1>3. CASE QueryEnds(s)
  <2> USE <1>3 DEF QueryEnds, Up
  <2>1. TypeOK'
    BY DEF TypeOK
  <2>2. PoolOpen' /\ WriterSpan' /\ ClosedLate' /\ Emptied'
    BY DEF PoolOpen, WriterSpan, Emptied, ClosedLate, TypeOK
  <2>3. NothingYet' /\ Held'
    BY DEF NothingYet, WriterSpan, Held, Unstarted, TypeOK
  <2>4. Joined' /\ Unstarted'
    BY DEF Joined, Unstarted, TypeOK
  <2> QED BY <2>1, <2>2, <2>3, <2>4
<1>4. CASE SessionEnds(s)
  <2> USE <1>4 DEF SessionEnds, Up
  <2>1. TypeOK'
    BY DEF TypeOK
  <2>2. PoolOpen' /\ WriterSpan' /\ ClosedLate' /\ Emptied'
    BY DEF PoolOpen, WriterSpan, Emptied, ClosedLate, TypeOK
  <2>3. NothingYet' /\ Held'
    BY DEF NothingYet, WriterSpan, Held, Unstarted, TypeOK
  <2>4. Joined' /\ Unstarted'
    BY DEF Joined, Unstarted, TypeOK
  <2> QED BY <2>1, <2>2, <2>3, <2>4
<1>5. CASE LogCheck(s)
  <2> USE <1>5 DEF LogCheck, Becomes, Up
  <2>1. TypeOK'
    BY DEF TypeOK
  <2>2. PoolOpen' /\ WriterSpan' /\ ClosedLate' /\ Emptied'
    BY DEF PoolOpen, WriterSpan, Emptied, ClosedLate, TypeOK
  <2>3. NothingYet' /\ Held'
    BY DEF NothingYet, WriterSpan, Held, Unstarted, TypeOK
  <2>4. Joined' /\ Unstarted'
    BY DEF Joined, Unstarted, TypeOK
  <2> QED BY <2>1, <2>2, <2>3, <2>4
<1>6. CASE LogSend(s)
  <2> USE <1>6 DEF LogSend, Becomes, Up
  <2>1. TypeOK'
    BY DEF TypeOK
  <2>2. PoolOpen' /\ WriterSpan' /\ ClosedLate' /\ Emptied'
    BY DEF PoolOpen, WriterSpan, Emptied, ClosedLate, TypeOK
  <2>3. NothingYet' /\ Held'
    BY DEF NothingYet, WriterSpan, Held, Unstarted, TypeOK
  <2>4. Joined' /\ Unstarted'
    BY DEF Joined, Unstarted, TypeOK
  <2> QED BY <2>1, <2>2, <2>3, <2>4
<1>7. CASE LogPanic(s)
  <2> USE <1>7 DEF LogPanic, Becomes, Up
  <2>1. TypeOK'
    BY DEF TypeOK
  <2>2. PoolOpen' /\ WriterSpan' /\ ClosedLate' /\ Emptied'
    BY DEF PoolOpen, WriterSpan, Emptied, ClosedLate, TypeOK
  <2>3. NothingYet' /\ Held'
    BY DEF NothingYet, WriterSpan, Held, Unstarted, TypeOK
  <2>4. Joined' /\ Unstarted'
    BY DEF Joined, Unstarted, TypeOK
  <2> QED BY <2>1, <2>2, <2>3, <2>4
<1>8. CASE Write(s)
  <2> USE <1>8 DEF Write, Becomes, Up
  <2>1. TypeOK'
    BY DEF TypeOK
  <2>2. PoolOpen' /\ WriterSpan' /\ ClosedLate' /\ Emptied'
    BY DEF PoolOpen, WriterSpan, Emptied, ClosedLate, TypeOK
  <2>3. NothingYet' /\ Held'
    BY DEF NothingYet, WriterSpan, Held, Unstarted, TypeOK
  <2>4. Joined' /\ Unstarted'
    BY DEF Joined, Unstarted, TypeOK
  <2> QED BY <2>1, <2>2, <2>3, <2>4
<1> QED
  BY <1>1, <1>2, <1>3, <1>4, <1>5, <1>6, <1>7, <1>8 DEF Session

LEMMA StutterInv ==
    ASSUME IInv, UNCHANGED vars
    PROVE  IInv'
<1> USE DEF IInv, vars
<1>1. TypeOK'
  BY DEF TypeOK
<1>2. PoolOpen' /\ WriterSpan' /\ ClosedLate' /\ Emptied' /\ Joined' /\ Unstarted'
  BY DEF PoolOpen, WriterSpan, ClosedLate, Emptied, Joined, Unstarted
<1>3. NothingYet' /\ Held'
  BY DEF NothingYet, Held
<1> QED BY <1>1, <1>2, <1>3

LEMMA NextInv == IInv /\ [Next]_vars => IInv'
<1> SUFFICES ASSUME IInv, [Next]_vars PROVE IInv'
  OBVIOUS
<1>1. CASE Run
  BY <1>1, StartInv, StopInv, UnwindInv DEF Run
<1>2. CASE Signal \/ AdminListens \/ AdminFails \/ AdminReports \/ WriterEnds
  BY <1>2, OthersInv
<1>3. CASE \E l \in Listeners : Spawn(l) \/ LoopEnds(l)
  BY <1>3, LoopInv DEF LoopEnds
<1>4. CASE \E t \in Touchpoints : LoopBreaks(t)
  BY <1>4, LoopInv DEF LoopBreaks
<1>5. CASE \E l \in Listeners, s \in Sessions : Accept(l, s)
  BY <1>5, SessionInv
<1>6. CASE \E s \in Sessions : Session(s) \/ Write(s)
  BY <1>6, SessionInv
<1>7. CASE UNCHANGED vars
  BY <1>7, StutterInv
<1> QED BY <1>1, <1>2, <1>3, <1>4, <1>5, <1>6, <1>7 DEF Next, Writer

\* The inductive invariant holds of every reachable state.
THEOREM Invariance == Spec => []IInv
<1>1. Init => IInv
  BY InitInv
<1>2. IInv /\ [Next]_vars => IInv'
  BY NextInv
<1> QED BY <1>1, <1>2, PTL DEF Spec

\* Every variable keeps its type.
THEOREM TypeCorrect == Spec => []TypeOK
<1>1. IInv => TypeOK
  BY DEF IInv
<1> QED BY <1>1, Invariance, PTL

\* The audit writer never outlives its pool: run's deferred calls are in the
\* right order, whichever return they follow.
THEOREM PoolOutlives == Spec => []WriterHasPool
<1>1. IInv => WriterHasPool
  BY DEF IInv, WriterSpan, WriterHasPool
<1> QED BY <1>1, Invariance, PTL

\* run never returns before the logger has settled what it took.
THEOREM ExitSettled == Spec => []SettledAtExit
<1>1. IInv => SettledAtExit
  BY DEF IInv, TypeOK, WriterSpan, Emptied, NothingYet, SettledAtExit
<1> QED BY <1>1, Invariance, PTL

LEMMA OkStep ==
    ASSUME IInv, [Next]_vars, code = "ok", NEW s \in Sessions, of[s] \in Touchpoints,
           at[s] \in {"none", "taken"}
    PROVE  at'[s] = at[s]
<1> USE DEF IInv, servers, logger, sessions
<1>1. loop[of[s]] \in {"none", "done"}
  BY DEF Joined
<1> QED BY <1>1 DEF Held

\* After a stop without an error neither the FTP nor the SFTP server lets a
\* session begin: Stop has waited for the accept loop.
THEOREM NothingLate == Spec => NoLateSession
<1>1. IInv /\ [Next]_vars =>
         [code = "ok" => \A s \in Sessions :
            of[s] \in Touchpoints => (at[s] \in {"none", "taken"} => at'[s] = at[s])]_vars
  BY OkStep
<1> QED BY <1>1, Invariance, PTL DEF Spec, NoLateSession


====
