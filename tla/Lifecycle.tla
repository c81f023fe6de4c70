---- MODULE Lifecycle ----
(***************************************************************************)
(* cmd/ftp-server/main.go: run, from the configuration to the exit, with   *)
(* what it starts and stops: the database pool, the audit logger's writer, *)
(* the accept loops of the FTP and SFTP servers (ftpserver/server.go and   *)
(* sftpserver/server.go: Start, Stop), and the admin listener.  A session  *)
(* is a connection of one of the three: it uses the pool now and then, and *)
(* logs one event.                                                         *)
(* run's deferred calls come in the order Unwind gives.  Neither FTP nor   *)
(* SFTP sessions are waited for; net/http recovers the panic of a handler. *)
(* AuditLogger has the detail of the logger, AuditTrail its promise.       *)
(***************************************************************************)
EXTENDS FiniteSets

CONSTANT Sessions   \* connections, each good for one session and one event

Touchpoints == {"ftp", "sftp"}
Listeners == Touchpoints \union {"admin"}
Nobody == "nobody"

ASSUME SessionsAssumption == Sessions \intersect {Nobody} = {}

VARIABLES
    stage,      \* what run does next
    enabled,    \* FTP_ENABLED, SFTP_ENABLED
    signalled,  \* SIGINT or SIGTERM has arrived
    code,       \* how run returns: none yet, ok, err
    pool,       \* none, open, closing, closed
    listener,   \* per listener: none, open, closed
    loop,       \* its goroutine: none, begun (not yet listening; admin), accept,
                \* spawn, done
    taken,      \* the connection an accept loop in "spawn" holds
    adminErr,   \* adminErrCh: none, due (the goroutine is about to send), sent
    closed,     \* Logger.closed
    open,       \* the logger's channel is open
    writer,     \* the logger's goroutine: none, running, done
    at,         \* per session: none, taken, live, busy (holds a pool connection), over
    of,         \* the listener it came in by
    event       \* its event: none, held (between the flag and the channel),
                \* queued, gone (written, or lost)

vars == <<stage, enabled, signalled, code, pool, listener, loop, taken, adminErr,
          closed, open, writer, at, of, event>>
logger == <<closed, open, writer>>
sessions == <<at, of, event>>
servers == <<listener, loop, taken>>

Starting == {"config", "pool", "migrate", "seed", "audit", "storage", "ftp", "sftp", "admin"}
Stopping == {"shutdown", "drain", "check", "stop_sftp", "join_sftp", "stop_ftp", "join_ftp"}
Unwinding == {"close_audit", "close_channel", "join_audit", "close_pool", "join_pool"}
Gone == {"exited", "crashed"}

Up == stage \notin Gone

Init ==
    /\ stage = "config"
    /\ enabled \in SUBSET Touchpoints
    /\ signalled = FALSE
    /\ code = "none"
    /\ pool = "none"
    /\ listener = [l \in Listeners |-> "none"]
    /\ loop = [l \in Listeners |-> "none"]
    /\ taken = [l \in Listeners |-> Nobody]
    /\ adminErr = "none"
    /\ closed = FALSE
    /\ open = TRUE
    /\ writer = "none"
    /\ at = [s \in Sessions |-> "none"]
    /\ of = [s \in Sessions |-> "admin"]
    /\ event = [s \in Sessions |-> "none"]

----
\* run, starting

\* Fault: the deferred calls the other way round.
UnwindPoolFirst ==
    IF pool = "open" THEN "close_pool" ELSE IF writer # "none" THEN "close_audit" ELSE "exited"

\* Where a return leads: through the calls deferred so far, the last one first.
Unwind ==
    IF writer # "none" THEN "close_audit" ELSE IF pool = "open" THEN "close_pool" ELSE "exited"

Return(how) ==
    /\ code' = how
    /\ stage' = Unwind

\* A step that has nothing to show here: its outcome only matters if it fails.
Silent(step, then) ==
    /\ stage = step
    /\ stage' = then
    /\ UNCHANGED <<enabled, signalled, code, pool, servers, adminErr, logger, sessions>>

Load == Silent("config", "pool")
Migrate == Silent("migrate", "seed")
Seed == Silent("seed", "audit")
InitStorage == Silent("storage", "ftp")

OpenPool ==
    /\ stage = "pool"
    /\ pool' = "open"
    /\ stage' = "migrate"
    /\ UNCHANGED <<enabled, signalled, code, servers, adminErr, logger, sessions>>

\* audit.New: the writer runs.
NewAudit ==
    /\ stage = "audit"
    /\ writer' = "running"
    /\ stage' = "storage"
    /\ UNCHANGED <<enabled, signalled, code, pool, servers, adminErr, closed, open, sessions>>

\* Listen succeeds and the accept loop begins, unless the touchpoint is off.
StartTouchpoint(t, then) ==
    /\ stage = t
    /\ IF t \in enabled
       THEN /\ listener' = [listener EXCEPT ![t] = "open"]
            /\ loop' = [loop EXCEPT ![t] = "accept"]
       ELSE UNCHANGED <<listener, loop>>
    /\ stage' = then
    /\ UNCHANGED <<enabled, signalled, code, pool, taken, adminErr, logger, sessions>>

\* The admin listener's goroutine: it listens later, or never.
StartAdmin ==
    /\ stage = "admin"
    /\ loop' = [loop EXCEPT !["admin"] = "begun"]
    /\ stage' = "wait"
    /\ UNCHANGED <<enabled, signalled, code, pool, listener, taken, adminErr, logger, sessions>>

\* Any of the steps fails, a signal that cancels its ctx being one reason; the
\* goroutine of the admin listener cannot.
StartFails ==
    /\ stage \in Starting \ {"audit", "admin"}
    /\ stage \in Touchpoints => stage \in enabled
    /\ Return("err")
    /\ UNCHANGED <<enabled, signalled, pool, servers, adminErr, logger, sessions>>

----
\* run, stopping

\* ctx.Done(), then Shutdown closes the admin listener
BeginShutdown ==
    /\ stage = "wait"
    /\ signalled
    /\ listener' = [listener EXCEPT !["admin"] = "closed"]
    /\ stage' = "drain"
    /\ UNCHANGED <<enabled, signalled, code, pool, loop, taken, adminErr, logger, sessions>>

Active(l) == {s \in Sessions : at[s] \in {"live", "busy"} /\ of[s] = l}

\* Fault: Shutdown has no deadline.
DrainForEver ==
    /\ Active("admin") = {}
    /\ Silent("drain", "check")

\* and waits for the handlers, at most five seconds.
Drain == Silent("drain", "check")

\* An error of the admin listener is returned, and nothing else is stopped.
CheckAdmin ==
    /\ stage = "check"
    /\ IF adminErr = "sent" THEN Return("err") ELSE stage' = "stop_sftp" /\ UNCHANGED code
    /\ UNCHANGED <<enabled, signalled, pool, servers, adminErr, logger, sessions>>

\* Stop: the listener, if there is one, is closed,
StopTouchpoint(t, step, then) ==
    /\ stage = step
    /\ listener' = [listener EXCEPT ![t] = IF @ = "open" THEN "closed" ELSE @]
    /\ stage' = then
    /\ UNCHANGED <<enabled, signalled, code, pool, loop, taken, adminErr, logger, sessions>>

\* Fault: the accept loop is not waited for.
JoinsAnyway(t) == TRUE

\* and the accept loop waited for.
Joins(t) == loop[t] \in {"none", "done"}

JoinSftp ==
    /\ Joins("sftp")
    /\ Silent("join_sftp", "stop_ftp")

\* run returns what the FTP server's Stop says.
JoinFtp ==
    /\ stage = "join_ftp"
    /\ Joins("ftp")
    /\ \E how \in {"ok", "err"} : Return(how)
    /\ UNCHANGED <<enabled, signalled, pool, servers, adminErr, logger, sessions>>

----
\* run's deferred calls: Close of the logger, then of the pool

SetClosed ==
    /\ stage = "close_audit"
    /\ closed' = TRUE
    /\ stage' = "close_channel"
    /\ UNCHANGED <<enabled, signalled, code, pool, servers, adminErr, open, writer, sessions>>

CloseChannel ==
    /\ stage = "close_channel"
    /\ open' = FALSE
    /\ stage' = "join_audit"
    /\ UNCHANGED <<enabled, signalled, code, pool, servers, adminErr, closed, writer, sessions>>

\* Fault: Close is called with a context that expires.
JoinAuditOrNot == Silent("join_audit", "close_pool")

\* context.Background() never expires.
JoinAudit ==
    /\ writer = "done"
    /\ Silent("join_audit", "close_pool")

ClosePool ==
    /\ stage = "close_pool"
    /\ pool' = "closing"
    /\ stage' = "join_pool"
    /\ UNCHANGED <<enabled, signalled, code, servers, adminErr, logger, sessions>>

\* pgxpool waits for every connection in use.
JoinPool ==
    /\ stage = "join_pool"
    /\ \A s \in Sessions : at[s] # "busy"
    /\ pool' = "closed"
    /\ stage' = "exited"
    /\ UNCHANGED <<enabled, signalled, code, servers, adminErr, logger, sessions>>

Run ==
    \/ Load \/ OpenPool \/ Migrate \/ Seed \/ NewAudit \/ InitStorage
    \/ StartTouchpoint("ftp", "sftp") \/ StartTouchpoint("sftp", "admin") \/ StartAdmin
    \/ StartFails
    \/ BeginShutdown \/ Drain \/ CheckAdmin
    \/ StopTouchpoint("sftp", "stop_sftp", "join_sftp") \/ JoinSftp
    \/ StopTouchpoint("ftp", "stop_ftp", "join_ftp") \/ JoinFtp
    \/ SetClosed \/ CloseChannel \/ JoinAudit \/ ClosePool \/ JoinPool

Signal ==
    /\ Up
    /\ ~signalled
    /\ signalled' = TRUE
    /\ UNCHANGED <<stage, enabled, code, pool, servers, adminErr, logger, sessions>>

----
\* The accept loops

\* The goroutine of the admin listener gets to listen ...
AdminListens ==
    /\ Up
    /\ loop["admin"] = "begun" /\ listener["admin"] = "none"
    /\ listener' = [listener EXCEPT !["admin"] = "open"]
    /\ loop' = [loop EXCEPT !["admin"] = "accept"]
    /\ UNCHANGED <<stage, enabled, signalled, code, pool, taken, adminErr, logger, sessions>>

\* ... or fails to, or fails later, and sends the error.
AdminFails ==
    /\ Up
    /\ \/ loop["admin"] = "begun" /\ listener["admin"] = "none"
       \/ loop["admin"] = "accept" /\ listener["admin"] = "open"
    /\ adminErr' = "due"
    /\ listener' = [listener EXCEPT !["admin"] = "closed"]
    /\ loop' = [loop EXCEPT !["admin"] = "done"]
    /\ UNCHANGED <<stage, enabled, signalled, code, pool, taken, logger, sessions>>

AdminReports ==
    /\ Up
    /\ adminErr = "due"
    /\ adminErr' = "sent"
    /\ UNCHANGED <<stage, enabled, signalled, code, pool, servers, logger, sessions>>

Accept(l, s) ==
    /\ Up
    /\ loop[l] = "accept"
    /\ listener[l] = "open"
    /\ at[s] = "none"
    /\ at' = [at EXCEPT ![s] = "taken"]
    /\ of' = [of EXCEPT ![s] = l]
    /\ taken' = [taken EXCEPT ![l] = s]
    /\ loop' = [loop EXCEPT ![l] = "spawn"]
    /\ UNCHANGED <<stage, enabled, signalled, code, pool, listener, adminErr, logger, event>>

\* The goroutine of the connection begins.
Spawn(l) ==
    /\ Up
    /\ loop[l] = "spawn"
    /\ at' = [at EXCEPT ![taken[l]] = "live"]
    /\ taken' = [taken EXCEPT ![l] = Nobody]
    /\ loop' = [loop EXCEPT ![l] = "accept"]
    /\ UNCHANGED <<stage, enabled, signalled, code, pool, listener, adminErr, logger, of, event>>

LoopOver(l) ==
    /\ Up
    /\ loop[l] = "accept"
    /\ loop' = [loop EXCEPT ![l] = "done"]
    /\ UNCHANGED <<stage, enabled, signalled, code, pool, listener, taken, adminErr, logger,
                   sessions>>

\* Accept fails for the listener is closed ...
LoopEnds(l) == listener[l] = "closed" /\ LoopOver(l)

\* ... or for any other reason.
LoopBreaks(t) == listener[t] = "open" /\ LoopOver(t)

----
\* Sessions and the logger

Query(s) ==
    /\ Up
    /\ at[s] = "live"
    /\ pool = "open"
    /\ at' = [at EXCEPT ![s] = "busy"]
    /\ UNCHANGED <<stage, enabled, signalled, code, pool, servers, adminErr, logger, of, event>>

QueryEnds(s) ==
    /\ Up
    /\ at[s] = "busy"
    /\ at' = [at EXCEPT ![s] = "live"]
    /\ UNCHANGED <<stage, enabled, signalled, code, pool, servers, adminErr, logger, of, event>>

SessionEnds(s) ==
    /\ Up
    /\ at[s] = "live" /\ event[s] # "held"
    /\ at' = [at EXCEPT ![s] = "over"]
    /\ UNCHANGED <<stage, enabled, signalled, code, pool, servers, adminErr, logger, of, event>>

Becomes(s, state) ==
    /\ Up
    /\ event' = [event EXCEPT ![s] = state]
    /\ UNCHANGED <<enabled, signalled, code, pool, servers, adminErr, at, of>>

\* Log reads the flag,
LogCheck(s) ==
    /\ at[s] = "live" /\ event[s] = "none"
    /\ Becomes(s, IF closed THEN "gone" ELSE "held")
    /\ UNCHANGED <<stage, logger>>

\* then sends, or finds the buffer full
LogSend(s) ==
    /\ event[s] = "held" /\ open
    /\ \E state \in {"queued", "gone"} : Becomes(s, state)
    /\ UNCHANGED <<stage, logger>>

\* or panics, which ends the process unless it is an admin handler's; the FTP
\* library may recover it as well.
LogPanic(s) ==
    /\ event[s] = "held" /\ ~open
    /\ Becomes(s, "gone")
    /\ stage' \in CASE of[s] = "admin" -> {stage}
                    [] of[s] = "ftp"   -> {stage, "crashed"}
                    [] of[s] = "sftp"  -> {"crashed"}
    /\ UNCHANGED logger

\* The writer settles an event; it needs the pool for it to be written.
Write(s) ==
    /\ writer = "running" /\ event[s] = "queued"
    /\ Becomes(s, "gone")
    /\ UNCHANGED <<stage, logger>>

WriterEnds ==
    /\ Up
    /\ writer = "running" /\ ~open
    /\ \A s \in Sessions : event[s] # "queued"
    /\ writer' = "done"
    /\ UNCHANGED <<stage, enabled, signalled, code, pool, servers, adminErr, closed, open,
                   sessions>>

Writer == WriterEnds \/ \E s \in Sessions : Write(s)

Session(s) ==
    \/ Query(s) \/ QueryEnds(s) \/ SessionEnds(s)
    \/ LogCheck(s) \/ LogSend(s) \/ LogPanic(s)

Next ==
    \/ Run \/ Signal
    \/ AdminListens \/ AdminFails \/ AdminReports
    \/ \E l \in Listeners : Spawn(l) \/ LoopEnds(l) \/ \E s \in Sessions : Accept(l, s)
    \/ \E t \in Touchpoints : LoopBreaks(t)
    \/ Writer
    \/ \E s \in Sessions : Session(s)

\* run's calls return, goroutines are scheduled, a query does not take for ever;
\* nothing says that a session ends.
Fairness ==
    /\ WF_vars(Run)
    /\ \A l \in Listeners : WF_vars(Spawn(l)) /\ WF_vars(LoopEnds(l))
    /\ WF_vars(Writer)
    /\ \A s \in Sessions : WF_vars(QueryEnds(s))

Spec == Init /\ [][Next]_vars /\ Fairness

----
\* Properties

TypeOK ==
    /\ stage \in Starting \union {"wait"} \union Stopping \union Unwinding \union Gone
    /\ enabled \subseteq Touchpoints
    /\ signalled \in BOOLEAN /\ closed \in BOOLEAN /\ open \in BOOLEAN
    /\ code \in {"none", "ok", "err"}
    /\ pool \in {"none", "open", "closing", "closed"}
    /\ writer \in {"none", "running", "done"}
    /\ listener \in [Listeners -> {"none", "open", "closed"}]
    /\ loop \in [Listeners -> {"none", "begun", "accept", "spawn", "done"}]
    /\ taken \in [Listeners -> Sessions \union {Nobody}]
    /\ adminErr \in {"none", "due", "sent"}
    /\ at \in [Sessions -> {"none", "taken", "live", "busy", "over"}]
    /\ of \in [Sessions -> Listeners]
    /\ event \in [Sessions -> {"none", "held", "queued", "gone"}]

\* As long as the audit writer runs it has the pool it writes to, however run
\* came to return (main.go:50, 85).
WriterHasPool == writer = "running" => pool = "open"

\* When run has returned, every event the logger took has been settled, also
\* those of sessions nobody waited for (main.go:85; audit.go:157-170).
SettledAtExit == stage = "exited" => \A s \in Sessions : event[s] # "queued"

\* Once run is on its way out without an error, no FTP or SFTP session begins:
\* whoever was accepted before the listeners closed has begun by then
\* (main.go:233-236; sftpserver/server.go:154-161; ftpserver/server.go:356-363).
NoLateSession ==
    [][code = "ok" => \A s \in Sessions :
          of[s] \in Touchpoints => (at[s] \in {"none", "taken"} => at'[s] = at[s])]_vars

\* A signal ends the process, whatever its sessions do (main.go:222-236).
SignalEnds == signalled ~> ~Up
====
