---- MODULE CosClient ----
(***************************************************************************)
(* cos/creds.go, cos/client.go: the credential chain and the one COS       *)
(* client every session and admin handler shares (fsdriver/plugin.go       *)
(* builds both).                                                           *)
(*                                                                         *)
(* An operation (cos/fs.go: List, Head, Get, Put, Delete, Copy) asks the   *)
(* chain for credentials, puts them into the client when they differ, and  *)
(* sends its request with whatever the client holds by then; a refusal of  *)
(* the credentials is retried once.  The chain has a mutex, the client     *)
(* another, and the request reads the client without either: operations    *)
(* interleave between all of these steps.                                  *)
(*                                                                         *)
(* A set of credentials is a number: 0 is the static AK/SK, n the n-th     *)
(* session STS issued.  Tick is the clock.                                 *)
(***************************************************************************)
EXTENDS Integers, FiniteSets

CONSTANTS
    Ops,        \* goroutines with an operation to do, one after another
    TTL,        \* longest life of an STS session, in ticks (1 h)
    Margin,     \* cached credentials are used while more is left (12 min)
    Slack,      \* most ticks between Chain.Get's answer and the request
    MaxIssues,  \* bound: sessions STS issues
    MaxRefusals \* bound: credentials COS starts to refuse before they expire

ASSUME CosClientAssumption ==
    /\ TTL \in Nat /\ Margin \in Nat /\ Slack \in Nat
    /\ Margin < TTL
    /\ 2 * Slack <= Margin
    /\ MaxIssues \in Nat \ {0}
    /\ MaxRefusals \in Nat

VARIABLES
    pod,        \* Chain.usePodIdentity
    static,     \* static credentials are configured
    issued,     \* sessions STS has issued
    life,       \* ticks each of them has left
    refused,    \* credentials COS refuses (revoked, keys rotated)
    chain,      \* Chain.curr and Chain.exp, as [id, left]
    client,     \* Client.curr, and the keys Client.cos signs with
    pc,         \* where each operation is
    got,        \* what Chain.Get gave it
    wait,       \* ticks since then
    try,        \* 1, or 2 once it is being retried
    body        \* of an upload: full, or drained by a request, and when the
                \* operation has succeeded, whole or empty; else none

vars == <<pod, static, issued, life, refused, chain, client, pc, got, wait,
          try, body>>

cloudVars == <<pod, static, issued, life, refused>>
opVars == <<got, wait, try, body>>

None == -1
Static == 0
Sessions == 1..MaxIssues
Creds == {Static} \union Sessions

NoCreds == [id |-> None, left |-> 0]

\* Credentials with more than n ticks left; AK/SK do not run out.
Lasting(n) == {Static} \union {v \in Sessions : life[v] > n}

Accepted(v) == v \in Lasting(0) \ refused

----
\* NewChainFromEnv refuses to start with no source at all; Init of the plugin
\* resolves once, and fails the boot when it cannot; NewClientWithChain gives
\* the result to the client only if static credentials exist.
Init ==
    /\ pod \in BOOLEAN /\ static \in BOOLEAN
    /\ \/ /\ pod
          /\ issued = 1
          /\ life = [v \in Sessions |-> IF v = 1 THEN TTL ELSE 0]
          /\ chain = [id |-> 1, left |-> TTL]
       \/ /\ static
          /\ issued = 0
          /\ life = [v \in Sessions |-> 0]
          /\ chain = [id |-> Static, left |-> TTL]
    /\ client = IF static THEN chain.id ELSE None
    /\ refused = {}
    /\ pc = [o \in Ops |-> "idle"]
    /\ got = [o \in Ops |-> None]
    /\ wait = [o \in Ops |-> 0]
    /\ try = [o \in Ops |-> 1]
    /\ body = [o \in Ops |-> "none"]

Goto(o, label) == pc' = [pc EXCEPT ![o] = label]

\* The operation returns; its locals are gone.
Finish(o, b) ==
    /\ Goto(o, "idle")
    /\ got' = [got EXCEPT ![o] = None]
    /\ wait' = [wait EXCEPT ![o] = 0]
    /\ try' = [try EXCEPT ![o] = 1]
    /\ body' = [body EXCEPT ![o] = b]

\* Nobody holds Chain.mu.
Unlocked == \A o \in Ops : pc[o] # "resolving"

----
\* Chain.Get

Begin(o) ==
    /\ pc[o] = "idle"
    /\ \E b \in {"none", "full"} : body' = [body EXCEPT ![o] = b]
    /\ Goto(o, "get")
    /\ UNCHANGED <<cloudVars, chain, client, got, wait, try>>

\* Fault: cached credentials are used to their last tick.
CachedNoMargin == chain.id # None /\ chain.left > 0

Cached == chain.id # None /\ chain.left > Margin

GetCached(o) ==
    /\ pc[o] = "get"
    /\ Unlocked
    /\ Cached
    /\ got' = [got EXCEPT ![o] = chain.id]
    /\ wait' = [wait EXCEPT ![o] = 0]
    /\ Goto(o, "seed")
    /\ UNCHANGED <<cloudVars, chain, client, try, body>>

\* Fault: the cache is looked at before the mutex is taken.
GetResolvesUnlocked(o) ==
    /\ pc[o] = "get"
    /\ ~Cached
    /\ Goto(o, "resolving")
    /\ UNCHANGED <<cloudVars, chain, client, opVars>>

\* Otherwise the mutex is kept while the sources are asked.
GetResolves(o) ==
    /\ pc[o] = "get"
    /\ Unlocked
    /\ ~Cached
    /\ Goto(o, "resolving")
    /\ UNCHANGED <<cloudVars, chain, client, opVars>>

\* Credentials v with so much time left are cached and returned.
Resolved(o, v, left) ==
    /\ chain' = [id |-> v, left |-> left]
    /\ got' = [got EXCEPT ![o] = v]
    /\ wait' = [wait EXCEPT ![o] = 0]
    /\ Goto(o, "notify")
    /\ UNCHANGED <<pod, static, refused, client, try, body>>

ResolveSTS(o) ==
    /\ pc[o] = "resolving"
    /\ pod
    /\ issued < MaxIssues
    /\ issued' = issued + 1
    /\ \E left \in (Margin + 1)..TTL :
          /\ life' = [life EXCEPT ![issued'] = left]
          /\ Resolved(o, issued', left)

\* Fault: static credentials are cached for longer than any session.
ResolveStaticLonger(o) ==
    /\ pc[o] = "resolving"
    /\ static
    /\ Resolved(o, Static, TTL + Margin)
    /\ UNCHANGED <<issued, life>>

\* STS is not there, or fails: the static credentials, for an assumed hour.
ResolveStatic(o) ==
    /\ pc[o] = "resolving"
    /\ static
    /\ Resolved(o, Static, TTL)
    /\ UNCHANGED <<issued, life>>

\* Fault: the sources are asked until one answers, with the mutex held.
ResolveRetries(o) ==
    /\ pc[o] = "resolving"
    /\ ~static
    /\ UNCHANGED vars

\* Neither answers: an error; what was cached stays as it was.
ResolveFails(o) ==
    /\ pc[o] = "resolving"
    /\ ~static
    /\ Goto(o, "lost")
    /\ UNCHANGED <<cloudVars, chain, client, opVars>>

\* OnRefresh: CRED_REFRESH to the audit log, the mutex released.
Notify(o) ==
    /\ pc[o] = "notify"
    /\ Goto(o, "seed")
    /\ UNCHANGED <<cloudVars, chain, client, opVars>>

\* Fault: refresh's error is not looked at.
NotifyFailureIgnored(o) ==
    /\ pc[o] = "lost"
    /\ Goto(o, "call")
    /\ UNCHANGED <<cloudVars, chain, client, opVars>>

\* The same for a failure, and refresh returns it: no request is sent, and
\* the operation returns this error, or the refusal it has met before.
NotifyFailure(o) ==
    /\ pc[o] = "lost"
    /\ Finish(o, "none")
    /\ UNCHANGED <<cloudVars, chain, client>>

----
\* Client

\* refresh: under Client.mu the client gets the credentials, if they differ.
Seed(o) ==
    /\ pc[o] = "seed"
    /\ client' = got[o]
    /\ Goto(o, "call")
    /\ UNCHANGED <<cloudVars, chain, opVars>>

\* The request, signed with what the client holds by now.
CallSucceeds(o) ==
    /\ pc[o] = "call"
    /\ Accepted(client)
    /\ Finish(o, CASE body[o] = "full" -> "whole"
                   [] body[o] = "drained" -> "empty"
                   [] OTHER -> "none")
    /\ UNCHANGED <<cloudVars, chain, client>>

\* Any other error: the network, a 5xx, no such key.
CallFails(o) ==
    /\ pc[o] = "call"
    /\ Finish(o, "none")
    /\ UNCHANGED <<cloudVars, chain, client>>

\* COS refuses the credentials, before or after the body was read.
CallDenied(o) ==
    /\ pc[o] = "call"
    /\ ~Accepted(client)
    /\ IF try[o] = 1
       THEN /\ Goto(o, "invalidate")
            /\ \E b \in {body[o]} \union {d \in {"drained"} : body[o] = "full"} :
                  body' = [body EXCEPT ![o] = b]
            /\ UNCHANGED <<got, wait, try>>
       ELSE Finish(o, "none")
    /\ UNCHANGED <<cloudVars, chain, client>>

\* do: forget the chain's credentials, whichever they are by now, and refresh.
Invalidate(o) ==
    /\ pc[o] = "invalidate"
    /\ Unlocked
    /\ chain' = NoCreds
    /\ try' = [try EXCEPT ![o] = 2]
    /\ got' = [got EXCEPT ![o] = None]
    /\ wait' = [wait EXCEPT ![o] = 0]
    /\ Goto(o, "get")
    /\ UNCHANGED <<cloudVars, client, body>>

----
\* COS stops accepting credentials that have not expired.
Refuse(v) ==
    /\ Cardinality(refused) < MaxRefusals
    /\ v = Static \/ v <= issued
    /\ refused' = refused \union {v}
    /\ UNCHANGED <<pod, static, issued, life, chain, client, pc, opVars>>

Older(n) == IF n > 0 THEN n - 1 ELSE 0

\* An operation that has its credentials is not kept from using them for more
\* than Slack ticks: locally it only logs an event and takes a free mutex.
InHand(o) == pc[o] \in {"notify", "seed", "call"}

Tick ==
    /\ \A o \in Ops : InHand(o) => wait[o] < Slack
    /\ life' = [v \in Sessions |-> Older(life[v])]
    /\ chain' = [chain EXCEPT !.left = Older(@)]
    /\ wait' = [o \in Ops |-> IF InHand(o) THEN wait[o] + 1 ELSE wait[o]]
    /\ UNCHANGED <<pod, static, issued, refused, client, pc, got, try,
                   body>>

Acquire(o) == GetCached(o) \/ GetResolves(o) \/ Invalidate(o)

Step(o) ==
    \/ ResolveSTS(o) \/ ResolveStatic(o) \/ ResolveFails(o)
    \/ Notify(o) \/ NotifyFailure(o) \/ Seed(o)
    \/ CallSucceeds(o) \/ CallFails(o) \/ CallDenied(o)

Next ==
    \/ \E o \in Ops : Begin(o) \/ Acquire(o) \/ Step(o)
    \/ \E v \in Creds : Refuse(v)
    \/ Tick

SafeSpec == Init /\ [][Next]_vars

\* STS and COS answer each request, one way or another, and a Go mutex that
\* becomes free again and again is given to each waiter in the end.
Spec ==
    /\ SafeSpec
    /\ \A o \in Ops : WF_vars(Step(o)) /\ SF_vars(Acquire(o))

----
\* Properties

Labels == {"idle", "get", "resolving", "notify", "lost", "seed", "call",
           "invalidate"}

\* The shape of the state.
TypeOK ==
    /\ pod \in BOOLEAN /\ static \in BOOLEAN
    /\ issued \in 0..MaxIssues
    /\ life \in [Sessions -> 0..TTL]
    /\ refused \subseteq Creds
    /\ chain \in [id : Creds \union {None}, left : 0..TTL]
    /\ client \in Creds \union {None}
    /\ pc \in [Ops -> Labels]
    /\ got \in [Ops -> Creds \union {None}]
    /\ wait \in [Ops -> 0..Slack]
    /\ try \in [Ops -> {1, 2}]
    /\ body \in [Ops -> {"none", "full", "drained", "whole", "empty"}]

\* Without static credentials the client is built empty, its SDK handle nil.
\* No request reaches it like that, whichever operation comes first and
\* whatever the others do (client.go:42-71).
NoNilClient == \A o \in Ops : pc[o] = "call" => client # None

\* No request is signed with a session that has run out, although another
\* operation may put an older session back between an operation's own refresh
\* and its request (creds.go:113-121, client.go:57-71).
CallsUnexpired == \A o \in Ops : pc[o] = "call" => client \in Lasting(0)

\* While one operation asks the sources nobody else does, and what is cached
\* is still of no use: waiters find the answer, they do not ask again
\* (creds.go:114-155).
SingleFlight ==
    /\ \A o, p \in Ops : pc[o] = "resolving" /\ pc[p] = "resolving" => o = p
    /\ \A o \in Ops : pc[o] = "resolving" => ~Cached

\* Every operation comes to an end, retried or not, however many wait for the
\* chain's mutex (creds.go:113-157, client.go:90-100).
OperationsEnd == \A o \in Ops : pc[o] # "idle" ~> pc[o] = "idle"

\* The strengthening of NoNilClient and CallsUnexpired that every step
\* preserves: credentials in hand have had Margin left when the chain gave
\* them, and the client's were given at most Slack before it got them.
InHandOK ==
    \A o \in Ops :
        /\ pc[o] \in {"notify", "seed"}
              => got[o] \in Lasting(Margin - wait[o])
        /\ pc[o] = "call"
              => client \in Lasting(Margin - Slack - wait[o])

\* What the chain has cached expires with the session itself, not later.
ChainOK == chain.id \in Sessions => life[chain.id] = chain.left

\* fsdriver/cos.go:222: memWriteFile "flushes to COS on Close". The retry of a
\* Put sends the reader the first request has drained: success, and an empty
\* object.
FlushedWhole == \A o \in Ops : body[o] # "empty"
====
