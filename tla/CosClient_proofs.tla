---- MODULE CosClient_proofs ----
(***************************************************************************)
(* Proofs about the shared COS client, for every lifetime and margin and   *)
(* any number of operations at a time, as long as an operation reaches its *)
(* request within half of the margin (CosClientAssumption).                *)
(***************************************************************************)
EXTENDS CosClient, TLAPS

\* What every step preserves.
IInv == TypeOK /\ ChainOK /\ InHandOK /\ SingleFlight

\* The constants are naturals, the margin is shorter than a session and at
\* least twice the slack.
LEMMA Constants ==
  /\ TTL \in Nat /\ Margin \in Nat /\ Slack \in Nat /\ MaxIssues \in Nat
  /\ Margin < TTL /\ 2 * Slack <= Margin /\ MaxIssues >= 1
  BY CosClientAssumption

\* No set of credentials has the number that stands for none.
LEMMA NoneIsNone == None \notin Creds /\ Sessions \subseteq Creds /\ Static \in Creds
  BY Constants DEF None, Creds, Sessions, Static

----
LEMMA InitIInv == Init => IInv
  <1> SUFFICES ASSUME Init PROVE IInv
    OBVIOUS
  <1>1. chain \in [id : Creds \union {None}, left : 0..TTL]
    BY Constants DEF Init, Creds, Sessions
  <1>2. life \in [Sessions -> 0..TTL] /\ issued \in 0..MaxIssues
    BY Constants DEF Init, Sessions
  <1>3. client \in Creds \union {None}
    BY Constants DEF Init, Creds, Sessions
  <1>4. TypeOK
    BY <1>1, <1>2, <1>3, Constants DEF Init, TypeOK, Labels
  <1>5. ChainOK
    BY Constants DEF Init, ChainOK, Sessions, Static
  <1>6. InHandOK
    BY DEF Init, InHandOK
  <1>7. SingleFlight
    BY DEF Init, SingleFlight
  <1> QED
    BY <1>4, <1>5, <1>6, <1>7 DEF IInv

----
\* Type correctness, action by action.
LEMMA TypeStep == TypeOK /\ [Next]_vars => TypeOK'
  <1> SUFFICES ASSUME TypeOK, [Next]_vars PROVE TypeOK'
    OBVIOUS
  <1> USE DEF TypeOK, vars, cloudVars, opVars, Goto, Labels
  <1>1. ASSUME NEW o \in Ops, Begin(o) PROVE TypeOK'
    BY <1>1 DEF Begin
  <1>2. ASSUME NEW o \in Ops, Acquire(o) PROVE TypeOK'
    <2>1. CASE GetCached(o)
      BY <2>1, Constants DEF GetCached
    <2>2. CASE GetResolves(o)
      BY <2>2 DEF GetResolves
    <2>3. CASE Invalidate(o)
      BY <2>3, Constants DEF Invalidate, NoCreds
    <2> QED
      BY <1>2, <2>1, <2>2, <2>3 DEF Acquire
  <1>3. ASSUME NEW o \in Ops, NEW v \in Creds, NEW left \in 0..TTL, Resolved(o, v, left),
               life' \in [Sessions -> 0..TTL], issued' \in 0..MaxIssues
        PROVE  TypeOK'
    BY <1>3, Constants DEF Resolved
  <1>4. ASSUME NEW o \in Ops, ResolveSTS(o) PROVE TypeOK'
    <2>1. issued' = issued + 1 /\ issued' \in Sessions
      BY <1>4, Constants DEF ResolveSTS, Sessions
    <2>2. PICK left \in (Margin + 1)..TTL :
             /\ life' = [life EXCEPT ![issued'] = left]
             /\ Resolved(o, issued', left)
      BY <1>4 DEF ResolveSTS
    <2>3. left \in 0..TTL /\ issued' \in 0..MaxIssues
      BY <2>1, Constants DEF Sessions
    <2>4. life' \in [Sessions -> 0..TTL]
      BY <2>2, <2>3
    <2> QED
      BY <1>3, <2>1, <2>2, <2>3, <2>4, NoneIsNone
  <1>5. ASSUME NEW o \in Ops, ResolveStatic(o) PROVE TypeOK'
    <2>1. TTL \in 0..TTL /\ life' \in [Sessions -> 0..TTL] /\ issued' \in 0..MaxIssues
      BY <1>5, Constants DEF ResolveStatic
    <2> QED
      BY <1>3, <1>5, <2>1, NoneIsNone DEF ResolveStatic
  <1>6. ASSUME NEW o \in Ops, ResolveFails(o) \/ Notify(o) PROVE TypeOK'
    BY <1>6 DEF ResolveFails, Notify
  <1>7. ASSUME NEW o \in Ops, NotifyFailure(o) \/ CallSucceeds(o) \/ CallFails(o)
        PROVE  TypeOK'
    <2>1. \E b \in {"none", "full", "drained", "whole", "empty"} : Finish(o, b)
      <3>1. CASE NotifyFailure(o) \/ CallFails(o)
        BY <3>1 DEF NotifyFailure, CallFails
      <3>2. CASE CallSucceeds(o)
        <4>1. Finish(o, CASE body[o] = "full" -> "whole"
                          [] body[o] = "drained" -> "empty"
                          [] OTHER -> "none")
          BY <3>2 DEF CallSucceeds
        <4> QED
          BY <4>1
      <3> QED
        BY <1>7, <3>1, <3>2
    <2>2. UNCHANGED <<cloudVars, chain, client>>
      BY <1>7 DEF NotifyFailure, CallSucceeds, CallFails
    <2> QED
      BY <2>1, <2>2, Constants DEF Finish
  <1>8. ASSUME NEW o \in Ops, Seed(o) PROVE TypeOK'
    BY <1>8 DEF Seed
  <1>9. ASSUME NEW o \in Ops, CallDenied(o) PROVE TypeOK'
    <2>1. CASE try[o] = 1
      BY <1>9, <2>1 DEF CallDenied
    <2>2. CASE try[o] # 1
      <3>1. Finish(o, "none") /\ UNCHANGED <<cloudVars, chain, client>>
        BY <1>9, <2>2 DEF CallDenied
      <3> QED
        BY <3>1, Constants DEF Finish
    <2> QED
      BY <2>1, <2>2
  <1>10. ASSUME NEW v \in Creds, Refuse(v) PROVE TypeOK'
    BY <1>10 DEF Refuse
  <1>11. CASE Tick
    <2>1. \A n \in 0..TTL : Older(n) \in 0..TTL
      BY Constants DEF Older
    <2>2. life' \in [Sessions -> 0..TTL]
      BY <1>11, <2>1 DEF Tick
    <2>3. chain' \in [id : Creds \union {None}, left : 0..TTL]
      BY <1>11, <2>1 DEF Tick
    <2>4. wait' \in [Ops -> 0..Slack]
      BY <1>11, Constants DEF Tick
    <2> QED
      BY <1>11, <2>2, <2>3, <2>4 DEF Tick
  <1>12. CASE UNCHANGED vars
    BY <1>12
  <1> QED
    BY <1>1, <1>2, <1>4, <1>5, <1>6, <1>7, <1>8, <1>9, <1>10, <1>11, <1>12
       DEF Next, Step

----
\* One operation at a time asks the sources, and what is cached stays useless
\* until it has the answer.
LEMMA FlightStep == TypeOK /\ SingleFlight /\ [Next]_vars => SingleFlight'
  <1> SUFFICES ASSUME TypeOK, SingleFlight, [Next]_vars PROVE SingleFlight'
    OBVIOUS
  <1> USE DEF TypeOK, vars, cloudVars, opVars, Goto, SingleFlight
  <1>1. ASSUME NEW o \in Ops, GetResolves(o) PROVE SingleFlight'
    BY <1>1 DEF GetResolves, Unlocked, Cached
  <1>2. ASSUME UNCHANGED chain,
               \A p \in Ops : pc'[p] = "resolving" => pc[p] = "resolving"
        PROVE  SingleFlight'
    BY <1>2 DEF Cached
  <1>3. ASSUME NEW o \in Ops, pc[o] = "resolving", pc'[o] # "resolving",
               \A p \in Ops : p # o => pc'[p] = pc[p]
        PROVE  SingleFlight'
    BY <1>3
  <1>4. ASSUME NEW o \in Ops, Begin(o) PROVE SingleFlight'
    BY <1>2, <1>4 DEF Begin
  <1>5. ASSUME NEW o \in Ops, GetCached(o) PROVE SingleFlight'
    BY <1>2, <1>5 DEF GetCached
  <1>6. ASSUME NEW o \in Ops, Invalidate(o) PROVE SingleFlight'
    BY <1>6 DEF Invalidate, Unlocked
  <1>7. ASSUME NEW o \in Ops, ResolveSTS(o) \/ ResolveStatic(o) \/ ResolveFails(o)
        PROVE  SingleFlight'
    BY <1>3, <1>7 DEF ResolveSTS, ResolveStatic, ResolveFails, Resolved
  <1>8. ASSUME NEW o \in Ops, Notify(o) \/ NotifyFailure(o) \/ Seed(o)
                                \/ CallSucceeds(o) \/ CallFails(o) \/ CallDenied(o)
        PROVE  SingleFlight'
    BY <1>2, <1>8 DEF Notify, NotifyFailure, Seed, CallSucceeds, CallFails,
                      CallDenied, Finish
  <1>9. ASSUME NEW v \in Creds, Refuse(v) PROVE SingleFlight'
    BY <1>2, <1>9 DEF Refuse
  <1>10. CASE Tick
    <2>1. chain'.id = chain.id /\ chain'.left <= chain.left
      BY <1>10, Constants DEF Tick, Older
    <2>2. Cached' => Cached
      BY <2>1, Constants, TypeStep DEF Cached
    <2> QED
      BY <1>10, <2>2 DEF Tick
  <1>11. CASE UNCHANGED vars
    BY <1>2, <1>11
  <1> QED
    BY <1>1, <1>4, <1>5, <1>6, <1>7, <1>8, <1>9, <1>10, <1>11
       DEF Next, Acquire, Step

----
\* The chain's expiry is the session's.
LEMMA ChainStep == TypeOK /\ ChainOK /\ [Next]_vars => ChainOK'
  <1> SUFFICES ASSUME TypeOK, ChainOK, [Next]_vars PROVE ChainOK'
    OBVIOUS
  <1> USE DEF TypeOK, vars, cloudVars, opVars, ChainOK
  <1>1. CASE UNCHANGED <<chain, life>>
    BY <1>1
  <1>2. ASSUME NEW o \in Ops, Invalidate(o) PROVE ChainOK'
    BY <1>2, NoneIsNone DEF Invalidate, NoCreds
  <1>3. ASSUME NEW o \in Ops, ResolveSTS(o) PROVE ChainOK'
    <2>1. issued' = issued + 1 /\ issued' \in Sessions
      BY <1>3, Constants DEF ResolveSTS, Sessions
    <2>2. PICK left \in (Margin + 1)..TTL :
             /\ life' = [life EXCEPT ![issued'] = left]
             /\ Resolved(o, issued', left)
      BY <1>3 DEF ResolveSTS
    <2> QED
      BY <2>1, <2>2 DEF Resolved
  <1>4. ASSUME NEW o \in Ops, ResolveStatic(o) PROVE ChainOK'
    BY <1>4, Constants DEF ResolveStatic, Resolved, Sessions, Static
  <1>5. CASE Tick
    BY <1>5 DEF Tick
  <1>6. ASSUME NEW o \in Ops, Begin(o) \/ GetCached(o) \/ GetResolves(o)
        PROVE  UNCHANGED <<chain, life>>
    BY <1>6 DEF Begin, GetCached, GetResolves
  <1>7. ASSUME NEW o \in Ops, ResolveFails(o) \/ Notify(o) \/ NotifyFailure(o)
                                \/ Seed(o) \/ CallSucceeds(o) \/ CallFails(o)
                                \/ CallDenied(o)
        PROVE  UNCHANGED <<chain, life>>
    BY <1>7 DEF ResolveFails, Notify, NotifyFailure, Seed, CallSucceeds,
                CallFails, CallDenied
  <1>8. ASSUME NEW v \in Creds, Refuse(v) PROVE UNCHANGED <<chain, life>>
    BY <1>8 DEF Refuse
  <1> QED
    BY <1>1, <1>2, <1>3, <1>4, <1>5, <1>6, <1>7, <1>8 DEF Next, Acquire, Step

----
\* Credentials that last longer than m last longer than any n below.
LEMMA LastingMonotonic ==
  ASSUME TypeOK, NEW m \in Int, NEW n \in Int, n <= m
  PROVE  Lasting(m) \subseteq Lasting(n)
  BY DEF Lasting, TypeOK

\* InHandOK of one operation.
InHandAt(o) ==
    /\ pc[o] \in {"notify", "seed"} => got[o] \in Lasting(Margin - wait[o])
    /\ pc[o] = "call" => client \in Lasting(Margin - Slack - wait[o])

LEMMA InHandSplit == InHandOK <=> \A o \in Ops : InHandAt(o)
  BY DEF InHandOK, InHandAt

\* Whoever leaves the request or never got there promises nothing.
LEMMA InHandElsewhere ==
  ASSUME NEW o, pc'[o] \notin {"notify", "seed", "call"}
  PROVE  InHandAt(o)'
  BY DEF InHandAt

\* A step that leaves the sessions' lives, the client and what an operation
\* has in hand alone leaves it all in order.
LEMMA InHandUnchanged ==
  ASSUME NEW o, InHandAt(o), UNCHANGED <<life, client>>,
         got'[o] = got[o], wait'[o] = wait[o],
         pc'[o] = pc[o] \/ (pc[o] = "notify" /\ pc'[o] = "seed")
  PROVE  InHandAt(o)'
  BY DEF InHandAt, Lasting

\* Every step keeps what the operations have in hand, and what the client
\* holds, good for as long as they may take.
LEMMA InHandStep == IInv /\ [Next]_vars => InHandOK'
  <1> SUFFICES ASSUME IInv, [Next]_vars, NEW p \in Ops PROVE InHandAt(p)'
    BY InHandSplit DEF InHandOK, InHandAt
  <1>0. TypeOK /\ ChainOK /\ InHandAt(p) /\ TypeOK'
    BY InHandSplit, TypeStep DEF IInv
  <1>w. wait[p] \in 0..Slack
    BY <1>0 DEF TypeOK
  <1> USE DEF vars, cloudVars, opVars, Goto
  \* Steps of some operation o that touch neither sessions nor client.
  <1>1. ASSUME NEW o \in Ops, UNCHANGED <<life, client>>,
               \A q \in Ops : q # o => /\ got'[q] = got[q] /\ wait'[q] = wait[q]
                                       /\ pc'[q] = pc[q],
               p = o => InHandAt(o)'
        PROVE  InHandAt(p)'
    BY <1>0, <1>1, InHandUnchanged
  <1>2. ASSUME NEW o \in Ops, Begin(o) \/ GetResolves(o) \/ Invalidate(o)
                                \/ ResolveFails(o) \/ NotifyFailure(o)
                                \/ CallSucceeds(o) \/ CallFails(o) \/ CallDenied(o)
        PROVE  InHandAt(p)'
    <2>1. UNCHANGED <<life, client>>
      BY <1>2 DEF Begin, GetResolves, Invalidate, ResolveFails, NotifyFailure,
                  CallSucceeds, CallFails, CallDenied
    <2>2. pc'[o] \notin {"notify", "seed", "call"}
      BY <1>0, <1>2 DEF TypeOK, Begin, GetResolves, Invalidate, ResolveFails,
             NotifyFailure, CallSucceeds, CallFails, CallDenied, Finish
    <2>3. \A q \in Ops : q # o => /\ got'[q] = got[q] /\ wait'[q] = wait[q]
                                  /\ pc'[q] = pc[q]
      BY <1>0, <1>2 DEF TypeOK, Begin, GetResolves, Invalidate, ResolveFails,
             NotifyFailure, CallSucceeds, CallFails, CallDenied, Finish
    <2> QED
      BY <1>1, <2>1, <2>2, <2>3, InHandElsewhere
  <1>3. ASSUME NEW o \in Ops, GetCached(o) PROVE InHandAt(p)'
    <2>1. /\ UNCHANGED <<life, client>> /\ got'[o] = chain.id
          /\ wait'[o] = 0 /\ pc'[o] = "seed"
          /\ \A q \in Ops : q # o => /\ got'[q] = got[q] /\ wait'[q] = wait[q]
                                     /\ pc'[q] = pc[q]
      BY <1>0, <1>3 DEF TypeOK, GetCached
    <2>2. chain.id # None /\ chain.left > Margin /\ chain.id \in Creds
      BY <1>0, <1>3 DEF TypeOK, GetCached, Cached
    <2>3. chain.id \in Lasting(Margin - 0)
      BY <1>0, <2>2, Constants DEF ChainOK, Lasting, Creds
    <2>4. InHandAt(o)'
      BY <2>1, <2>3 DEF InHandAt, Lasting
    <2> QED
      BY <1>1, <2>1, <2>4
  <1>4. ASSUME NEW o \in Ops, ResolveSTS(o) PROVE InHandAt(p)'
    <2>1. issued' = issued + 1 /\ issued' \in Sessions
      BY <1>0, <1>4, Constants DEF TypeOK, ResolveSTS, Sessions
    <2>2. PICK left \in (Margin + 1)..TTL :
             /\ life' = [life EXCEPT ![issued'] = left]
             /\ Resolved(o, issued', left)
      BY <1>4 DEF ResolveSTS
    <2>3. /\ client' = client /\ got'[o] = issued'
          /\ wait'[o] = 0 /\ pc'[o] = "notify"
          /\ \A q \in Ops : q # o => /\ got'[q] = got[q] /\ wait'[q] = wait[q]
                                     /\ pc'[q] = pc[q]
      BY <1>0, <2>2 DEF TypeOK, Resolved
    <2>4. \A n \in Int : n <= Margin => Lasting(n) \subseteq Lasting(n)'
      BY <1>0, <2>1, <2>2, Constants DEF TypeOK, Lasting
    <2>5. issued' \in Lasting(Margin - 0)'
      BY <1>0, <2>1, <2>2, Constants DEF TypeOK, Lasting
    <2>6. CASE p = o
      BY <2>3, <2>5, <2>6 DEF InHandAt, Lasting
    <2>7. CASE p # o
      <3>1. /\ Margin - wait[p] \in Int /\ Margin - wait[p] <= Margin
            /\ Margin - Slack - wait[p] \in Int /\ Margin - Slack - wait[p] <= Margin
        BY <1>w, Constants
      <3>2. /\ Lasting(Margin - wait[p]) \subseteq Lasting(Margin - wait[p])'
            /\ Lasting(Margin - Slack - wait[p])
                  \subseteq Lasting(Margin - Slack - wait[p])'
        BY <2>3, <2>4, <2>7, <3>1 DEF Lasting
      <3> QED
        BY <1>0, <2>3, <2>7, <3>2 DEF InHandAt
    <2> QED
      BY <2>6, <2>7
  <1>5. ASSUME NEW o \in Ops, ResolveStatic(o) PROVE InHandAt(p)'
    <2>1. /\ UNCHANGED <<life, client>> /\ got'[o] = Static
          /\ pc'[o] = "notify"
          /\ \A q \in Ops : q # o => /\ got'[q] = got[q] /\ wait'[q] = wait[q]
                                     /\ pc'[q] = pc[q]
      BY <1>0, <1>5 DEF TypeOK, ResolveStatic, Resolved
    <2>2. InHandAt(o)'
      BY <2>1 DEF InHandAt, Lasting
    <2> QED
      BY <1>1, <2>1, <2>2
  <1>6. ASSUME NEW o \in Ops, Notify(o) PROVE InHandAt(p)'
    <2>1. /\ UNCHANGED <<life, client, got, wait>>
          /\ pc'[p] = pc[p] \/ (pc[p] = "notify" /\ pc'[p] = "seed")
      BY <1>0, <1>6 DEF TypeOK, Notify
    <2> QED
      BY <1>0, <2>1, InHandUnchanged
  <1>7. ASSUME NEW o \in Ops, Seed(o) PROVE InHandAt(p)'
    <2>1. /\ UNCHANGED <<life, got, wait>> /\ client' = got[o]
          /\ pc[o] = "seed" /\ pc'[o] = "call"
          /\ \A q \in Ops : q # o => pc'[q] = pc[q]
      BY <1>0, <1>7 DEF TypeOK, Seed
    <2>2. got[o] \in Lasting(Margin - wait[o]) /\ wait[o] \in 0..Slack
      BY <1>0, <2>1, InHandSplit DEF IInv, InHandAt, TypeOK
    <2>3. Lasting(Margin - wait[o]) \subseteq Lasting(Margin - Slack - wait[p])
      BY <1>0, <1>w, <2>2, Constants, LastingMonotonic
    <2>4. client' \in Lasting(Margin - Slack - wait[p])'
      BY <2>1, <2>2, <2>3 DEF Lasting
    <2> QED
      BY <1>0, <2>1, <2>4 DEF InHandAt, Lasting
  <1>8. ASSUME NEW v \in Creds, Refuse(v) PROVE InHandAt(p)'
    BY <1>0, <1>8, InHandUnchanged DEF Refuse
  <1>9. CASE Tick
    <2>1. /\ UNCHANGED <<client, got, pc>>
          /\ InHand(p) => wait'[p] = wait[p] + 1 /\ wait[p] < Slack
      BY <1>9 DEF Tick
    <2>2. \A n \in Nat : Lasting(n) \subseteq Lasting(n - 1)'
      <3>1. \A v \in Sessions : life[v] \in Nat
        BY <1>0, Constants DEF TypeOK
      <3>2. \A v \in Sessions : life'[v] = Older(life[v])
        BY <1>9 DEF Tick
      <3> QED
        BY <3>1, <3>2 DEF Lasting, Older
    <2>3. CASE InHand(p)
      <3>1. /\ Margin - wait[p] \in Nat
            /\ Margin - Slack - wait[p] \in Nat
            /\ (Margin - wait[p]) - 1 = Margin - wait'[p]
            /\ (Margin - Slack - wait[p]) - 1 = Margin - Slack - wait'[p]
        BY <1>w, <2>1, <2>3, Constants
      <3>2. /\ Lasting(Margin - wait[p]) \subseteq Lasting(Margin - wait[p])'
            /\ Lasting(Margin - Slack - wait[p])
                  \subseteq Lasting(Margin - Slack - wait[p])'
        BY <2>2, <3>1 DEF Lasting
      <3> QED
        BY <1>0, <2>1, <3>2 DEF InHandAt
    <2>4. CASE ~InHand(p)
      BY <2>1, <2>4 DEF InHandAt, InHand
    <2> QED
      BY <2>3, <2>4
  <1>10. CASE UNCHANGED vars
    BY <1>0, <1>10, InHandUnchanged
  <1> QED
    BY <1>2, <1>3, <1>4, <1>5, <1>6, <1>7, <1>8, <1>9, <1>10
       DEF Next, Acquire, Step

----
\* Theorems

\* IInv is an invariant of the client.
THEOREM Invariance == SafeSpec => []IInv
  <1>1. IInv /\ [Next]_vars => IInv'
    BY TypeStep, FlightStep, ChainStep, InHandStep DEF IInv
  <1> QED
    BY <1>1, InitIInv, PTL DEF SafeSpec

\* Every variable keeps its type.
THEOREM TypeCorrect == SafeSpec => []TypeOK
  BY Invariance, PTL DEF IInv

\* One operation at a time asks STS or the environment, and nobody asks when
\* the cached credentials still serve (Chain.Get, creds.go:113-157).
THEOREM OneFlight == SafeSpec => []SingleFlight
  BY Invariance, PTL DEF IInv

\* No request meets a client without credentials (client.go:42-71).
THEOREM ClientReady == SafeSpec => []NoNilClient
  <1>1. IInv => NoNilClient
    BY NoneIsNone DEF IInv, InHandOK, NoNilClient, Lasting, Creds
  <1> QED
    BY <1>1, Invariance, PTL

\* No request is signed with a session that has run out, however refreshes
\* of other operations fall between an operation's own and its request, as long
\* as each takes at most half the margin from one to the other
\* (creds.go:113-121, client.go:57-71).
THEOREM SignedInTime == SafeSpec => []CallsUnexpired
  <1>1. IInv => CallsUnexpired
    <2> SUFFICES ASSUME IInv, NEW o \in Ops, pc[o] = "call"
                 PROVE  client \in Lasting(0)
      BY DEF CallsUnexpired
    <2>1. client \in Lasting(Margin - Slack - wait[o]) /\ wait[o] \in 0..Slack
      BY DEF IInv, InHandOK, TypeOK
    <2>2. Lasting(Margin - Slack - wait[o]) \subseteq Lasting(0)
      BY <2>1, Constants, LastingMonotonic DEF IInv
    <2> QED
      BY <2>1, <2>2
  <1> QED
    BY <1>1, Invariance, PTL
====
