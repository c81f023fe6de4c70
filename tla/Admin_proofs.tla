---- MODULE Admin_proofs ----
(***************************************************************************)
(* Proofs about what an admin's browser meets, in two parts.  The admin    *)
(* sessions, for any number of tabs, tokens and requests in flight and     *)
(* every lifetime: a logout sticks, and the sessions implement             *)
(* AdminSession.  Downloads and listings, for any number of readers, every *)
(* folder, every length of an answer and every size of a page: downloads   *)
(* are logged when they were served, and listings are true and handed over *)
(* whole.                                                                  *)
(***************************************************************************)
EXTENDS AdminSessions, Browse, FiniteSetTheorems, SequenceTheorems, TLAPS

\* The table agrees with what was granted; so does a request that passed
\* Authenticate.
RolesOK ==
    /\ \A k \in Tokens : sessions[k].left > 0 => sessions[k].role = granted[k] /\ k \in Issued
    /\ \A q \in Requests : req[q].pc = "authed" =>
          /\ req[q].tok \in Issued
          /\ req[q].role = granted[req[q].tok]
          /\ req[q].kind \in {"read", "change"}

SessionsInv == TypeOK /\ RolesOK /\ LogoutSticks

LEMMA Constants == NoToken \notin Tokens /\ TTL \in Nat /\ TTL > 0
  BY SessionAssumption

LEMMA SessionsInitInv == Init => SessionsInv
  <1> SUFFICES ASSUME Init PROVE SessionsInv
    OBVIOUS
  <1> USE Constants DEF Init
  <1>1. TypeOK
    BY DEF TypeOK, NoFlow, NoEntry, NoReq, Kinds, Roles, Issued
  <1>2. RolesOK
    BY DEF RolesOK, NoEntry, NoReq
  <1>3. LogoutSticks
    BY DEF LogoutSticks
  <1> QED
    BY <1>1, <1>2, <1>3 DEF SessionsInv

----
\* Type correctness, action by action.
LEMMA SessionsTypeStep == TypeOK /\ [Next]_vars => TypeOK'
  <1> SUFFICES ASSUME TypeOK, [Next]_vars PROVE TypeOK'
    OBVIOUS
  <1> USE Constants DEF TypeOK, vars, login, Dropped
  <1>1. ASSUME NEW t \in Tabs, Authorize(t) PROVE TypeOK'
    BY <1>1 DEF Authorize, Issued
  <1>2. ASSUME NEW t \in Tabs, Login(t) PROVE TypeOK'
    <2>1. CASE CallbackRefused(t)
      BY <2>1 DEF CallbackRefused, NoFlow, Issued
    <2>2. CASE Callback(t)
      BY <2>2 DEF Callback, Issued
    <2>3. CASE ExchangeFails(t)
      BY <2>3 DEF ExchangeFails, NoFlow, Issued
    <2>4. CASE Issue(t)
      <3> DEFINE k == NewToken
      <3>1. k \in Tokens \ Issued
        BY <2>4 DEF Issue, NewToken, Issued
      <3>2. PICK groups \in (SUBSET Roles) \ {{}} :
               /\ granted' = [granted EXCEPT ![k] = RoleOf(groups)]
               /\ sessions' = [sessions EXCEPT ![k] = [role |-> RoleOf(groups), left |-> TTL]]
               /\ flow' = [flow EXCEPT ![t] = [pc |-> "answer", tok |-> k]]
        BY <2>4 DEF Issue
      <3>3. RoleOf(groups) \in Roles
        BY DEF RoleOf, Roles
      <3>4. Issued' = Issued \union {k}
        BY <3>1, <3>2, <3>3 DEF Issued, Roles
      <3>5. /\ granted' \in [Tokens -> Roles \union {"none"}]
            /\ sessions' \in [Tokens -> [role : Roles \union {"none"}, left : 0..TTL]]
        BY <3>1, <3>2, <3>3
      <3>6. flow' \in [Tabs -> [pc : {"idle", "provider", "exchange", "answer"},
                                tok : Issued' \union {NoToken}]]
        BY <3>2, <3>4
      <3>7. /\ cookie' = cookie /\ jar' = jar /\ req' = req /\ out' = out
        BY <2>4 DEF Issue
      <3> QED
        BY <3>4, <3>5, <3>6, <3>7
    <2>5. CASE LoggedIn(t)
      BY <2>5 DEF LoggedIn, NoFlow, Issued
    <2> QED
      BY <1>2, <2>1, <2>2, <2>3, <2>4, <2>5 DEF Login
  <1>3. ASSUME NEW q \in Requests, Send(q) PROVE TypeOK'
    BY <1>3 DEF Send, Issued, Kinds
  <1>4. ASSUME NEW q \in Requests, Request(q) PROVE TypeOK'
    <2>1. CASE Unauthorized(q)
      BY <2>1 DEF Unauthorized, NoReq, Issued, Kinds
    <2>2. CASE Authenticate(q)
      <3> DEFINE k == req[q].tok
      <3>1. k \in Tokens /\ Issued' = Issued
        BY <2>2 DEF Authenticate, Alive, Issued
      <3>2. sessions[k] \in [role : Roles \union {"none"}, left : 0..TTL] /\ TTL \in 0..TTL
        BY <3>1
      <3>3. sessions' \in [Tokens -> [role : Roles \union {"none"}, left : 0..TTL]]
        <4>1. sessions' = [sessions EXCEPT ![k] = [sessions[k] EXCEPT !.left = TTL]]
          BY <2>2 DEF Authenticate
        <4>2. [sessions[k] EXCEPT !.left = TTL] \in [role : Roles \union {"none"}, left : 0..TTL]
          BY <3>2
        <4> QED
          BY <3>1, <4>1, <4>2
      <3>4. req' \in [Requests -> [pc : {"idle", "sent", "authed", "answer"}, kind : Kinds,
                                   tok : Issued \union {NoToken}, role : Roles \union {"none"}]]
        <4> DEFINE r == sessions[k].role
        <4>1. r \in Roles \union {"none"}
          BY <3>2
        <4> DEFINE new == [pc |-> "authed", kind |-> req[q].kind, tok |-> req[q].tok, role |-> r]
        <4>2. req' = [req EXCEPT ![q] = new]
          BY <2>2 DEF Authenticate
        <4>3. new \in [pc : {"idle", "sent", "authed", "answer"}, kind : Kinds,
                       tok : Issued \union {NoToken}, role : Roles \union {"none"}]
          BY <4>1
        <4> HIDE DEF new
        <4> QED
          BY <4>2, <4>3
      <3> QED
        BY <2>2, <3>1, <3>3, <3>4 DEF Authenticate
    <2>3. CASE Forbidden(q)
      BY <2>3 DEF Forbidden, NoReq, Issued, Kinds
    <2>4. CASE Handle(q)
      BY <2>4 DEF Handle, NoReq, Issued, Kinds
    <2>5. CASE Logout(q)
      <3>1. Issued' = Issued /\ req[q].tok \in Issued \union {NoToken} /\ Issued \subseteq Tokens
        BY <2>5 DEF Logout, Issued
      <3>2. req' \in [Requests -> [pc : {"idle", "sent", "authed", "answer"}, kind : Kinds,
                                   tok : Issued \union {NoToken}, role : Roles \union {"none"}]]
        BY <2>5 DEF Logout
      <3>3. NoEntry \in [role : Roles \union {"none"}, left : 0..TTL]
        BY DEF NoEntry
      <3>4. /\ sessions' \in [Tokens -> [role : Roles \union {"none"}, left : 0..TTL]]
            /\ out' \subseteq Issued
        <4>1. CASE req[q].tok = NoToken
          BY <2>5, <4>1 DEF Logout
        <4>2. CASE req[q].tok # NoToken
          <5>1. /\ sessions' = [sessions EXCEPT ![req[q].tok] = NoEntry]
                /\ out' = out \union {req[q].tok}
            BY <2>5, <4>2 DEF Logout
          <5>2. req[q].tok \in Issued /\ req[q].tok \in Tokens
            BY <3>1, <4>2
          <5> QED
            BY <3>3, <5>1, <5>2
        <4> QED
          BY <4>1, <4>2
      <3> QED
        BY <2>5, <3>1, <3>2, <3>4 DEF Logout
    <2>6. CASE LoggedOut(q)
      BY <2>6 DEF LoggedOut, NoReq, Issued, Kinds
    <2> QED
      BY <1>4, <2>1, <2>2, <2>3, <2>4, <2>5, <2>6 DEF Request
  <1>5. CASE Tick
    <2>1. \A k \in Tokens : sessions'[k] \in [role : Roles \union {"none"}, left : 0..TTL]
      BY <1>5 DEF Tick
    <2>2. sessions' \in [Tokens -> [role : Roles \union {"none"}, left : 0..TTL]]
      BY <1>5, <2>1 DEF Tick
    <2> QED
      BY <1>5, <2>2 DEF Tick, Issued
  <1>6. CASE StateExpires
    BY <1>6 DEF StateExpires, Issued
  <1>7. CASE UNCHANGED vars
    BY <1>7 DEF Issued
  <1> QED
    BY <1>1, <1>2, <1>3, <1>4, <1>5, <1>6, <1>7 DEF Next

----
\* The table keeps agreeing with what was granted, and nothing revives a token
\* that was logged out of.
LEMMA RolesStep == SessionsInv /\ [Next]_vars => RolesOK' /\ LogoutSticks'
  <1> SUFFICES ASSUME SessionsInv, [Next]_vars PROVE RolesOK' /\ LogoutSticks'
    OBVIOUS
  <1> USE Constants DEF SessionsInv
  <1>1. ASSUME UNCHANGED <<sessions, granted, out>>,
               \A q \in Requests : req'[q].pc = "authed" => req'[q] = req[q]
        PROVE  RolesOK' /\ LogoutSticks'
    <2>1. Issued' = Issued
      BY <1>1 DEF Issued
    <2> QED
      BY <1>1, <2>1 DEF RolesOK, LogoutSticks, Alive
  <1>2. ASSUME NEW t \in Tabs, Authorize(t) \/ Login(t) PROVE RolesOK' /\ LogoutSticks'
    <2>1. CASE Issue(t)
      <3> DEFINE k == NewToken
      <3>1. k \in Tokens \ Issued
        BY <2>1 DEF Issue, NewToken, Issued
      <3>2. PICK groups \in (SUBSET Roles) \ {{}} :
               /\ granted' = [granted EXCEPT ![k] = RoleOf(groups)]
               /\ sessions' = [sessions EXCEPT ![k] = [role |-> RoleOf(groups), left |-> TTL]]
        BY <2>1 DEF Issue
      <3>3. Issued' = Issued \union {k}
        BY <3>1, <3>2 DEF Issued, TypeOK, RoleOf
      <3>4. req' = req /\ out' = out /\ k \notin out
        BY <2>1, <3>1 DEF Issue, TypeOK
      <3>5. RolesOK'
        BY <3>1, <3>2, <3>3, <3>4 DEF RolesOK, TypeOK
      <3>6. LogoutSticks'
        BY <3>1, <3>2, <3>4 DEF LogoutSticks, Alive, TypeOK
      <3> QED
        BY <3>5, <3>6
    <2> QED
      BY <1>1, <1>2, <2>1
      DEF Login, Authorize, CallbackRefused, Callback, ExchangeFails, LoggedIn
  <1>3. ASSUME NEW q \in Requests, Send(q) \/ Request(q) PROVE RolesOK' /\ LogoutSticks'
    <2>1. CASE Authenticate(q)
      <3> DEFINE k == req[q].tok
      <3>1. k \in Tokens /\ sessions[k].left > 0 /\ Issued' = Issued
        BY <2>1 DEF Authenticate, Alive, Issued
      <3>2. k \in Issued /\ sessions[k].role = granted[k]
        BY <3>1 DEF RolesOK
      <3>3. k \notin out
        BY <3>1 DEF LogoutSticks, Alive
      <3>4. req[q].kind \in {"read", "change"}
        BY <2>1 DEF Authenticate, TypeOK, Kinds
      <3>5. RolesOK'
        BY <2>1, <3>1, <3>2, <3>4 DEF RolesOK, Authenticate, TypeOK
      <3>6. LogoutSticks'
        BY <2>1, <3>1, <3>3 DEF LogoutSticks, Alive, Authenticate, TypeOK
      <3> QED
        BY <3>5, <3>6
    <2>2. CASE Logout(q)
      <3>1. Issued' = Issued
        BY <2>2 DEF Logout, Issued
      <3>2. \A k \in Tokens :
               \/ sessions'[k] = sessions[k]
               \/ sessions'[k].left = 0
        BY <2>2 DEF Logout, TypeOK, NoEntry
      <3>3. \A p \in Requests : req'[p].pc = "authed" => req'[p] = req[p]
        BY <2>2 DEF Logout, TypeOK
      <3>4. RolesOK'
        BY <2>2, <3>1, <3>2, <3>3 DEF RolesOK, Logout
      <3>5. \A k \in out' \ out : sessions'[k].left = 0
        BY <2>2 DEF Logout, TypeOK, NoEntry, Issued
      <3>6. LogoutSticks'
        BY <3>2, <3>5 DEF LogoutSticks, Alive
      <3> QED
        BY <3>4, <3>6
    <2>3. CASE Send(q)
      BY <1>1, <2>3 DEF Send, TypeOK
    <2>4. CASE Unauthorized(q) \/ Forbidden(q) \/ Handle(q) \/ LoggedOut(q)
      BY <1>1, <2>4 DEF Unauthorized, Forbidden, Handle, LoggedOut, TypeOK, NoReq
    <2> QED
      BY <1>3, <2>1, <2>2, <2>3, <2>4 DEF Request
  <1>4. CASE Tick
    <2>1. \A k \in Tokens : /\ sessions'[k].role = sessions[k].role
                            /\ sessions'[k].left > 0 => sessions[k].left > 0
      BY <1>4 DEF Tick, TypeOK
    <2> QED
      BY <1>4, <2>1 DEF Tick, RolesOK, LogoutSticks, Alive, Issued
  <1>5. CASE StateExpires \/ UNCHANGED vars
    BY <1>1, <1>5 DEF StateExpires, vars
  <1> QED
    BY <1>2, <1>3, <1>4, <1>5 DEF Next

\* The invariant holds in every reachable state.
THEOREM SessionsInvariance == SafeSpec => []SessionsInv
  BY SessionsInitInv, SessionsTypeStep, RolesStep, PTL DEF SafeSpec, SessionsInv

\* Type correctness of the admin sessions.
THEOREM SessionsTypeCorrect == SafeSpec => []TypeOK
  BY SessionsInvariance, PTL DEF SessionsInv

\* A session somebody logged out of never lives again (middleware.go:94-99, 113-122).
THEOREM LogoutFinal == SafeSpec => []LogoutSticks
  BY SessionsInvariance, PTL DEF SessionsInv

----
\* Every step is one of AdminSession's, or changes nothing of what it speaks of.
LEMMA PromiseStep == SessionsInv /\ SessionsInv' /\ [Next]_vars => [Promise!Next]_(Promise!vars)
  <1> SUFFICES ASSUME SessionsInv, SessionsInv', [Next]_vars PROVE [Promise!Next]_(Promise!vars)
    OBVIOUS
  <1> DEFINE status == [k \in Tokens |-> Status(k)]
             serving == [q \in Requests |-> Serving(q)]
             nothing == [tok |-> NoToken, kind |-> "read"]
  <1> USE Constants DEF SessionsInv
  <1>1. ASSUME UNCHANGED <<sessions, granted>>,
               \A q \in Requests : req'[q] = req[q] \/ (req[q].pc # "authed" /\ req'[q].pc # "authed")
        PROVE  UNCHANGED Promise!vars
    <2>1. \A k \in Tokens : Status(k)' = Status(k)
      BY <1>1 DEF Status, Alive, Issued
    <2>2. \A q \in Requests : Serving(q)' = Serving(q)
      BY <1>1 DEF Serving, Permitted
    <2> QED
      BY <1>1, <2>1, <2>2 DEF Promise!vars
  <1>2. ASSUME NEW t \in Tabs, Issue(t) PROVE Promise!Next
    <2>0. NewToken \in Tokens \ Issued
      BY <1>2 DEF Issue, NewToken, Issued
    <2>1. PICK k \in Tokens \ Issued : k = NewToken
      BY <2>0
    <2>2. PICK groups \in (SUBSET Roles) \ {{}} :
             /\ granted' = [granted EXCEPT ![k] = RoleOf(groups)]
             /\ sessions' = [sessions EXCEPT ![k] = [role |-> RoleOf(groups), left |-> TTL]]
      BY <1>2, <2>1 DEF Issue
    <2>3. RoleOf(groups) \in Roles /\ RoleOf(groups) # "none"
      BY DEF RoleOf, Roles
    <2>4. Issued' = Issued \union {k}
      BY <2>1, <2>2, <2>3 DEF Issued, TypeOK
    <2>5. Status(k) = "unissued" /\ Status(k)' = "live"
      BY <2>1, <2>2, <2>4 DEF Status, Alive, TypeOK
    <2>6. \A j \in Tokens : j # k => Status(j)' = Status(j)
      BY <2>1, <2>2, <2>4 DEF Status, Alive, TypeOK
    <2>7. status' = [status EXCEPT ![k] = "live"]
      BY <2>1, <2>5, <2>6
    <2>8. serving' = serving
      BY <1>2 DEF Issue, Serving, Permitted
    <2>9. Promise!Grant(k, RoleOf(groups))
      BY <2>1, <2>2, <2>5, <2>7, <2>8 DEF Promise!Grant
    <2> QED
      BY <2>1, <2>3, <2>9 DEF Promise!Next, Promise!Roles, Roles
  <1>3. ASSUME NEW ts \in SUBSET Tokens, UNCHANGED <<granted>>,
               \A k \in Tokens : Status(k)' = IF k \in ts THEN "ended" ELSE Status(k),
               \A k \in ts : Status(k) = "live",
               \A q \in Requests : req'[q] = req[q] \/ (req[q].pc # "authed" /\ req'[q].pc # "authed")
        PROVE  Promise!Next
    <2>1. serving' = serving
      BY <1>3 DEF Serving, Permitted
    <2>2. Promise!End(ts)
      BY <1>3, <2>1 DEF Promise!End
    <2> QED
      BY <2>2 DEF Promise!Next
  <1>4. CASE Tick
    <2> DEFINE ts == {k \in Tokens : Alive(k) /\ ~Alive(k)'}
    <2>1. \A k \in Tokens : Alive(k)' => Alive(k)
      BY <1>4 DEF Tick, Alive, TypeOK
    <2>2. Issued' = Issued /\ \A k \in Tokens : Alive(k) => k \in Issued
      BY <1>4 DEF Tick, Issued, RolesOK, Alive
    <2>3. \A k \in Tokens : Status(k)' = IF k \in ts THEN "ended" ELSE Status(k)
      BY <2>1, <2>2 DEF Status
    <2>4. \A k \in ts : Status(k) = "live"
      BY <2>2 DEF Status
    <2> QED
      BY <1>3, <1>4, <2>3, <2>4 DEF Tick
  <1>5. ASSUME NEW q \in Requests, Logout(q) PROVE [Promise!Next]_(Promise!vars)
    <2> DEFINE ts == {k \in Tokens : Alive(k) /\ k = req[q].tok}
    <2>1. \A k \in Tokens : Alive(k)' <=> Alive(k) /\ k \notin ts
      BY <1>5 DEF Logout, Alive, TypeOK, NoEntry
    <2>2. Issued' = Issued /\ \A k \in Tokens : Alive(k) => k \in Issued
      BY <1>5 DEF Logout, Issued, RolesOK, Alive
    <2>3. \A k \in Tokens : Status(k)' = IF k \in ts THEN "ended" ELSE Status(k)
      BY <2>1, <2>2 DEF Status
    <2>4. \A k \in ts : Status(k) = "live"
      BY <2>2 DEF Status
    <2>5. \A p \in Requests : req'[p] = req[p] \/ (req[p].pc # "authed" /\ req'[p].pc # "authed")
      BY <1>5 DEF Logout, TypeOK
    <2> QED
      BY <1>3, <1>5, <2>3, <2>4, <2>5 DEF Logout
  <1>6. ASSUME NEW q \in Requests, Authenticate(q) PROVE [Promise!Next]_(Promise!vars)
    <2> DEFINE k == req[q].tok
    <2>1. k \in Tokens /\ Alive(k) /\ k \in Issued
      BY <1>6 DEF Authenticate, Alive, RolesOK
    <2>2. granted' = granted /\ Issued' = Issued /\ \A j \in Tokens : Alive(j)' <=> Alive(j)
      BY <1>6, <2>1 DEF Authenticate, Alive, Issued, TypeOK
    <2>3. status' = status /\ Status(k) = "live"
      BY <2>1, <2>2 DEF Status
    <2>4. \A p \in Requests : p # q => Serving(p)' = Serving(p)
      BY <1>6 DEF Authenticate, Serving, Permitted, TypeOK
    <2>5. Serving(q) = nothing
      BY <1>6 DEF Authenticate, Serving
    <2>6. /\ req'[q].pc = "authed" /\ req'[q].tok = k /\ req'[q].kind = req[q].kind
          /\ req'[q].role = granted[k]
      BY <1>6, <2>1 DEF Authenticate, TypeOK, RolesOK, Alive
    <2>7. CASE Permitted(q)'
      <3>1. Serving(q)' = [tok |-> k, kind |-> req[q].kind]
        BY <2>6, <2>7 DEF Serving
      <3>2. serving' = [serving EXCEPT ![q] = [tok |-> k, kind |-> req[q].kind]]
        BY <2>4, <3>1
      <3>3. req[q].kind = "change" => granted[k] = "admin"
        BY <2>6, <2>7 DEF Permitted
      <3>4. req[q].kind \in {"read", "change"}
        BY <1>6 DEF Authenticate, TypeOK, Kinds
      <3>5. Promise!Admit(q, k, req[q].kind)
        BY <2>1, <2>2, <2>3, <2>5, <3>2, <3>3 DEF Promise!Admit, Promise!Nothing
      <3> QED
        BY <2>1, <3>4, <3>5 DEF Promise!Next
    <2>8. CASE ~Permitted(q)'
      <3>1. Serving(q)' = nothing
        BY <2>8 DEF Serving
      <3> QED
        BY <2>2, <2>3, <2>4, <2>5, <3>1 DEF Promise!vars
    <2> QED
      BY <2>7, <2>8
  <1>7. ASSUME NEW q \in Requests, Handle(q) \/ Forbidden(q) PROVE Promise!Next
    <2>1. granted' = granted /\ status' = status
      BY <1>7 DEF Handle, Forbidden, Status, Alive, Issued
    <2>2. \A p \in Requests : p # q => Serving(p)' = Serving(p)
      BY <1>7 DEF Handle, Forbidden, Serving, Permitted, TypeOK
    <2>3. Serving(q)' = nothing
      BY <1>7 DEF Handle, Forbidden, Serving, NoReq, TypeOK
    <2>4. serving' = [serving EXCEPT ![q] = nothing]
      BY <2>2, <2>3
    <2>5. Promise!Leave(q)
      BY <2>1, <2>4 DEF Promise!Leave, Promise!Nothing
    <2> QED
      BY <2>5 DEF Promise!Next
  <1>8. ASSUME NEW t \in Tabs, Authorize(t) \/ Login(t) PROVE [Promise!Next]_(Promise!vars)
    BY <1>1, <1>2, <1>8
    DEF Login, Authorize, CallbackRefused, Callback, ExchangeFails, LoggedIn
  <1>9. ASSUME NEW q \in Requests, Send(q) \/ Unauthorized(q) \/ LoggedOut(q)
        PROVE  UNCHANGED Promise!vars
    BY <1>1, <1>9 DEF Send, Unauthorized, LoggedOut, TypeOK, NoReq
  <1>10. CASE StateExpires \/ UNCHANGED vars
    BY <1>1, <1>10 DEF StateExpires, vars
  <1> QED
    BY <1>4, <1>5, <1>6, <1>7, <1>8, <1>9, <1>10 DEF Next, Request

LEMMA PromiseInit == Init => Promise!Init
  <1> SUFFICES ASSUME Init PROVE Promise!Init
    OBVIOUS
  <1>1. \A k \in Tokens : Status(k) = "unissued"
    BY DEF Init, Status, Issued
  <1>2. \A q \in Requests : Serving(q) = Promise!Nothing
    BY DEF Init, Serving, NoReq, Promise!Nothing
  <1> QED
    BY <1>1, <1>2 DEF Init, Promise!Init

\* The sessions in memory, their cookies and the middleware implement AdminSession.
THEOREM RefinesSession == SafeSpec => ImplementsSession
  BY SessionsInvariance, PromiseInit, PromiseStep, PTL DEF SafeSpec, ImplementsSession, Promise!Spec

----
\* Putting a finite set in order

\* R is a strict total order on S.
Orders(R, S) ==
    /\ \A x \in S : <<x, x>> \notin R
    /\ \A x, y, z \in S : <<x, y>> \in R /\ <<y, z>> \in R => <<x, z>> \in R
    /\ \A x, y \in S : x # y => <<x, y>> \in R \/ <<y, x>> \in R

\* The place of x is the number of those before it.
Before(S, R, x) == Cardinality({y \in S : <<y, x>> \in R})

\* A member of a finite ordered set has fewer members before it than there are.
LEMMA BeforeBounded ==
  ASSUME NEW S, NEW R, IsFiniteSet(S), Orders(R, S), NEW x \in S
  PROVE  /\ IsFiniteSet({y \in S : <<y, x>> \in R})
         /\ Before(S, R, x) \in Nat
         /\ Before(S, R, x) \in 0..(Cardinality(S) - 1)
  <1> DEFINE B == {y \in S : <<y, x>> \in R}
  <1>1. B \subseteq S /\ B # S
    BY DEF Orders
  <1>2. IsFiniteSet(B) /\ Cardinality(B) <= Cardinality(S) /\ Cardinality(S) # Cardinality(B)
    BY <1>1, FS_Subset
  <1>3. Cardinality(B) \in Nat /\ Cardinality(S) \in Nat
    BY <1>2, FS_CardinalityType
  <1> HIDE DEF B
  <1>4. Cardinality(B) \in 0..(Cardinality(S) - 1)
    BY <1>2, <1>3
  <1> QED
    BY <1>2, <1>3, <1>4 DEF B, Before

\* The earlier of two has fewer before it.
LEMMA BeforeGrows ==
  ASSUME NEW S, NEW R, IsFiniteSet(S), Orders(R, S), NEW x \in S, NEW y \in S, <<x, y>> \in R
  PROVE  Before(S, R, x) < Before(S, R, y)
  <1> DEFINE A == {z \in S : <<z, x>> \in R}
             B == {z \in S : <<z, y>> \in R}
  <1>1. A \subseteq B /\ x \in B /\ x \notin A
    BY DEF Orders
  <1>2. IsFiniteSet(B) /\ Cardinality(B) \in Nat /\ IsFiniteSet(A) /\ Cardinality(A) \in Nat
    BY BeforeBounded, FS_CardinalityType
  <1>3. Cardinality(A) <= Cardinality(B) /\ Cardinality(A) # Cardinality(B)
    BY <1>1, <1>2, FS_Subset
  <1> HIDE DEF A, B
  <1>4. Cardinality(A) < Cardinality(B)
    BY <1>2, <1>3
  <1> QED
    BY <1>4 DEF A, B, Before

\* At every place below the size of the set there is exactly one member.
LEMMA OneAtEachPlace ==
  ASSUME NEW S, NEW R, IsFiniteSet(S), Orders(R, S)
  PROVE  /\ \A x, y \in S : Before(S, R, x) = Before(S, R, y) => x = y
         /\ \A i \in 1..Cardinality(S) : \E x \in S : Before(S, R, x) = i - 1
  <1> DEFINE n == Cardinality(S)
             place == [x \in S |-> Before(S, R, x)]
  <1>1. n \in Nat
    BY FS_CardinalityType
  <1>2. place \in [S -> 0..(n - 1)]
    <2>1. ASSUME NEW x \in S PROVE Before(S, R, x) \in 0..(n - 1)
      BY BeforeBounded
    <2> HIDE DEF n
    <2> QED
      BY <2>1
  <1>3. ASSUME NEW x \in S, NEW y \in S, Before(S, R, x) = Before(S, R, y) PROVE x = y
    <2> SUFFICES ASSUME x # y PROVE FALSE
      OBVIOUS
    <2>1. <<x, y>> \in R \/ <<y, x>> \in R
      BY DEF Orders
    <2>2. Before(S, R, x) \in Nat
      BY BeforeBounded
    <2>3. Before(S, R, y) \in Nat
      BY BeforeBounded
    <2> QED
      BY <1>3, <2>1, <2>2, <2>3, BeforeGrows
  <1>4. place \in Injection(S, 0..(n - 1))
    BY <1>2, <1>3 DEF Injection, IsInjective
  <1>5. IsFiniteSet(0..(n - 1)) /\ Cardinality(0..(n - 1)) = n
    <2> HIDE DEF n
    <2> QED
      BY <1>1, FS_Interval
  <1>6. place \in Surjection(S, 0..(n - 1))
    BY <1>4, <1>5, FS_Injection
  <1>7. ASSUME NEW i \in 1..n PROVE \E x \in S : Before(S, R, x) = i - 1
    <2>1. i - 1 \in 0..(n - 1)
      <3> HIDE DEF n
      <3> QED
        BY <1>1
    <2> QED
      BY <1>6, <2>1 DEF Surjection
  <1> QED
    BY <1>3, <1>7

\* Arranged lists every member of a finite ordered set once, in order.
LEMMA ArrangedLists ==
  ASSUME NEW S, NEW R, IsFiniteSet(S), Orders(R, S)
  PROVE  /\ Arranged(S, R) \in [1..Cardinality(S) -> S]
         /\ IsInjective(Arranged(S, R))
         /\ Range(Arranged(S, R)) = S
  <1> DEFINE n == Cardinality(S)
             a == Arranged(S, R)
  <1>1. n \in Nat
    BY FS_CardinalityType
  <1>2. DOMAIN a = 1..n
    BY DEF Arranged
  <1>3. ASSUME NEW i \in 1..n PROVE a[i] \in S /\ Before(S, R, a[i]) = i - 1
    <2>1. a[i] = CHOOSE x \in S : Before(S, R, x) = i - 1
      BY DEF Arranged, Before
    <2> QED
      BY <2>1, OneAtEachPlace
  <1>4. a \in [1..n -> S]
    BY <1>2, <1>3 DEF Arranged
  <1>5. IsInjective(a)
    <2> SUFFICES ASSUME NEW i \in 1..n, NEW j \in 1..n, a[i] = a[j] PROVE i = j
      BY <1>2 DEF IsInjective
    <2>1. i - 1 = j - 1
      BY <1>3
    <2> QED
      BY <1>1, <2>1
  <1>6. ASSUME NEW x \in S PROVE x \in Range(a)
    <2> DEFINE i == Before(S, R, x) + 1
    <2>1. Before(S, R, x) \in 0..(n - 1)
      BY BeforeBounded
    <2>2. i \in 1..n /\ i - 1 = Before(S, R, x)
      <3> HIDE DEF n
      <3> QED
        BY <1>1, <2>1
    <2>3. a[i] = x
      BY <1>3, <2>2, OneAtEachPlace
    <2> QED
      BY <1>2, <2>2, <2>3 DEF Range
  <1>7. Range(a) = S
    BY <1>2, <1>3, <1>6 DEF Range
  <1> QED
    BY <1>4, <1>5, <1>7

----
\* The orders of keys and of entries

KeyKinds == {"file", "prefix", "mark"}
Keys == Names \X KeyKinds
EntrySet == [name : Names, isDir : BOOLEAN]

LEMMA KeyOrders ==
  ASSUME NEW items \in SUBSET Keys
  PROVE  Orders(KeysBefore(items), items)
  <1> DEFINE R == KeysBefore(items)
  <1>1. ASSUME NEW x \in items PROVE /\ x[1] \in Nat /\ Rank(x) \in 0..2
                                    /\ x = <<x[1], x[2]>> /\ x[2] \in KeyKinds
    BY BrowseAssumption DEF Keys, KeyKinds, Rank
  <1>2. ASSUME NEW x \in items, NEW y \in items PROVE <<x, y>> \in R <=> KeyOrder(x, y)
    BY DEF KeysBefore
  <1>3. ASSUME NEW x \in items, NEW y \in items, x[1] = y[1], Rank(x) = Rank(y) PROVE x = y
    BY <1>1, <1>3 DEF Rank, KeyKinds
  <1>4. ASSUME NEW x \in items PROVE <<x, x>> \notin R
    BY <1>1, <1>2 DEF KeyOrder
  <1>5. ASSUME NEW x \in items, NEW y \in items, NEW z \in items,
               <<x, y>> \in R, <<y, z>> \in R
        PROVE  <<x, z>> \in R
    <2>1. KeyOrder(x, y) /\ KeyOrder(y, z)
      BY <1>2, <1>5
    <2>2. KeyOrder(x, z)
      BY <1>1, <2>1 DEF KeyOrder
    <2> QED
      BY <1>2, <2>2
  <1>6. ASSUME NEW x \in items, NEW y \in items, x # y
        PROVE  <<x, y>> \in R \/ <<y, x>> \in R
    <2>1. KeyOrder(x, y) \/ KeyOrder(y, x)
      BY <1>1, <1>3, <1>6 DEF KeyOrder
    <2> QED
      BY <1>2, <2>1
  <1> QED
    BY <1>4, <1>5, <1>6 DEF Orders

LEMMA PlaceOrders ==
  ASSUME NEW es \in Seq(EntrySet)
  PROVE  Orders(PlacesBefore(es), DOMAIN es)
  <1> DEFINE R == PlacesBefore(es)
             At == DOMAIN es
  <1>1. ASSUME NEW i \in At PROVE i \in Nat /\ es[i].name \in Nat /\ es[i].isDir \in BOOLEAN
    <2>1. At = 1..Len(es) /\ Len(es) \in Nat
      BY LenProperties
    <2>2. i \in 1..Len(es)
      BY <2>1
    <2>3. es[i] \in EntrySet
      BY <2>2, ElementOfSeq
    <2>4. es[i].name \in Names /\ es[i].isDir \in BOOLEAN
      BY <2>3 DEF EntrySet
    <2>5. es[i].name \in Nat
      BY <2>4, BrowseAssumption
    <2> QED
      BY <2>1, <2>4, <2>5
  <1>2. ASSUME NEW i \in At, NEW j \in At
        PROVE  <<i, j>> \in R <=> EntryOrder(es[i], es[j]) \/ (es[i] = es[j] /\ i < j)
    BY DEF PlacesBefore
  <1>3. ASSUME NEW i \in At, NEW j \in At, es[i].name = es[j].name, es[i].isDir = es[j].isDir
        PROVE  es[i] = es[j]
    <2>1. i \in 1..Len(es) /\ j \in 1..Len(es)
      BY LenProperties
    <2>2. es[i] \in EntrySet /\ es[j] \in EntrySet
      BY <2>1, ElementOfSeq
    <2> QED
      BY <1>3, <2>2 DEF EntrySet
  <1>4. ASSUME NEW i \in At PROVE <<i, i>> \notin R
    BY <1>1, <1>2 DEF EntryOrder
  <1>5. ASSUME NEW i \in At, NEW j \in At, NEW k \in At, <<i, j>> \in R, <<j, k>> \in R
        PROVE  <<i, k>> \in R
    <2>1. /\ EntryOrder(es[i], es[j]) \/ (es[i] = es[j] /\ i < j)
          /\ EntryOrder(es[j], es[k]) \/ (es[j] = es[k] /\ j < k)
      BY <1>2, <1>5
    <2>2. EntryOrder(es[i], es[j]) /\ EntryOrder(es[j], es[k]) => EntryOrder(es[i], es[k])
      BY <1>1 DEF EntryOrder
    <2>3. EntryOrder(es[i], es[k]) \/ (es[i] = es[k] /\ i < k)
      BY <1>1, <2>1, <2>2
    <2> QED
      BY <1>2, <2>3
  <1>6. ASSUME NEW i \in At, NEW j \in At, i # j
        PROVE  <<i, j>> \in R \/ <<j, i>> \in R
    <2>1. CASE es[i] = es[j]
      BY <1>1, <1>2, <1>6, <2>1
    <2>2. CASE es[i] # es[j]
      <3>1. EntryOrder(es[i], es[j]) \/ EntryOrder(es[j], es[i])
        BY <1>1, <1>3, <2>2 DEF EntryOrder
      <3> QED
        BY <1>2, <3>1
    <2> QED
      BY <2>1, <2>2
  <1> QED
    BY <1>4, <1>5, <1>6 DEF Orders

\* What is sorted keeps its entries, each as often as it was there.
LEMMA SortedListing ==
  ASSUME NEW es \in Seq(EntrySet)
  PROVE  /\ Sorted(es) \in Seq(EntrySet)
         /\ Len(Sorted(es)) = Len(es)
         /\ Range(Sorted(es)) = Range(es)
         /\ IsInjective(es) => IsInjective(Sorted(es))
  <1> DEFINE n == Len(es)
             places == Arranged(DOMAIN es, PlacesBefore(es))
             s == Sorted(es)
  <1>1. n \in Nat /\ DOMAIN es = 1..n /\ es \in [1..n -> EntrySet]
    BY LenProperties
  <1>2. IsFiniteSet(1..n) /\ Cardinality(1..n) = n
    <2> HIDE DEF n
    <2> QED
      BY <1>1, FS_Interval
  <1>3. /\ places \in [1..n -> 1..n]
        /\ IsInjective(places)
        /\ Range(places) = 1..n
    BY <1>1, <1>2, PlaceOrders, ArrangedLists
  <1> HIDE DEF n, places
  <1>4. s = [i \in 1..n |-> es[places[i]]]
    BY <1>1 DEF Sorted, places
  <1>5. s \in [1..n -> EntrySet]
    BY <1>1, <1>3, <1>4
  <1>6. s \in Seq(EntrySet) /\ Len(s) = n
    BY <1>1, <1>5
  <1>7. Range(s) = Range(es)
    <2>1. Range(s) = {es[places[i]] : i \in 1..n}
      BY <1>4 DEF Range
    <2>2. \A j \in 1..n : \E i \in 1..n : places[i] = j
      BY <1>3 DEF Range
    <2>3. Range(es) = {es[j] : j \in 1..n}
      BY <1>1 DEF Range
    <2>4. \A i \in 1..n : places[i] \in 1..n
      BY <1>3
    <2> HIDE DEF s
    <2>5. ASSUME NEW e PROVE e \in Range(s) <=> e \in Range(es)
      BY <2>1, <2>2, <2>3, <2>4
    <2> QED
      BY <2>5
  <1>8. IsInjective(es) => IsInjective(s)
    BY <1>1, <1>3, <1>4 DEF IsInjective
  <1> QED
    BY <1>6, <1>7, <1>8 DEF n

----
\* What a listing holds

\* Two keys of one entry are a prefix and its placeholder.
LEMMA SameEntry ==
  ASSUME NEW i \in Keys, NEW j \in Keys, Entry(i) = Entry(j), i # j
  PROVE  i[1] = j[1] /\ {i[2], j[2]} = {"prefix", "mark"}
  <1>1. /\ i = <<i[1], i[2]>> /\ i[2] \in KeyKinds
        /\ j = <<j[1], j[2]>> /\ j[2] \in KeyKinds
    BY DEF Keys
  <1>2. /\ Entry(i).name = i[1] /\ Entry(i).isDir = (i[2] # "file")
        /\ Entry(j).name = j[1] /\ Entry(j).isDir = (j[2] # "file")
    BY DEF Entry, File, Folder
  <1>3. i[1] = j[1] /\ (i[2] = "file" <=> j[2] = "file")
    BY <1>2
  <1>4. i[2] # j[2]
    BY <1>1, <1>3
  <1> QED
    BY <1>1, <1>3, <1>4 DEF KeyKinds

\* Keys in order: each once.
LEMMA ByKeyLists ==
  ASSUME NEW items \in SUBSET Keys, IsFiniteSet(items)
  PROVE  /\ ByKey(items) \in Seq(items)
         /\ IsInjective(ByKey(items))
         /\ Range(ByKey(items)) = items
  <1>1. Cardinality(items) \in Nat
    BY FS_CardinalityType
  <1>2. /\ ByKey(items) \in [1..Cardinality(items) -> items]
        /\ IsInjective(ByKey(items))
        /\ Range(ByKey(items)) = items
    BY KeyOrders, ArrangedLists DEF ByKey
  <1> QED
    BY <1>1, <1>2

\* Two sequences with nothing in common, each without repetition.
LEMMA ConcatInjective ==
  ASSUME NEW S, NEW s \in Seq(S), NEW t \in Seq(S), IsInjective(s), IsInjective(t),
         Range(s) \intersect Range(t) = {}
  PROVE  IsInjective(s \o t)
  <1> SUFFICES ASSUME NEW i \in 1..Len(s \o t), NEW j \in 1..Len(s \o t), (s \o t)[i] = (s \o t)[j]
               PROVE  i = j
    <2>1. s \o t \in Seq(S)
      BY ConcatProperties
    <2>2. DOMAIN (s \o t) = 1..Len(s \o t)
      BY <2>1, LenProperties
    <2> QED
      BY <2>2 DEF IsInjective
  <1>1. /\ Len(s \o t) = Len(s) + Len(t)
        /\ \A k \in 1..Len(s) + Len(t) : (s \o t)[k] = IF k <= Len(s) THEN s[k] ELSE t[k - Len(s)]
    BY ConcatProperties
  <1>2. /\ Len(s) \in Nat /\ DOMAIN s = 1..Len(s)
        /\ Len(t) \in Nat /\ DOMAIN t = 1..Len(t)
    BY LenProperties
  <1>3. \A k \in 1..Len(s), l \in 1..Len(t) : s[k] # t[l]
    BY <1>2 DEF Range
  <1>4. CASE i <= Len(s) /\ j <= Len(s)
    BY <1>1, <1>2, <1>4 DEF IsInjective
  <1>5. CASE i > Len(s) /\ j > Len(s)
    <2>1. i - Len(s) \in 1..Len(t) /\ j - Len(s) \in 1..Len(t)
      BY <1>1, <1>2, <1>5
    <2>2. t[i - Len(s)] = t[j - Len(s)]
      BY <1>1, <1>2, <1>5
    <2>3. i - Len(s) = j - Len(s)
      BY <1>2, <2>1, <2>2 DEF IsInjective
    <2> QED
      BY <1>2, <2>3
  <1>6. CASE i <= Len(s) /\ j > Len(s)
    <2>1. i \in 1..Len(s) /\ j - Len(s) \in 1..Len(t)
      BY <1>1, <1>2, <1>6
    <2>2. s[i] = t[j - Len(s)]
      BY <1>1, <1>2, <1>6
    <2> QED
      BY <1>3, <2>1, <2>2
  <1>7. CASE i > Len(s) /\ j <= Len(s)
    <2>1. j \in 1..Len(s) /\ i - Len(s) \in 1..Len(t)
      BY <1>1, <1>2, <1>7
    <2>2. s[j] = t[i - Len(s)]
      BY <1>1, <1>2, <1>7
    <2> QED
      BY <1>3, <2>1, <2>2
  <1> QED
    BY <1>1, <1>2, <1>4, <1>5, <1>6, <1>7

\* Client.List: the entries of the keys, each once, although a folder's prefix
\* and its placeholder are two keys.
LEMMA ListLists ==
  ASSUME NEW items \in SUBSET Keys, IsFiniteSet(items)
  PROVE  /\ List(items) \in Seq(EntrySet)
         /\ IsInjective(List(items))
         /\ Range(List(items)) = {Entry(i) : i \in items}
  <1> DEFINE prefixes == {i \in items : i[2] = "prefix"}
             contents == {i \in items \ prefixes : i[2] = "mark" => <<i[1], "prefix">> \notin prefixes}
             p == ByKey(prefixes)
             c == ByKey(contents)
             keys == p \o c
  <1>1. /\ prefixes \in SUBSET Keys /\ contents \in SUBSET Keys
        /\ IsFiniteSet(prefixes) /\ IsFiniteSet(contents)
    BY FS_Subset
  <1>2. /\ p \in Seq(prefixes) /\ IsInjective(p) /\ Range(p) = prefixes
        /\ c \in Seq(contents) /\ IsInjective(c) /\ Range(c) = contents
    BY <1>1, ByKeyLists
  <1>3. p \in Seq(items) /\ c \in Seq(items)
    BY <1>2, SeqMonotonic
  <1>4. prefixes \intersect contents = {}
    OBVIOUS
  <1>5. ASSUME NEW i \in prefixes \union contents, NEW j \in prefixes \union contents,
               Entry(i) = Entry(j)
        PROVE  i = j
    <2> SUFFICES ASSUME i # j PROVE FALSE
      OBVIOUS
    <2>1. i \in Keys /\ j \in Keys
      OBVIOUS
    <2>2. i[1] = j[1] /\ {i[2], j[2]} = {"prefix", "mark"}
      BY <1>5, <2>1, SameEntry
    <2>3. i = <<i[1], i[2]>> /\ j = <<j[1], j[2]>>
      BY <2>1 DEF Keys
    <2> QED
      BY <2>2, <2>3
  <1>6. ASSUME NEW i \in items PROVE \E j \in prefixes \union contents : Entry(j) = Entry(i)
    <2>1. CASE i \in prefixes \union contents
      BY <2>1
    <2>2. CASE i \notin prefixes \union contents
      <3>1. i[2] = "mark" /\ <<i[1], "prefix">> \in prefixes
        BY <2>2
      <3>2. Entry(<<i[1], "prefix">>) = Entry(i)
        BY <3>1 DEF Entry
      <3> QED
        BY <3>1, <3>2
    <2> QED
      BY <2>1, <2>2
  <1>7. ASSUME NEW i \in items PROVE Entry(i) \in EntrySet
    BY DEF Entry, File, Folder, Keys, EntrySet
  <1>8. prefixes \union contents \subseteq items
    OBVIOUS
  <1>9. List(items) = Entries(keys)
    BY DEF List
  <1> HIDE DEF prefixes, contents, p, c
  <1>10. IsInjective(keys) /\ keys \in Seq(items) /\ Range(keys) = prefixes \union contents
    BY <1>2, <1>3, <1>4, ConcatInjective, ConcatProperties, RangeConcatenation
  <1> HIDE DEF keys
  <1>11. Len(keys) \in Nat /\ DOMAIN keys = 1..Len(keys) /\ keys \in [1..Len(keys) -> items]
    BY <1>10, LenProperties
  <1>12. Entries(keys) = [k \in 1..Len(keys) |-> Entry(keys[k])]
    BY <1>11 DEF Entries
  <1>13. Entries(keys) \in [1..Len(keys) -> EntrySet]
    BY <1>7, <1>11, <1>12
  <1>14. \A k \in 1..Len(keys) : keys[k] \in prefixes \union contents
    BY <1>10, <1>11 DEF Range
  <1>15. IsInjective(Entries(keys))
    <2> SUFFICES ASSUME NEW k \in 1..Len(keys), NEW l \in 1..Len(keys),
                        Entry(keys[k]) = Entry(keys[l])
                 PROVE  k = l
      BY <1>12 DEF IsInjective
    <2>1. keys[k] = keys[l]
      BY <1>5, <1>14
    <2> QED
      BY <1>10, <1>11, <2>1 DEF IsInjective
  <1>16. Range(Entries(keys)) = {Entry(i) : i \in prefixes \union contents}
    <2>1. Range(Entries(keys)) = {Entry(keys[k]) : k \in 1..Len(keys)}
      BY <1>12 DEF Range
    <2>2. \A i \in prefixes \union contents : \E k \in 1..Len(keys) : keys[k] = i
      BY <1>10, <1>11 DEF Range
    <2>3. ASSUME NEW e PROVE e \in Range(Entries(keys)) <=> e \in {Entry(i) : i \in prefixes \union contents}
      BY <1>14, <2>1, <2>2
    <2> QED
      BY <2>3
  <1>17. {Entry(i) : i \in prefixes \union contents} = {Entry(i) : i \in items}
    BY <1>6, <1>8
  <1> QED
    BY <1>9, <1>11, <1>13, <1>15, <1>16, <1>17

LEMMA AnswersKeys ==
  ASSUME NEW b
  PROVE  Answers(b) \subseteq Keys
  BY DEF Answers, Keys, KeyKinds

\* The answer holds nothing but what the folder shows,
LEMMA AnswersShown ==
  ASSUME NEW b, NEW items \in SUBSET Answers(b)
  PROVE  {Entry(i) : i \in items} \subseteq Shown(b)
  <1> SUFFICES ASSUME NEW i \in items PROVE Entry(i) \in Shown(b)
    OBVIOUS
  <1>1. i \in Answers(b)
    OBVIOUS
  <1> QED
    BY <1>1 DEF Answers, Shown, Entry

\* and, when it is whole, all of that.
LEMMA DueShown ==
  ASSUME NEW b, NEW items \in SUBSET Answers(b), Due(b, items)
  PROVE  {Entry(i) : i \in items} = Shown(b)
  <1>1. ASSUME NEW n \in Names, b[n].object # None
        PROVE  \E i \in items : Entry(i) = File(n)
    <2>1. <<n, "file">> \in items
      BY <1>1 DEF Due
    <2>2. Entry(<<n, "file">>) = File(n)
      BY DEF Entry
    <2> QED
      BY <2>1, <2>2
  <1>2. ASSUME NEW n \in Names, b[n].deeper \/ b[n].placeholder
        PROVE  \E i \in items : Entry(i) = Folder(n)
    <2>1. <<n, "prefix">> \in items \/ <<n, "mark">> \in items
      BY <1>2 DEF Due
    <2>2. Entry(<<n, "prefix">>) = Folder(n) /\ Entry(<<n, "mark">>) = Folder(n)
      BY DEF Entry
    <2> QED
      BY <2>1, <2>2
  <1>3. ASSUME NEW e \in Shown(b) PROVE \E i \in items : Entry(i) = e
    <2>1. \/ \E n \in Names : b[n].object # None /\ e = File(n)
          \/ \E n \in Names : (b[n].deeper \/ b[n].placeholder) /\ e = Folder(n)
      BY DEF Shown
    <2> QED
      BY <1>1, <1>2, <2>1
  <1> QED
    BY <1>3, AnswersShown

LEMMA ShownFinite ==
  ASSUME NEW b
  PROVE  IsFiniteSet(Shown(b)) /\ Shown(b) \subseteq EntrySet
  <1> DEFINE f == [e \in EntrySet |-> <<e.name, e.isDir>>]
  <1>1. IsFiniteSet(Names)
    BY BrowseAssumption
  <1>2. IsFiniteSet({TRUE, FALSE})
    <2>1. IsFiniteSet({TRUE})
      BY FS_Singleton
    <2>2. IsFiniteSet({TRUE} \union {FALSE})
      BY <2>1, FS_AddElement
    <2>3. {TRUE} \union {FALSE} = {TRUE, FALSE}
      OBVIOUS
    <2> QED
      BY <2>2, <2>3
  <1>3. IsFiniteSet(Names \X BOOLEAN)
    <2>1. {TRUE, FALSE} = BOOLEAN
      OBVIOUS
    <2> QED
      BY <1>1, <1>2, <2>1, FS_Product
  <1>4. f \in [EntrySet -> Names \X BOOLEAN]
    BY DEF EntrySet
  <1>5. ASSUME NEW e \in EntrySet, NEW g \in EntrySet, f[e] = f[g] PROVE e = g
    BY <1>5 DEF EntrySet
  <1>6. f \in Injection(EntrySet, Names \X BOOLEAN)
    BY <1>4, <1>5 DEF Injection, IsInjective
  <1>7. IsFiniteSet(EntrySet)
    BY <1>3, <1>6, FS_Injection
  <1>8. Shown(b) \subseteq EntrySet
    <2>1. \A n \in Names : File(n) \in EntrySet /\ Folder(n) \in EntrySet
      BY DEF File, Folder, EntrySet
    <2> QED
      BY <2>1 DEF Shown
  <1> QED
    BY <1>7, <1>8, FS_Subset

\* An entry has one key or two.
LEMMA KeysOfEntries ==
  ASSUME NEW b, NEW items \in SUBSET Answers(b)
  PROVE  /\ IsFiniteSet(items)
         /\ Cardinality(items) <= 2 * Cardinality(Shown(b))
  <1> DEFINE second(i) == IF i[2] = "mark" THEN 2 ELSE 1
             f == [i \in items |-> <<Entry(i), second(i)>>]
             T == Shown(b) \X {1, 2}
  <1>1. f \in [items -> T]
    BY AnswersShown
  <1>2. ASSUME NEW i \in items, NEW j \in items, f[i] = f[j] PROVE i = j
    <2> SUFFICES ASSUME i # j PROVE FALSE
      OBVIOUS
    <2>1. Entry(i) = Entry(j) /\ second(i) = second(j)
      BY <1>2
    <2>2. {i[2], j[2]} = {"prefix", "mark"}
      BY <2>1, AnswersKeys, SameEntry
    <2> QED
      BY <2>1, <2>2
  <1>3. f \in Injection(items, T)
    BY <1>1, <1>2 DEF Injection, IsInjective
  <1>4. IsFiniteSet({1, 2}) /\ Cardinality({1, 2}) = 2
    <2>1. IsFiniteSet({1}) /\ Cardinality({1}) = 1
      BY FS_Singleton
    <2>2. /\ IsFiniteSet({1} \union {2})
          /\ Cardinality({1} \union {2}) = IF 2 \in {1} THEN Cardinality({1}) ELSE Cardinality({1}) + 1
      BY <2>1, FS_AddElement
    <2>3. {1} \union {2} = {1, 2}
      OBVIOUS
    <2> QED
      BY <2>1, <2>2, <2>3
  <1>5. IsFiniteSet(T) /\ Cardinality(T) = Cardinality(Shown(b)) * 2
    BY <1>4, ShownFinite, FS_Product
  <1>6. IsFiniteSet(items) /\ Cardinality(items) <= Cardinality(T)
    BY <1>3, <1>5, FS_Injection
  <1>7. Cardinality(Shown(b)) \in Nat /\ Cardinality(items) \in Nat
    BY <1>6, ShownFinite, FS_CardinalityType
  <1> HIDE DEF T
  <1> QED
    BY <1>5, <1>6, <1>7

\* COS cuts only an answer that is longer than MaxKeys.
LEMMA FirstKeysWhole ==
  ASSUME NEW items \in SUBSET Keys, IsFiniteSet(items)
  PROVE  /\ FirstKeys(items) \subseteq items
         /\ Cardinality(items) <= MaxKeys => FirstKeys(items) = items
  <1>1. FirstKeys(items) \subseteq items
    BY DEF FirstKeys
  <1>2. ASSUME Cardinality(items) <= MaxKeys, NEW i \in items PROVE i \in FirstKeys(items)
    <2>1. /\ Before(items, KeysBefore(items), i) \in Nat
          /\ Before(items, KeysBefore(items), i) \in 0..(Cardinality(items) - 1)
      BY KeyOrders, BeforeBounded
    <2>2. {j \in items : <<j, i>> \in KeysBefore(items)} = {j \in items : KeyOrder(j, i)}
      BY DEF KeysBefore
    <2>3. Cardinality({j \in items : KeyOrder(j, i)}) \in 0..(Cardinality(items) - 1)
      BY <2>1, <2>2 DEF Before
    <2>4. Cardinality(items) \in Nat /\ MaxKeys \in Nat
      BY FS_CardinalityType, BrowseAssumption
    <2>5. Cardinality({j \in items : KeyOrder(j, i)}) < MaxKeys
      BY <1>2, <2>3, <2>4
    <2> QED
      BY <2>5 DEF FirstKeys
  <1> QED
    BY <1>1, <1>2

\* What ListedOnce says of one listing, es, of a folder b.
Once(es, b) ==
    /\ Range(es) \subseteq Shown(b)
    /\ IsInjective(es)
    /\ 2 * Cardinality(Shown(b)) <= MaxKeys => Range(es) = Shown(b)
OnceEach(es, b) == es \in Seq(EntrySet) /\ Once(es, b)

LEMMA ListOnceEach ==
  ASSUME NEW b, NEW items \in SUBSET Answers(b), Due(b, items)
  PROVE  /\ OnceEach(List(FirstKeys(items)), b)
         /\ OnceEach(Sorted(List(FirstKeys(items))), b)
  <1> DEFINE some == FirstKeys(items)
             es == List(some)
  <1>1. items \in SUBSET Keys /\ IsFiniteSet(items) /\ Cardinality(items) <= 2 * Cardinality(Shown(b))
    BY AnswersKeys, KeysOfEntries
  <1>2. some \subseteq items /\ (Cardinality(items) <= MaxKeys => some = items)
    BY <1>1, FirstKeysWhole
  <1>3. IsFiniteSet(some) /\ some \in SUBSET Keys /\ some \in SUBSET Answers(b)
    BY <1>1, <1>2, FS_Subset
  <1> HIDE DEF some
  <1>4. es \in Seq(EntrySet) /\ IsInjective(es) /\ Range(es) = {Entry(i) : i \in some}
    BY <1>3, ListLists
  <1>5. Range(es) \subseteq Shown(b)
    BY <1>3, <1>4, AnswersShown
  <1>6. ASSUME 2 * Cardinality(Shown(b)) <= MaxKeys PROVE Range(es) = Shown(b)
    <2>1. Cardinality(items) \in Nat /\ Cardinality(Shown(b)) \in Nat /\ MaxKeys \in Nat
      BY <1>1, ShownFinite, FS_CardinalityType, BrowseAssumption
    <2>2. Cardinality(items) <= MaxKeys
      BY <1>1, <1>6, <2>1
    <2>3. some = items
      BY <1>2, <2>2
    <2> QED
      BY <1>4, <2>3, DueShown
  <1> HIDE DEF es
  <1>7. OnceEach(es, b)
    BY <1>4, <1>5, <1>6 DEF OnceEach, Once
  <1>8. OnceEach(Sorted(es), b)
    BY <1>4, <1>7, SortedListing DEF OnceEach, Once
  <1> QED
    BY <1>7, <1>8 DEF es, some

\* What is given next continues what was given.
LEMMA PageOn ==
  ASSUME NEW S, NEW s \in Seq(S), NEW o \in 0..Len(s), NEW n \in 0..(Len(s) - o)
  PROVE  /\ SubSeq(s, 1, o) \o SubSeq(s, o + 1, o + n) = SubSeq(s, 1, o + n)
         /\ Len(SubSeq(s, 1, o + n)) = o + n
  <1>1. Len(s) \in Nat
    BY LenProperties
  <1>2. o + n \in 0..Len(s)
    BY <1>1
  <1>3. \A i \in 1..(o + n) : s[i] \in S
    BY <1>1, <1>2, ElementOfSeq
  <1>4. Len(SubSeq(s, 1, o + n)) = o + n
    BY <1>1, <1>2, <1>3, SubSeqProperties
  <1>5. 1 \in 1..Len(s) + 1 /\ o \in (1 - 1)..Len(s) /\ o + n \in o..Len(s)
    BY <1>1
  <1>6. SubSeq(s, 1, o) \o SubSeq(s, o + 1, o + n) = SubSeq(s, 1, o + n)
    BY <1>5, ConcatAdjacentSubSeq
  <1> QED
    BY <1>4, <1>6

----
\* The inductive invariant

\* Nothing is handed over before it is listed.
Unlisted ==
    \A r \in Readers :
        pc[r] \notin {"pages", "over"} =>
            listed[r] = <<>> /\ shown[r] = <<>> /\ offset[r] = 0 /\ ~eof[r]

\* A content is there from Open on, and not logged before the copy is over.
Opened ==
    \A r \in Readers :
        /\ pc[r] \notin {"copy", "over"} => body[r] = None
        /\ pc[r] = "copy" => body[r] # None
        /\ pc[r] # "over" => ~logged[r]

BrowseInv == BrowseTypeOK /\ Unlisted /\ Opened /\ LoggedIfServed /\ ListedOnce /\ PagesWhole

LEMMA BrowseInitInv == BrowseInit => BrowseInv
  <1> SUFFICES ASSUME BrowseInit PROVE BrowseInv
    OBVIOUS
  <1>1. Names # {} /\ (CHOOSE n \in Names : TRUE) \in Names
    BY BrowseAssumption
  <1>2. BrowseTypeOK
    BY <1>1, EmptySeq DEF BrowseInit, BrowseTypeOK
  <1>3. Unlisted /\ Opened /\ LoggedIfServed /\ ListedOnce
    BY DEF BrowseInit, Unlisted, Opened, LoggedIfServed, ListedOnce
  <1>4. PagesWhole
    <2>1. SubSeq(<<>>, 1, Len(<<>>)) = <<>>
      OBVIOUS
    <2> QED
      BY <2>1 DEF BrowseInit, PagesWhole
  <1> QED
    BY <1>2, <1>3, <1>4 DEF BrowseInv

\* Every way to hand a listing over gives a next page, and says that it is the
\* last only when it gives all that is left.
LEMMA Paging ==
  ASSUME BrowseTypeOK, NEW r \in Readers, Readdir(r) \/ ListAt(r) \/ Encode(r)
  PROVE  /\ pc[r] = "pages"
         /\ \E n \in 0..Left(r), last \in BOOLEAN :
               Give(r, n, last) /\ (last => n = Left(r))
  <1>1. Left(r) \in Nat
    <2>1. Len(listed[r]) \in Nat /\ offset[r] \in Nat /\ offset[r] <= Len(listed[r])
      BY LenProperties DEF BrowseTypeOK
    <2> QED
      BY <2>1 DEF Left
  <1>2. Left(r) \in 0..Left(r)
    BY <1>1
  <1>3. ASSUME NEW n \in 1..PageSize, n <= Left(r) PROVE n \in 0..Left(r)
    BY <1>1, <1>3, BrowseAssumption
  <1>4. CASE Readdir(r)
    <2>1. CASE Give(r, Left(r), TRUE)
      BY <1>2, <1>4, <2>1 DEF Readdir
    <2>2. CASE \E n \in 1..PageSize : n < Left(r) /\ Give(r, n, FALSE)
      <3>1. PICK n \in 1..PageSize : n < Left(r) /\ Give(r, n, FALSE)
        BY <2>2
      <3>2. n <= Left(r)
        BY <1>1, <3>1, BrowseAssumption
      <3> QED
        BY <1>3, <1>4, <3>1, <3>2 DEF Readdir
    <2> QED
      BY <1>4, <2>1, <2>2 DEF Readdir
  <1>5. CASE ListAt(r)
    <2>1. CASE Give(r, Left(r), TRUE)
      BY <1>2, <1>5, <2>1 DEF ListAt
    <2>2. CASE \E n \in 1..PageSize : n <= Left(r) /\ Give(r, n, FALSE)
      BY <1>3, <1>5, <2>2 DEF ListAt
    <2> QED
      BY <1>5, <2>1, <2>2 DEF ListAt
  <1>6. CASE Encode(r)
    BY <1>2, <1>6 DEF Encode
  <1> QED
    BY <1>4, <1>5, <1>6

----
\* Each step keeps it.

\* The steps of Next, with the three ways to hand over a page as one.
LEMMA Steps ==
  ASSUME BrowseNext
  PROVE  \/ Change
         \/ \E r \in Readers :
               \/ BeginDownload(r) \/ Stat(r) \/ Open(r) \/ NotServed(r)
               \/ Copy(r) \/ CopyFails(r) \/ CopyEnds(r)
               \/ BeginList(r) \/ ReadDir(r) \/ ListFails(r)
               \/ (Readdir(r) \/ ListAt(r) \/ Encode(r)) \/ CloseDir(r)
               \/ Again(r)
  BY DEF BrowseNext

LEMMA ChildrenFacts ==
  ASSUME NEW c \in Children
  PROVE  c.object \in Versions \union {None}
  BY BrowseAssumption

\* Give keeps to what is listed.
LEMMA GiveTyped ==
  ASSUME BrowseTypeOK, NEW r \in Readers, NEW n \in 0..Left(r), NEW last \in BOOLEAN,
         Give(r, n, last)
  PROVE  /\ shown'[r] \in Seq(EntrySet) /\ Len(shown'[r]) = Len(shown[r]) + n
         /\ offset'[r] = offset[r] + n /\ offset'[r] \in Nat /\ offset'[r] <= Len(listed[r])
         /\ \A q \in Readers : q # r => /\ shown'[q] = shown[q] /\ offset'[q] = offset[q]
                                       /\ eof'[q] = eof[q]
         /\ eof'[r] = last
         /\ DOMAIN shown' = Readers /\ DOMAIN offset' = Readers
         /\ shown' \in [Readers -> Seq(EntrySet)]
  <1> DEFINE page == SubSeq(listed[r], offset[r] + 1, offset[r] + n)
  <1>1. /\ listed[r] \in Seq(EntrySet) /\ shown[r] \in Seq(EntrySet)
        /\ offset[r] \in Nat /\ offset[r] <= Len(listed[r])
        /\ DOMAIN shown = Readers /\ DOMAIN offset = Readers /\ DOMAIN eof = Readers
    BY DEF BrowseTypeOK, EntrySet
  <1>2. Len(listed[r]) \in Nat /\ n \in Nat /\ offset[r] + n <= Len(listed[r])
    BY <1>1, LenProperties DEF Left
  <1>3. \A i \in (offset[r] + 1)..(offset[r] + n) : listed[r][i] \in EntrySet
    BY <1>1, <1>2, ElementOfSeq
  <1>4. page \in Seq(EntrySet) /\ Len(page) = n
    <2>1. /\ page \in Seq(EntrySet)
          /\ Len(page) = IF offset[r] + 1 <= offset[r] + n THEN offset[r] + n - (offset[r] + 1) + 1 ELSE 0
      BY <1>1, <1>2, <1>3, SubSeqProperties
    <2> HIDE DEF page
    <2> QED
      BY <1>1, <1>2, <2>1
  <1> HIDE DEF page
  <1>5. shown[r] \o page \in Seq(EntrySet) /\ Len(shown[r] \o page) = Len(shown[r]) + n
    BY <1>1, <1>4, ConcatProperties
  <1>6. shown' = [shown EXCEPT ![r] = shown[r] \o page]
    BY DEF Give, page
  <1>7. shown' \in [Readers -> Seq(EntrySet)]
    BY <1>5, <1>6 DEF BrowseTypeOK, EntrySet
  <1>8. offset' = [offset EXCEPT ![r] = offset[r] + n] /\ eof' = [eof EXCEPT ![r] = last]
    BY DEF Give
  <1> QED
    BY <1>1, <1>2, <1>5, <1>6, <1>7, <1>8

LEMMA BrowseTypeStep == BrowseTypeOK /\ Unlisted /\ Opened /\ [BrowseNext]_browseVars => BrowseTypeOK'
  <1> SUFFICES ASSUME BrowseTypeOK, Unlisted, Opened, [BrowseNext]_browseVars PROVE BrowseTypeOK'
    OBVIOUS
  <1>1. (CHOOSE n \in Names : TRUE) \in Names
    BY BrowseAssumption
  <1>2. None \notin Versions /\ \A v \in Versions : Size[v] \in Nat
    BY BrowseAssumption
  <1>3. \A r \in Readers, n \in Names : bucket[n].object \in Versions \union {None}
    BY ChildrenFacts DEF BrowseTypeOK
  <1>4. CASE Change
    <2>1. bucket' \in [Names -> Children]
      BY <1>4 DEF Change, BrowseTypeOK
    <2> QED
      BY <1>4, <2>1 DEF Change, download, listing, BrowseTypeOK
  <1>5. ASSUME NEW r \in Readers, BeginDownload(r) PROVE BrowseTypeOK'
    BY <1>5 DEF BeginDownload, Goto, listing, BrowseTypeOK
  <1>6. ASSUME NEW r \in Readers, Stat(r) PROVE BrowseTypeOK'
    <2>1. name[r] \in Names
      BY DEF BrowseTypeOK
    <2>2. Size[bucket[name[r]].object] \in Nat
      BY <1>2, <1>3, <1>6, <2>1 DEF Stat
    <2> QED
      BY <1>6, <2>2 DEF Stat, Goto, listing, BrowseTypeOK
  <1>7. ASSUME NEW r \in Readers, Open(r) PROVE BrowseTypeOK'
    <2>1. name[r] \in Names /\ body[r] = None
      BY <1>7 DEF Open, Opened, BrowseTypeOK
    <2>2. bucket[name[r]].object \in Versions
      BY <1>3, <1>7, <2>1 DEF Open
    <2>3. sent[r] = 0
      BY <2>1 DEF BrowseTypeOK
    <2>4. /\ body' = [body EXCEPT ![r] = bucket[name[r]].object]
          /\ UNCHANGED <<bucket, name, promised, sent, logged, listing>>
          /\ pc' = [pc EXCEPT ![r] = "copy"]
      BY <1>7 DEF Open, Goto
    <2>5. body' \in [Readers -> Versions \union {None}] /\ body'[r] = bucket[name[r]].object
      BY <2>2, <2>4 DEF BrowseTypeOK
    <2>6. Size[body'[r]] \in Nat /\ body'[r] # None
      BY <1>2, <2>2, <2>5
    <2>7. \A q \in Readers : sent'[q] <= (IF body'[q] = None THEN 0 ELSE Size[body'[q]])
      BY <2>3, <2>4, <2>5, <2>6 DEF BrowseTypeOK
    <2> QED
      BY <2>4, <2>5, <2>7 DEF listing, BrowseTypeOK
  <1>8. ASSUME NEW r \in Readers, NotServed(r) \/ CopyFails(r) \/ ListFails(r) \/ CloseDir(r)
        PROVE  BrowseTypeOK'
    <2>1. pc' = [pc EXCEPT ![r] = "over"] /\ UNCHANGED <<bucket, download, listing>>
      BY <1>8 DEF NotServed, CopyFails, ListFails, CloseDir, Over, Goto
    <2> QED
      BY <2>1 DEF download, listing, BrowseTypeOK
  <1>9. ASSUME NEW r \in Readers, Copy(r) PROVE BrowseTypeOK'
    <2>1. body[r] \in Versions /\ Size[body[r]] \in Nat /\ sent[r] \in Nat /\ body[r] # None
      BY <1>2, <1>9 DEF Copy, Opened, BrowseTypeOK
    <2>2. sent[r] + 1 <= Size[body[r]]
      BY <1>9, <2>1 DEF Copy
    <2>3. sent' = [sent EXCEPT ![r] = sent[r] + 1] /\ UNCHANGED <<bucket, pc, name, promised, body, logged, listing>>
      BY <1>9 DEF Copy
    <2>4. sent' \in [Readers -> Nat]
      BY <2>1, <2>3 DEF BrowseTypeOK
    <2>5. \A q \in Readers : sent'[q] <= (IF body'[q] = None THEN 0 ELSE Size[body'[q]])
      BY <2>1, <2>2, <2>3 DEF BrowseTypeOK
    <2> QED
      BY <2>3, <2>4, <2>5 DEF listing, BrowseTypeOK
  <1>10. ASSUME NEW r \in Readers, CopyEnds(r) PROVE BrowseTypeOK'
    <2>1. /\ pc' = [pc EXCEPT ![r] = "over"] /\ logged' = [logged EXCEPT ![r] = TRUE]
          /\ UNCHANGED <<bucket, name, promised, body, sent, listing>>
      BY <1>10 DEF CopyEnds, Over, Goto
    <2> QED
      BY <2>1 DEF listing, BrowseTypeOK
  <1>11. ASSUME NEW r \in Readers, BeginList(r) PROVE BrowseTypeOK'
    <2>1. /\ pc' = [pc EXCEPT ![r] = "list"]
          /\ \E v \in {"admin", "ftp", "sftp"} : via' = [via EXCEPT ![r] = v]
          /\ UNCHANGED <<bucket, download, held, listed, offset, shown, eof>>
      BY <1>11 DEF BeginList, Goto
    <2> QED
      BY <2>1 DEF download, BrowseTypeOK
  <1>12. ASSUME NEW r \in Readers, ReadDir(r) PROVE BrowseTypeOK'
    <2>1. PICK es \in Seq(EntrySet) : listed' = [listed EXCEPT ![r] = es]
      BY <1>12, ListOnceEach DEF ReadDir, OnceEach
    <2>2. /\ pc' = [pc EXCEPT ![r] = "pages"] /\ held' = [held EXCEPT ![r] = bucket]
          /\ UNCHANGED <<bucket, download, via, offset, shown, eof>>
      BY <1>12 DEF ReadDir, Goto
    <2>3. offset[r] = 0 /\ Len(es) \in Nat
      BY <1>12, LenProperties DEF ReadDir, Unlisted
    <2>4. listed' \in [Readers -> Seq(EntrySet)]
      BY <2>1 DEF BrowseTypeOK, EntrySet
    <2>5. \A q \in Readers : offset'[q] <= Len(listed'[q])
      BY <2>1, <2>2, <2>3 DEF BrowseTypeOK
    <2> QED
      BY <2>2, <2>4, <2>5 DEF download, BrowseTypeOK, EntrySet
  <1>13. ASSUME NEW r \in Readers, Readdir(r) \/ ListAt(r) \/ Encode(r) PROVE BrowseTypeOK'
    <2>1. PICK n \in 0..Left(r) : \E last \in BOOLEAN : Give(r, n, last)
      BY <1>13, Paging
    <2>2. PICK last \in BOOLEAN : Give(r, n, last)
      BY <2>1
    <2>3. /\ eof' = [eof EXCEPT ![r] = last]
          /\ UNCHANGED <<bucket, pc, download, via, held, listed>>
          /\ offset' = [offset EXCEPT ![r] = offset[r] + n]
      BY <2>2 DEF Give
    <2>4. /\ Len(shown'[r]) = Len(shown[r]) + n
          /\ offset'[r] = offset[r] + n /\ offset'[r] \in Nat /\ offset'[r] <= Len(listed[r])
          /\ \A q \in Readers : q # r => shown'[q] = shown[q] /\ offset'[q] = offset[q]
          /\ shown' \in [Readers -> Seq(EntrySet)]
      BY <2>2, GiveTyped
    <2>5. offset' \in [Readers -> Nat]
      BY <2>3, <2>4 DEF BrowseTypeOK
    <2>6. \A q \in Readers : offset'[q] <= Len(listed'[q]) /\ Len(shown'[q]) = offset'[q]
      BY <2>3, <2>4 DEF BrowseTypeOK
    <2> QED
      BY <2>3, <2>4, <2>5, <2>6 DEF download, BrowseTypeOK, EntrySet
  <1>14. ASSUME NEW r \in Readers, Again(r) PROVE BrowseTypeOK'
    <2>1. /\ pc' = [pc EXCEPT ![r] = "idle"] /\ name' = [name EXCEPT ![r] = CHOOSE n \in Names : TRUE]
          /\ via' = [via EXCEPT ![r] = "admin"] /\ promised' = [promised EXCEPT ![r] = 0]
          /\ body' = [body EXCEPT ![r] = None] /\ sent' = [sent EXCEPT ![r] = 0]
          /\ logged' = [logged EXCEPT ![r] = FALSE] /\ eof' = [eof EXCEPT ![r] = FALSE]
          /\ held' = [held EXCEPT ![r] = bucket] /\ bucket' = bucket
      BY <1>14 DEF Again, Goto
    <2>2. /\ listed' = [listed EXCEPT ![r] = <<>>] /\ shown' = [shown EXCEPT ![r] = <<>>]
          /\ offset' = [offset EXCEPT ![r] = 0]
      BY <1>14 DEF Again
    <2>3. <<>> \in Seq([name : Names, isDir : BOOLEAN]) /\ Len(<<>>) = 0
      BY EmptySeq
    <2>4. /\ listed' \in [Readers -> Seq([name : Names, isDir : BOOLEAN])]
          /\ shown' \in [Readers -> Seq([name : Names, isDir : BOOLEAN])]
          /\ offset' \in [Readers -> Nat]
      BY <2>2, <2>3 DEF BrowseTypeOK
    <2>5. /\ \A q \in Readers : sent'[q] <= (IF body'[q] = None THEN 0 ELSE Size[body'[q]])
          /\ \A q \in Readers : offset'[q] <= Len(listed'[q]) /\ Len(shown'[q]) = offset'[q]
      BY <2>1, <2>2, <2>3 DEF BrowseTypeOK
    <2> QED
      BY <1>1, <2>1, <2>4, <2>5 DEF BrowseTypeOK
  <1>15. CASE UNCHANGED browseVars
    BY <1>15 DEF browseVars, BrowseTypeOK
  <1> QED
    BY <1>4, <1>5, <1>6, <1>7, <1>8, <1>9, <1>10, <1>11, <1>12, <1>13, <1>14, <1>15, Steps

LEMMA UnlistedStep == BrowseTypeOK /\ Unlisted /\ [BrowseNext]_browseVars => Unlisted'
  <1> SUFFICES ASSUME BrowseTypeOK, Unlisted, [BrowseNext]_browseVars PROVE Unlisted'
    OBVIOUS
  <1>1. CASE Change \/ UNCHANGED browseVars
    BY <1>1 DEF Change, listing, browseVars, Unlisted
  <1>2. ASSUME NEW r \in Readers,
               \/ BeginDownload(r) \/ Stat(r) \/ Open(r) \/ NotServed(r) \/ Copy(r) \/ CopyFails(r)
               \/ CopyEnds(r) \/ BeginList(r) \/ ListFails(r) \/ CloseDir(r)
        PROVE  Unlisted'
    <2>1. /\ UNCHANGED <<listed, shown, offset, eof>>
          /\ \A q \in Readers : pc'[q] \notin {"pages", "over"} => pc[q] \notin {"pages", "over"}
      BY <1>2 DEF BeginDownload, Stat, Open, NotServed, Copy, CopyFails, CopyEnds, BeginList,
                  ListFails, CloseDir, Over, Goto, listing, BrowseTypeOK
    <2> QED
      BY <2>1 DEF Unlisted
  <1>3. ASSUME NEW r \in Readers, ReadDir(r) PROVE Unlisted'
    <2>1. pc' = [pc EXCEPT ![r] = "pages"] /\ UNCHANGED <<offset, shown, eof>>
      BY <1>3 DEF ReadDir, Goto
    <2>2. \A q \in Readers : q # r => listed'[q] = listed[q]
      BY <1>3 DEF ReadDir, BrowseTypeOK
    <2> QED
      BY <2>1, <2>2 DEF Unlisted, BrowseTypeOK
  <1>4. ASSUME NEW r \in Readers, Readdir(r) \/ ListAt(r) \/ Encode(r) PROVE Unlisted'
    <2>1. PICK n \in 0..Left(r) : \E last \in BOOLEAN : Give(r, n, last)
      BY <1>4, Paging
    <2>2. PICK last \in BOOLEAN : Give(r, n, last)
      BY <2>1
    <2>3. pc[r] = "pages" /\ UNCHANGED <<pc, listed>>
      BY <1>4, <2>2, Paging DEF Give
    <2>4. \A q \in Readers : q # r => /\ shown'[q] = shown[q] /\ offset'[q] = offset[q]
                                     /\ eof'[q] = eof[q]
      BY <2>2, GiveTyped
    <2> QED
      BY <2>3, <2>4 DEF Unlisted
  <1>5. ASSUME NEW r \in Readers, Again(r) PROVE Unlisted'
    <2>1. /\ pc' = [pc EXCEPT ![r] = "idle"]
          /\ listed' = [listed EXCEPT ![r] = <<>>] /\ shown' = [shown EXCEPT ![r] = <<>>]
          /\ offset' = [offset EXCEPT ![r] = 0] /\ eof' = [eof EXCEPT ![r] = FALSE]
      BY <1>5 DEF Again, Goto
    <2> QED
      BY <2>1 DEF Unlisted, BrowseTypeOK
  <1> QED
    BY <1>1, <1>2, <1>3, <1>4, <1>5, Steps

\* The audit event and the bytes that were sent go together.
LEMMA ServedStep ==
  BrowseTypeOK /\ Opened /\ LoggedIfServed /\ [BrowseNext]_browseVars => Opened' /\ LoggedIfServed'
  <1> SUFFICES ASSUME BrowseTypeOK, Opened, LoggedIfServed, [BrowseNext]_browseVars
               PROVE  Opened' /\ LoggedIfServed'
    OBVIOUS
  <1> USE DEF Opened, LoggedIfServed
  <1>1. CASE Change \/ UNCHANGED browseVars
    BY <1>1 DEF Change, download, browseVars
  <1>2. ASSUME NEW r \in Readers,
               \/ BeginDownload(r) \/ Stat(r) \/ NotServed(r)
               \/ BeginList(r) \/ ReadDir(r) \/ ListFails(r) \/ CloseDir(r)
        PROVE  Opened' /\ LoggedIfServed'
    <2>1. /\ UNCHANGED <<body, sent, logged>>
          /\ pc[r] \notin {"copy", "over"} /\ pc'[r] # "copy"
          /\ \A q \in Readers : q # r => pc'[q] = pc[q]
      BY <1>2 DEF BeginDownload, Stat, NotServed, BeginList, ReadDir, ListFails, CloseDir,
                  Over, Goto, download, BrowseTypeOK
    <2> QED
      BY <2>1
  <1>3. ASSUME NEW r \in Readers, Open(r) PROVE Opened' /\ LoggedIfServed'
    <2>1. /\ pc[r] = "open" /\ pc' = [pc EXCEPT ![r] = "copy"] /\ UNCHANGED <<sent, logged>>
          /\ bucket[name[r]].object # None
          /\ body' = [body EXCEPT ![r] = bucket[name[r]].object]
      BY <1>3 DEF Open, Goto
    <2> QED
      BY <2>1 DEF BrowseTypeOK
  <1>4. ASSUME NEW r \in Readers, Copy(r) PROVE Opened' /\ LoggedIfServed'
    <2>1. /\ pc[r] = "copy" /\ UNCHANGED <<pc, body, logged>>
          /\ \A q \in Readers : q # r => sent'[q] = sent[q]
      BY <1>4 DEF Copy, BrowseTypeOK
    <2> QED
      BY <2>1
  <1>5. ASSUME NEW r \in Readers, CopyFails(r) PROVE Opened' /\ LoggedIfServed'
    <2>1. /\ pc[r] = "copy" /\ sent[r] < Size[body[r]] /\ UNCHANGED <<body, sent, logged>>
          /\ pc' = [pc EXCEPT ![r] = "over"]
      BY <1>5 DEF CopyFails, Over, Goto, download
    <2>2. sent[r] \in Nat /\ body[r] \in Versions /\ Size[body[r]] \in Nat
      BY <2>1, BrowseAssumption DEF BrowseTypeOK
    <2>3. sent[r] # Size[body[r]] /\ ~logged[r]
      BY <2>1, <2>2
    <2> QED
      BY <2>1, <2>3 DEF BrowseTypeOK
  <1>6. ASSUME NEW r \in Readers, CopyEnds(r) PROVE Opened' /\ LoggedIfServed'
    <2>1. /\ pc[r] = "copy" /\ sent[r] = Size[body[r]] /\ UNCHANGED <<body, sent>>
          /\ pc' = [pc EXCEPT ![r] = "over"] /\ logged' = [logged EXCEPT ![r] = TRUE]
      BY <1>6 DEF CopyEnds, Over, Goto
    <2> QED
      BY <2>1 DEF BrowseTypeOK
  <1>7. ASSUME NEW r \in Readers, Readdir(r) \/ ListAt(r) \/ Encode(r) PROVE Opened' /\ LoggedIfServed'
    <2>1. UNCHANGED <<pc, body, sent, logged>>
      BY <1>7, Paging DEF Give, download
    <2> QED
      BY <2>1
  <1>8. ASSUME NEW r \in Readers, Again(r) PROVE Opened' /\ LoggedIfServed'
    <2>1. /\ pc' = [pc EXCEPT ![r] = "idle"] /\ body' = [body EXCEPT ![r] = None]
          /\ sent' = [sent EXCEPT ![r] = 0] /\ logged' = [logged EXCEPT ![r] = FALSE]
      BY <1>8 DEF Again, Goto
    <2> QED
      BY <2>1 DEF BrowseTypeOK
  <1> QED
    BY <1>1, <1>2, <1>3, <1>4, <1>5, <1>6, <1>7, <1>8, Steps

\* Only ReadDir makes a listing, and it makes one of the folder as it is then.
LEMMA ListedStep == BrowseTypeOK /\ ListedOnce /\ [BrowseNext]_browseVars => ListedOnce'
  <1> SUFFICES ASSUME BrowseTypeOK, ListedOnce, [BrowseNext]_browseVars PROVE ListedOnce'
    OBVIOUS
  <1>1. ASSUME UNCHANGED <<listed, held>> PROVE ListedOnce'
    BY <1>1 DEF ListedOnce, Shown
  <1>2. ASSUME NEW r \in Readers, ReadDir(r) PROVE ListedOnce'
    <2>1. PICK es : listed' = [listed EXCEPT ![r] = es] /\ OnceEach(es, bucket)
      BY <1>2, ListOnceEach DEF ReadDir
    <2>2. held' = [held EXCEPT ![r] = bucket]
      BY <1>2 DEF ReadDir
    <2>3. /\ listed'[r] = es /\ held'[r] = bucket
          /\ \A q \in Readers : q # r => listed'[q] = listed[q] /\ held'[q] = held[q]
      BY <2>1, <2>2 DEF BrowseTypeOK
    <2>4. \A q \in Readers : listed'[q] # <<>> => Once(listed'[q], held'[q])
      BY <2>1, <2>3 DEF ListedOnce, OnceEach, Once
    <2> QED
      BY <2>4 DEF ListedOnce, Once, Shown
  <1>3. ASSUME NEW r \in Readers, Again(r) PROVE ListedOnce'
    <2>1. listed' = [listed EXCEPT ![r] = <<>>] /\ held' = [held EXCEPT ![r] = bucket]
      BY <1>3 DEF Again
    <2>2. /\ listed'[r] = <<>>
          /\ \A q \in Readers : q # r => listed'[q] = listed[q] /\ held'[q] = held[q]
      BY <2>1 DEF BrowseTypeOK
    <2>3. \A q \in Readers : listed'[q] # <<>> => Once(listed'[q], held'[q])
      BY <2>2 DEF ListedOnce, Once
    <2> QED
      BY <2>3 DEF ListedOnce, Once, Shown
  <1>4. CASE Change \/ UNCHANGED browseVars
    BY <1>1, <1>4 DEF Change, listing, browseVars
  <1>5. ASSUME NEW r \in Readers,
               \/ BeginDownload(r) \/ Stat(r) \/ Open(r) \/ NotServed(r)
               \/ Copy(r) \/ CopyFails(r) \/ CopyEnds(r)
               \/ BeginList(r) \/ ListFails(r) \/ CloseDir(r)
        PROVE  ListedOnce'
    BY <1>1, <1>5 DEF BeginDownload, Stat, Open, NotServed, Copy, CopyFails, CopyEnds, BeginList,
                      ListFails, CloseDir, listing
  <1>6. ASSUME NEW r \in Readers, Readdir(r) \/ ListAt(r) \/ Encode(r) PROVE ListedOnce'
    BY <1>1, <1>6, Paging DEF Give
  <1> QED
    BY <1>2, <1>3, <1>4, <1>5, <1>6, Steps

LEMMA PagesStep ==
  BrowseTypeOK /\ Unlisted /\ PagesWhole /\ [BrowseNext]_browseVars => PagesWhole'
  <1> SUFFICES ASSUME BrowseTypeOK, Unlisted, PagesWhole, [BrowseNext]_browseVars PROVE PagesWhole'
    OBVIOUS
  <1>1. ASSUME UNCHANGED <<listed, shown, eof>> PROVE PagesWhole'
    BY <1>1 DEF PagesWhole
  <1>2. ASSUME NEW s PROVE SubSeq(s, 1, 0) = <<>>
    BY SubSeqEmpty
  <1>3. ASSUME NEW r \in Readers, ReadDir(r) PROVE PagesWhole'
    <2>1. shown[r] = <<>> /\ ~eof[r] /\ UNCHANGED <<shown, eof>>
      BY <1>3 DEF ReadDir, Unlisted
    <2>2. \A q \in Readers : q # r => listed'[q] = listed[q]
      BY <1>3 DEF ReadDir, BrowseTypeOK
    <2>3. shown'[r] = SubSeq(listed'[r], 1, Len(shown'[r]))
      BY <1>2, <2>1
    <2> QED
      BY <2>1, <2>2, <2>3 DEF PagesWhole
  <1>4. ASSUME NEW r \in Readers, Again(r) PROVE PagesWhole'
    <2>1. /\ listed' = [listed EXCEPT ![r] = <<>>] /\ shown' = [shown EXCEPT ![r] = <<>>]
          /\ eof' = [eof EXCEPT ![r] = FALSE]
      BY <1>4 DEF Again
    <2>2. shown'[r] = <<>> /\ listed'[r] = <<>> /\ eof'[r] = FALSE
      BY <2>1 DEF BrowseTypeOK
    <2>3. shown'[r] = SubSeq(listed'[r], 1, Len(shown'[r]))
      BY <1>2, <2>2
    <2>4. \A q \in Readers : q # r => shown'[q] = shown[q] /\ listed'[q] = listed[q] /\ eof'[q] = eof[q]
      BY <2>1 DEF BrowseTypeOK
    <2> QED
      BY <2>2, <2>3, <2>4 DEF PagesWhole
  <1>5. ASSUME NEW r \in Readers, Readdir(r) \/ ListAt(r) \/ Encode(r) PROVE PagesWhole'
    <2>1. PICK n \in 0..Left(r) : \E last \in BOOLEAN : Give(r, n, last) /\ (last => n = Left(r))
      BY <1>5, Paging
    <2>2. PICK last \in BOOLEAN : Give(r, n, last) /\ (last => n = Left(r))
      BY <2>1
    <2>3. /\ \A q \in Readers : q # r => shown'[q] = shown[q] /\ eof'[q] = eof[q]
          /\ eof'[r] = last /\ listed' = listed
      BY <2>2, GiveTyped DEF Give
    <2>4. /\ listed[r] \in Seq(EntrySet) /\ Len(shown[r]) = offset[r]
          /\ offset[r] \in Nat /\ offset[r] <= Len(listed[r])
      BY DEF BrowseTypeOK, EntrySet
    <2>5. Len(listed[r]) \in Nat /\ offset[r] \in 0..Len(listed[r])
      BY <2>4, LenProperties
    <2>6. shown[r] = SubSeq(listed[r], 1, offset[r])
      BY <2>4 DEF PagesWhole
    <2>7. shown'[r] = shown[r] \o SubSeq(listed[r], offset[r] + 1, offset[r] + n)
      BY <2>2 DEF Give, BrowseTypeOK
    <2>8. /\ shown'[r] = SubSeq(listed[r], 1, offset[r] + n)
          /\ Len(shown'[r]) = offset[r] + n
      <3>1. n \in 0..(Len(listed[r]) - offset[r])
        BY DEF Left
      <3>2. /\ SubSeq(listed[r], 1, offset[r]) \o SubSeq(listed[r], offset[r] + 1, offset[r] + n)
                  = SubSeq(listed[r], 1, offset[r] + n)
            /\ Len(SubSeq(listed[r], 1, offset[r] + n)) = offset[r] + n
        BY <2>4, <2>5, <3>1, PageOn
      <3> QED
        BY <2>6, <2>7, <3>2
    <2>9. ASSUME last PROVE shown'[r] = listed[r]
      <3>1. offset[r] + n = Len(listed[r])
        BY <2>2, <2>4, <2>9, <2>5 DEF Left
      <3> QED
        BY <2>4, <2>8, <3>1, SubSeqFull
    <2> QED
      BY <2>3, <2>8, <2>9 DEF PagesWhole
  <1>6. CASE Change \/ UNCHANGED browseVars
    BY <1>1, <1>6 DEF Change, listing, browseVars
  <1>7. ASSUME NEW r \in Readers,
               \/ BeginDownload(r) \/ Stat(r) \/ Open(r) \/ NotServed(r)
               \/ Copy(r) \/ CopyFails(r) \/ CopyEnds(r)
               \/ BeginList(r) \/ ListFails(r) \/ CloseDir(r)
        PROVE  PagesWhole'
    BY <1>1, <1>7 DEF BeginDownload, Stat, Open, NotServed, Copy, CopyFails, CopyEnds, BeginList,
                      ListFails, CloseDir, listing
  <1> QED
    BY <1>3, <1>4, <1>5, <1>6, <1>7, Steps

LEMMA BrowseInvariance == BrowseSpec => []BrowseInv
  <1>1. BrowseInit => BrowseInv
    BY BrowseInitInv
  <1>2. BrowseInv /\ [BrowseNext]_browseVars => BrowseInv'
    BY BrowseTypeStep, UnlistedStep, ServedStep, ListedStep, PagesStep DEF BrowseInv
  <1> QED
    BY <1>1, <1>2, PTL DEF BrowseSpec

\* The variables keep their types: no more is sent than the content that was
\* opened, and no more handed over than was listed (admin/files.go:214-219,
\* fsdriver/audit.go:194-216).
THEOREM BrowseTypeCorrect == BrowseSpec => []BrowseTypeOK
  BY BrowseInvariance, PTL DEF BrowseInv

\* Whatever becomes of the object meanwhile, FILE_DOWNLOAD is in the audit trail
\* exactly when all of the content that was opened was sent (admin/files.go:214-219).
THEOREM DownloadsLogged == BrowseSpec => []LoggedIfServed
  BY BrowseInvariance, PTL DEF BrowseInv

\* A listing is what the folder held at one moment, each file and each folder
\* once, and all of it as long as COS does not cut it short (cos/fs.go:52-89).
THEOREM ListingsTrue == BrowseSpec => []ListedOnce
  BY BrowseInvariance, PTL DEF BrowseInv

\* The pages that are handed over make up the listing (fsdriver/audit.go:194-216,
\* sftp_handlers.go:106-115).
THEOREM PagesTrue == BrowseSpec => []PagesWhole
  BY BrowseInvariance, PTL DEF BrowseInv
====
