---- MODULE AdminSessions ----
(***************************************************************************)
(* Sessions of the admin API:                                              *)
(*   admin/oidc_api.go     oidcAuthorize, oidcCallback                     *)
(*   admin/middleware.go   SessionManager (Issue, Revoke, Authenticate),   *)
(*                         RequireRole                                     *)
(*   admin/account_api.go  logout                                          *)
(*   admin/api.go          Routes: what stands behind which middleware     *)
(* One person at one browser: its tabs share the cookie jar, its requests  *)
(* are goroutines of the server; the identity provider says at every login *)
(* what groups the person is in.  Other people share nothing with them but *)
(* the table, whose entries do not touch each other.                       *)
(***************************************************************************)
EXTENDS Integers, FiniteSets

CONSTANTS
    Tabs,       \* tabs that log in, each the state of its latest authorize
    NoTab,
    Tokens,     \* random tokens; their number bounds the logins
    NoToken,
    Requests,   \* requests in flight
    TTL         \* SessionManager.ttl, in ticks

ASSUME SessionAssumption ==
    /\ NoToken \notin Tokens
    /\ TTL \in Nat \ {0}

Roles == {"admin", "readonly"}
Kinds == {"read", "change", "logout"}

VARIABLES
    cookie,     \* the oidc_state cookie: the tab whose state it holds
    jar,        \* the session cookie
    flow,       \* where each tab's login is, and the token it was issued
    sessions,   \* SessionManager.sessions: the role and the ticks left
    granted,    \* the role each token was issued with, "none" before
    req,        \* the requests: what they carry, and the role they read
    out         \* history: the tokens a logout revoked

vars == <<cookie, jar, flow, sessions, granted, req, out>>
login == <<cookie, flow>>

NoFlow == [pc |-> "idle", tok |-> NoToken]
NoReq == [pc |-> "idle", kind |-> "read", tok |-> NoToken, role |-> "none"]
NoEntry == [role |-> "none", left |-> 0]

Init ==
    /\ cookie = NoTab
    /\ jar = NoToken
    /\ flow = [t \in Tabs |-> NoFlow]
    /\ sessions = [k \in Tokens |-> NoEntry]
    /\ granted = [k \in Tokens |-> "none"]
    /\ req = [q \in Requests |-> NoReq]
    /\ out = {}

Issued == {k \in Tokens : granted[k] # "none"}

\* Fault: an entry is good as long as it is in the map.
AliveForever(k) == k \in Tokens /\ sessions[k].role # "none"

\* The table knows the token and it has not expired; expired entries stay.
Alive(k) == k \in Tokens /\ sessions[k].left > 0

----
\* Logging in

\* oidcAuthorize: the cookie gets a new state, whatever it held.
Authorize(t) ==
    /\ flow[t].pc = "idle"
    /\ flow' = [flow EXCEPT ![t].pc = "provider"]
    /\ cookie' = t
    /\ UNCHANGED <<jar, sessions, granted, req, out>>

\* The browser forgets the state cookie after five minutes (MaxAge).
StateExpires ==
    /\ cookie # NoTab
    /\ cookie' = NoTab
    /\ UNCHANGED <<jar, flow, sessions, granted, req, out>>

\* oidcCallback, the cookie holds another tab's state, or none: refused.
CallbackRefused(t) ==
    /\ flow[t].pc = "provider"
    /\ cookie # t
    /\ flow' = [flow EXCEPT ![t] = NoFlow]
    /\ UNCHANGED <<cookie, jar, sessions, granted, req, out>>

\* The state is right.
Callback(t) ==
    /\ flow[t].pc = "provider"
    /\ cookie = t
    /\ flow' = [flow EXCEPT ![t].pc = "exchange"]
    /\ UNCHANGED <<cookie, jar, sessions, granted, req, out>>

\* Every answer of the callback from here on drops the state cookie.
Dropped == cookie' = NoTab

\* The exchange or the ID token fails, or no group gives a role.
ExchangeFails(t) ==
    /\ flow[t].pc = "exchange"
    /\ flow' = [flow EXCEPT ![t] = NoFlow]
    /\ Dropped
    /\ UNCHANGED <<jar, sessions, granted, req, out>>

\* A random token nobody has had; which one makes no difference.
NewToken == CHOOSE k \in Tokens \ Issued : TRUE

\* The role the groups claim gives; admin wins.
RoleOf(groups) == IF "admin" \in groups THEN "admin" ELSE "readonly"

\* The groups, whatever they are today, give the session its role:
\* SessionManager.Issue, and the ADMIN_LOGIN event.
Issue(t) ==
    /\ flow[t].pc = "exchange"
    /\ Tokens # Issued
    /\ LET k == NewToken IN \E groups \in (SUBSET Roles) \ {{}} :
          /\ granted' = [granted EXCEPT ![k] = RoleOf(groups)]
          /\ sessions' = [sessions EXCEPT ![k] = [role |-> RoleOf(groups), left |-> TTL]]
          /\ flow' = [flow EXCEPT ![t] = [pc |-> "answer", tok |-> k]]
    /\ UNCHANGED <<cookie, jar, req, out>>

\* The answer reaches the browser with the new session cookie.
LoggedIn(t) ==
    /\ flow[t].pc = "answer"
    /\ jar' = flow[t].tok
    /\ flow' = [flow EXCEPT ![t] = NoFlow]
    /\ Dropped
    /\ UNCHANGED <<sessions, granted, req, out>>

----
\* Requests

\* The browser sends whatever its jar holds.
Send(q) ==
    /\ req[q].pc = "idle"
    /\ \E kind \in Kinds :
          req' = [req EXCEPT ![q] = [pc |-> "sent", kind |-> kind, tok |-> jar,
                                     role |-> "none"]]
    /\ UNCHANGED <<login, jar, sessions, granted, out>>

\* Authenticate: no cookie, or no live entry for it.
Unauthorized(q) ==
    /\ req[q].pc = "sent" /\ req[q].kind # "logout"
    /\ ~Alive(req[q].tok)
    /\ req' = [req EXCEPT ![q] = NoReq]
    /\ UNCHANGED <<login, jar, sessions, granted, out>>

\* Fault: Authenticate reads the entry under the lock and writes it back under
\* the lock, but lets go of it in between.
AuthenticateUnlocked(q) ==
    LET k == req[q].tok IN
    /\ req[q].kind # "logout"
    /\ \/ /\ req[q].pc = "sent" /\ Alive(k)
          /\ req' = [req EXCEPT ![q].pc = "slide", ![q].role = sessions[k].role]
          /\ UNCHANGED sessions
       \/ /\ req[q].pc = "slide"
          /\ sessions' = [sessions EXCEPT ![k] = [role |-> req[q].role, left |-> TTL]]
          /\ req' = [req EXCEPT ![q].pc = "authed"]
    /\ UNCHANGED <<login, jar, granted, out>>

\* Authenticate: the entry's life starts anew and its role goes into the context,
\* under the lock.
Authenticate(q) ==
    LET k == req[q].tok IN
    /\ req[q].pc = "sent" /\ req[q].kind # "logout"
    /\ Alive(k)
    /\ sessions' = [sessions EXCEPT ![k].left = TTL]
    /\ req' = [req EXCEPT ![q] = [pc |-> "authed", kind |-> req[q].kind, tok |-> k,
                                  role |-> sessions[k].role]]
    /\ UNCHANGED <<login, jar, granted, out>>

\* Fault: the routes that change accounts are not behind RequireRole.
PermittedAll(q) == TRUE

\* Reads need a session, changes an admin's (Routes).
Permitted(q) == req[q].kind = "change" => req[q].role = "admin"

\* RequireRole refuses.
Forbidden(q) ==
    /\ req[q].pc = "authed"
    /\ ~Permitted(q)
    /\ req' = [req EXCEPT ![q] = NoReq]
    /\ UNCHANGED <<login, jar, sessions, granted, out>>

\* The handler runs and answers.
Handle(q) ==
    /\ req[q].pc = "authed"
    /\ Permitted(q)
    /\ req' = [req EXCEPT ![q] = NoReq]
    /\ UNCHANGED <<login, jar, sessions, granted, out>>

\* logout: the session is revoked, whoever asks; no middleware stands before it.
Logout(q) ==
    LET k == req[q].tok IN
    /\ req[q].pc = "sent" /\ req[q].kind = "logout"
    /\ IF k = NoToken
       THEN UNCHANGED <<sessions, out>>
       ELSE /\ sessions' = [sessions EXCEPT ![k] = NoEntry]
            /\ out' = out \union {k}
    /\ req' = [req EXCEPT ![q].pc = "answer"]
    /\ UNCHANGED <<login, jar, granted>>

\* Its answer reaches the browser and clears the cookie, whichever that is by now.
LoggedOut(q) ==
    /\ req[q].pc = "answer"
    /\ jar' = NoToken
    /\ req' = [req EXCEPT ![q] = NoReq]
    /\ UNCHANGED <<login, sessions, granted, out>>

----
\* The clock
Tick ==
    /\ \E k \in Tokens : Alive(k)
    /\ sessions' = [k \in Tokens |->
                       [sessions[k] EXCEPT !.left = IF @ > 0 THEN @ - 1 ELSE 0]]
    /\ UNCHANGED <<login, jar, granted, req, out>>

Login(t) ==
    CallbackRefused(t) \/ Callback(t) \/ ExchangeFails(t) \/ Issue(t) \/ LoggedIn(t)

Request(q) ==
    Unauthorized(q) \/ Authenticate(q) \/ Forbidden(q) \/ Handle(q) \/ Logout(q) \/ LoggedOut(q)

Next ==
    \/ \E t \in Tabs : Authorize(t) \/ Login(t)
    \/ \E q \in Requests : Send(q) \/ Request(q)
    \/ StateExpires
    \/ Tick

SafeSpec == Init /\ [][Next]_vars

\* Time passes; handlers keep being scheduled.  Nobody has to send a request.
Spec == SafeSpec /\ WF_vars(Tick) /\ \A q \in Requests : WF_vars(Request(q))

----
\* Properties

TypeOK ==
    /\ cookie \in Tabs \union {NoTab}
    /\ jar \in Issued \union {NoToken}
    /\ flow \in [Tabs -> [pc: {"idle", "provider", "exchange", "answer"},
                          tok: Issued \union {NoToken}]]
    /\ sessions \in [Tokens -> [role: Roles \union {"none"}, left: 0..TTL]]
    /\ granted \in [Tokens -> Roles \union {"none"}]
    /\ req \in [Requests -> [pc: {"idle", "sent", "authed", "answer"}, kind: Kinds,
                             tok: Issued \union {NoToken}, role: Roles \union {"none"}]]
    /\ out \subseteq Issued

\* A session somebody logged out of is over at once and for good, however many of
\* its requests are being authenticated meanwhile (middleware.go:94-99, 113-122).
LogoutSticks == \A k \in out : ~Alive(k)

\* A session nobody uses any more ends (middleware.go:89, 115).
IdleSessionEnds ==
    \A k \in Tokens :
        <>[](\A q \in Requests : req[q].tok # k) => <>[]~Alive(k)

\* The sessions keep the promise of AdminSession.
Status(k) == IF k \notin Issued THEN "unissued" ELSE IF Alive(k) THEN "live" ELSE "ended"

Serving(q) ==
    IF req[q].pc = "authed" /\ Permitted(q) THEN [tok |-> req[q].tok, kind |-> req[q].kind]
                                            ELSE [tok |-> NoToken, kind |-> "read"]

Promise == INSTANCE AdminSession WITH
    status <- [k \in Tokens |-> Status(k)],
    role <- granted,
    serving <- [q \in Requests |-> Serving(q)]

ImplementsSession == Promise!Spec
====
