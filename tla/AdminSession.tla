---- MODULE AdminSession ----
(***************************************************************************)
(* What the admin API's sessions promise: a token is granted once, with    *)
(* the role its login had, and once it has ended it is never good again; a *)
(* request is admitted on a live token, to change an account only if that  *)
(* token is an admin's.  AdminSessions (cookies, the table in memory with  *)
(* its sliding expiry, the middleware) is shown to implement this module.  *)
(***************************************************************************)
CONSTANTS
    Tokens,     \* values of the session cookie
    Requests,   \* requests in flight
    NoToken

VARIABLES
    status,     \* of each token: "unissued", "live" or "ended"
    role,       \* the role each token was granted
    serving     \* the token and the kind of each admitted request

vars == <<status, role, serving>>

Roles == {"admin", "readonly"}
Nothing == [tok |-> NoToken, kind |-> "read"]

Init ==
    /\ status = [t \in Tokens |-> "unissued"]
    /\ role = [t \in Tokens |-> "none"]
    /\ serving = [q \in Requests |-> Nothing]

\* A login.
Grant(t, r) ==
    /\ status[t] = "unissued"
    /\ status' = [status EXCEPT ![t] = "live"]
    /\ role' = [role EXCEPT ![t] = r]
    /\ UNCHANGED serving

\* Tokens are revoked, or expire together.
End(ts) ==
    /\ \A t \in ts : status[t] = "live"
    /\ status' = [t \in Tokens |-> IF t \in ts THEN "ended" ELSE status[t]]
    /\ UNCHANGED <<role, serving>>

\* A request is let through to its handler.
Admit(q, t, kind) ==
    /\ serving[q] = Nothing
    /\ status[t] = "live"
    /\ kind = "change" => role[t] = "admin"
    /\ serving' = [serving EXCEPT ![q] = [tok |-> t, kind |-> kind]]
    /\ UNCHANGED <<status, role>>

\* Its handler is done.
Leave(q) ==
    /\ serving' = [serving EXCEPT ![q] = Nothing]
    /\ UNCHANGED <<status, role>>

Next ==
    \/ \E t \in Tokens, r \in Roles : Grant(t, r)
    \/ \E ts \in SUBSET Tokens : End(ts)
    \/ \E q \in Requests :
          Leave(q) \/ \E t \in Tokens, kind \in {"read", "change"} : Admit(q, t, kind)

Spec == Init /\ [][Next]_vars
====
