---- MODULE MCAdminSessions ----
(* One tab, two requests in flight, and as many logins as tokens. *)
EXTENDS AdminSessions

CONSTANTS tab1, tok1, tok2, req1, req2

MCTabs == {tab1}
MCTokens == {tok1, tok2}
MCRequests == {req1, req2}
====
