---- MODULE MCAdminUsers ----
(* Two requests at a time for one name, any number of them one after another. *)
EXTENDS AdminUsers

CONSTANTS req1, req2, alice, home, away, p1, p2, k1

MCRequests == {req1, req2}
MCNames == {alice}
MCFolders == {home, away}
MCPasswords == {p1, p2}
MCKeys == {k1, NoKey}

Update(r, e, f) == [op |-> "update", name |-> alice, root |-> r, enabled |-> e, flag |-> f]

MCBodies ==
    {[op |-> "create", name |-> alice, root |-> home, pass |-> p1, enabled |-> TRUE,
      flag |-> TRUE],
     Update(home, FALSE, Omitted), Update(away, TRUE, FALSE),
     [op |-> "reset", name |-> alice, pass |-> p2],
     [op |-> "key", name |-> alice, key |-> k1],
     [op |-> "delete", name |-> alice]}
====
