---- MODULE Lockout ----
(***************************************************************************)
(* internal/auth/auth.go: Lockout, as operators on one user's failures.    *)
(* The code keeps the times of the failures; here a failure is its age in  *)
(* ticks, and an age stops growing at Window, where the code's             *)
(* t.After(now - window) turns false for good.  The list is in the order   *)
(* the failures were recorded, so the oldest is first.                     *)
(***************************************************************************)
EXTENDS Naturals, Sequences, FiniteSets

CONSTANTS
    Limit,      \* failures that lock a user (AUTH_LOCKOUT_LIMIT, 5)
    Window      \* ticks a failure counts (AUTH_LOCKOUT_WINDOW, 15 minutes)

ASSUME LockoutAssumption ==
    /\ Limit \in Nat \ {0}
    /\ Window \in Nat \ {0}

Ages == 0..Window

Fresh(age) == age < Window

\* The failures that still count.
Recent(fs) == Cardinality({i \in 1..Len(fs) : Fresh(fs[i])})

Locked(fs) == Recent(fs) >= Limit

\* Fault: the old failures are never forgotten.
PrunedNot(fs) == fs

\* Allow first drops the failures that fell out of the window: a prefix of the
\* list, since they were recorded in the order of their times.
Pruned(fs) ==
    SubSeq(fs, Cardinality({i \in 1..Len(fs) : ~Fresh(fs[i])}) + 1, Len(fs))

\* Fault: one more than the limit is let through.
AllowsLate(fs) == Len(Pruned(fs)) <= Limit

Allows(fs) == Len(Pruned(fs)) < Limit

RecordFailure(fs) == Append(fs, 0)

\* Oldest first.
InOrder(fs) == \A i, j \in 1..Len(fs) : i < j => fs[i] >= fs[j]

\* One tick of the clock.
Aged(fs) == [i \in 1..Len(fs) |-> IF Fresh(fs[i]) THEN fs[i] + 1 ELSE Window]
====
