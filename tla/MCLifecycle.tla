---- MODULE MCLifecycle ----
(* Two sessions, by any of the three listeners. *)
EXTENDS Lifecycle

CONSTANTS s1, s2

MCSessions == {s1, s2}
====
