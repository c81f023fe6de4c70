---- MODULE MCCosClient ----
(* Two operations at a time, one chain and one client. *)
EXTENDS CosClient

CONSTANTS a, b

MCOps == {a, b}
====
