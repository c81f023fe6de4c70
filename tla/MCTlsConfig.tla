---- MODULE MCTlsConfig ----
(* Two connections; the file holds up to three certificates after the leaf. *)
EXTENDS TlsConfig

CONSTANTS conn1, conn2

MCConns == {conn1, conn2}
MCNames == {"leaf", "a", "b", "root"}

Cert(s, i) == [subj |-> s, iss |-> i, parses |-> TRUE]
Leaf == Cert("leaf", "a")
A == Cert("a", "b")
B == Cert("b", "root")
Root == Cert("root", "root")
CrossB == Cert("b", "a")                    \* a and b certify each other
Damaged == [A EXCEPT !.parses = FALSE]

\* No certificate; the leaf alone; the leaf followed by one to three certificates,
\* in any order, repeated, cross-signed, damaged.
Following == {A, B, Root, CrossB}
MCFiles ==
    {<<>>, <<Root>>, <<[Leaf EXCEPT !.parses = FALSE], A>>, <<Leaf, Damaged>>,
     <<Leaf, Damaged, B>>, <<Leaf>>}
        \union {<<Leaf, x>> : x \in Following}
        \union {<<Leaf, x, y>> : x, y \in Following}
        \union {<<Leaf, x, y, z>> : x, y, z \in Following}
====
