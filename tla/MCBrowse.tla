---- MODULE MCBrowse ----
(* One reader, as readers share nothing but the bucket, and a folder of two
   names; up to six keys, of which COS returns five. *)
EXTENDS Browse

CONSTANTS r1, short, long

MCReaders == {r1}
MCNames == 1..2
MCVersions == {short, long}
MCSize == [v \in MCVersions |-> IF v = short THEN 1 ELSE 2]

Child(o, p, d) == [object |-> o, placeholder |-> p, deeper |-> d]
MCChildren ==
    {Child(None, FALSE, FALSE), Child(short, FALSE, FALSE), Child(long, FALSE, FALSE),
     Child(None, TRUE, FALSE), Child(None, FALSE, TRUE), Child(None, TRUE, TRUE),
     Child(short, TRUE, TRUE)}
====
