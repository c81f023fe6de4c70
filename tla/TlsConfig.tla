---- MODULE TlsConfig ----
(***************************************************************************)
(* How FTPS gets its certificate (ftpserver/server.go):                    *)
(*   GetTLSConfig    called for every AUTH TLS and every data connection,  *)
(*                   builds the configuration once                         *)
(*   loadCertChain   reads the certificate file, then the key              *)
(*   orderChain      puts what follows the leaf in order                   *)
(* Connections are goroutines that meet in a sync.Once.  The file may be   *)
(* replaced while the process runs.  A certificate is its subject, its     *)
(* issuer and whether it parses; signatures and dates are not looked at by *)
(* this code.  orderChain's loop is one step per round.                    *)
(***************************************************************************)
EXTENDS Integers, Sequences, FiniteSets

CONSTANTS
    Conns,      \* connections that ask for the configuration
    Names,      \* subjects and issuers
    Files,      \* what the certificate file may hold, in file order
    MaxRotations \* bound: times the file is replaced

Certs == [subj: Names, iss: Names, parses: BOOLEAN]

ASSUME TlsAssumption ==
    /\ Files \subseteq Seq(Certs)
    /\ MaxRotations \in Nat

VARIABLES
    tls,        \* Server.TLS # nil: a certificate and a key are configured
    pem,        \* the certificate file
    rotations,  \* times it was replaced
    once,       \* tlsConfigOnce
    config,     \* tlsConfig: the chain it presents; <<>> is nil
    err,        \* tlsConfigErr # nil
    step,       \* where the load is
    blocks,     \* the certificates it read
    at,         \* orderChain's start, then cur
    used,       \* indices marked used
    ordered,    \* indices in the order emitted
    pc,         \* where each connection is
    answer      \* what GetTLSConfig returned it last

vars == <<tls, pem, rotations, once, config, err, step, blocks, at, used, ordered,
          pc, answer>>
load == <<step, blocks, at, used, ordered>>
file == <<tls, pem, rotations>>

NoAnswer == [config |-> <<>>, err |-> TRUE]

Init ==
    /\ tls \in BOOLEAN
    /\ pem \in Files
    /\ rotations = 0
    /\ once = "fresh"
    /\ config = <<>>
    /\ err = FALSE
    /\ step = "none"
    /\ blocks = <<>>
    /\ at = 0
    /\ used = {}
    /\ ordered = <<>>
    /\ pc = [c \in Conns |-> "idle"]
    /\ answer = [c \in Conns |-> NoAnswer]

Goto(c, label) == pc' = [pc EXCEPT ![c] = label]
Return(c, cfg, e) ==
    Goto(c, "idle") /\ answer' = [answer EXCEPT ![c] = [config |-> cfg, err |-> e]]

----
\* orderChain's view of the file

SelfSigned(cert) == cert.subj = cert.iss

\* Positions of the certificates after the leaf that parse (parsed).
Parsed == {i \in 2..Len(blocks) : blocks[i].parses}

\* bySubject has an entry for this name.
Known(name) == \E i \in Parsed : blocks[i].subj = name

First(S) == CHOOSE i \in S : \A j \in S : i <= j

\* Its issuer is nobody's subject here: where the walk starts.
Tops == {i \in Parsed : ~Known(blocks[i].iss)}

\* Fault: the next one is whichever is left.
NextsAny == Parsed \ used

\* The issuers of cur the walk has not been at.
Nexts == {i \in Parsed : blocks[i].subj = blocks[at].iss} \ used

----
\* GetTLSConfig

\* AUTH TLS, or a data connection of a session that has it.
Call(c) ==
    /\ pc[c] = "idle"
    /\ IF tls THEN Goto(c, "once") /\ UNCHANGED answer
              ELSE Return(c, <<>>, TRUE)
    /\ UNCHANGED <<file, once, config, err, load>>

\* Fault: no sync.Once, every call loads.
EnterAlways(c) ==
    /\ pc[c] = "once"
    /\ once # "busy"
    /\ once' = "busy"
    /\ step' = "read"
    /\ used' = {} /\ ordered' = <<>>
    /\ Goto(c, "load")
    /\ UNCHANGED <<file, config, err, blocks, at, answer>>

\* Once.Do: the first caller loads, the others wait for it.
Enter(c) ==
    /\ pc[c] = "once"
    /\ once = "fresh"
    /\ once' = "busy"
    /\ step' = "read"
    /\ Goto(c, "load")
    /\ UNCHANGED <<file, config, err, blocks, at, used, ordered, answer>>

\* The load is over: whatever it left is returned.
Answer(c) ==
    /\ pc[c] = "once"
    /\ once = "done"
    /\ Return(c, config, err)
    /\ UNCHANGED <<file, once, config, err, load>>

----
\* loadCertChain, in the goroutine that entered the Once

\* The load is over, with this configuration and error.
LoadEnds(c, cfg, e) ==
    /\ once' = "done"
    /\ config' = cfg
    /\ err' = e
    /\ step' = "none"
    /\ Return(c, cfg, e)

\* The file cannot be read, or holds no certificate.
ReadFails(c) ==
    /\ pc[c] = "load" /\ step = "read"
    /\ LoadEnds(c, <<>>, TRUE)
    /\ UNCHANGED <<file, blocks, at, used, ordered>>

\* The file is read whole.
Read(c) ==
    /\ pc[c] = "load" /\ step = "read"
    /\ pem # <<>>
    /\ blocks' = pem
    /\ step' = "start"
    /\ UNCHANGED <<file, once, config, err, at, used, ordered, pc, answer>>

\* Fault: a panic leaves the Once locked.
StartPanicsInside(c) ==
    /\ pc[c] = "load" /\ step = "start"
    /\ Parsed = {}
    /\ step' = "none"
    /\ Goto(c, "gone")
    /\ UNCHANGED <<file, once, config, err, blocks, at, used, ordered, answer>>

\* Nothing that parses follows the leaf: parsed[start] is out of range.  The
\* panic leaves Do, which counts as done; it ends the connection, unless the
\* library recovers it.
StartPanics(c) ==
    /\ pc[c] = "load" /\ step = "start"
    /\ Parsed = {}
    /\ once' = "done"
    /\ step' = "none"
    /\ \E label \in {"idle", "gone"} : Goto(c, label)
    /\ UNCHANGED <<file, config, err, blocks, at, used, ordered, answer>>

\* The walk starts at the first top, or without one at the first certificate.
Start(c) ==
    /\ pc[c] = "load" /\ step = "start"
    /\ Parsed # {}
    /\ at' = First(IF Tops # {} THEN Tops ELSE Parsed)
    /\ step' = "walk"
    /\ UNCHANGED <<file, once, config, err, blocks, used, ordered, pc, answer>>

\* Fault: the walk takes the root along.
EmitRoot(c) ==
    /\ pc[c] = "load" /\ step = "walk"
    /\ at \notin used
    /\ ordered' = Append(ordered, at)
    /\ used' = used \union {at}
    /\ IF Known(blocks[at].iss) /\ Nexts \ {at} # {}
       THEN at' = First(Nexts \ {at}) /\ UNCHANGED step
       ELSE step' = "key" /\ UNCHANGED at
    /\ UNCHANGED <<file, once, config, err, blocks, pc, answer>>

\* A round: emit cur, go on to its issuer if that is here and not used yet.
Emit(c) ==
    /\ pc[c] = "load" /\ step = "walk"
    /\ ~SelfSigned(blocks[at]) /\ at \notin used
    /\ ordered' = Append(ordered, at)
    /\ used' = used \union {at}
    /\ IF Known(blocks[at].iss) /\ Nexts \ {at} # {}
       THEN at' = First(Nexts \ {at}) /\ UNCHANGED step
       ELSE step' = "key" /\ UNCHANGED at
    /\ UNCHANGED <<file, once, config, err, blocks, pc, answer>>

\* The loop ends at a root.
WalkEnds(c) ==
    /\ pc[c] = "load" /\ step = "walk"
    /\ SelfSigned(blocks[at]) \/ at \in used
    /\ step' = "key"
    /\ UNCHANGED <<file, once, config, err, blocks, at, used, ordered, pc, answer>>

\* The key cannot be read, or does not fit the leaf, or the leaf does not parse.
KeyFails(c) ==
    /\ pc[c] = "load" /\ step = "key"
    /\ LoadEnds(c, <<>>, TRUE)
    /\ UNCHANGED <<file, blocks, at, used, ordered>>

\* The leaf and what orderChain emitted.
Chain == <<blocks[1]>> \o [i \in DOMAIN ordered |-> blocks[ordered[i]]]

Key(c) ==
    /\ pc[c] = "load" /\ step = "key"
    /\ blocks[1].parses
    /\ LoadEnds(c, Chain, FALSE)
    /\ UNCHANGED <<file, blocks, at, used, ordered>>

----
\* The environment: the file is replaced.
Rotate ==
    /\ rotations < MaxRotations
    /\ rotations' = rotations + 1
    /\ \E f \in Files : pem' = f
    /\ UNCHANGED <<tls, once, config, err, load, pc, answer>>

GetTLSConfig(c) ==
    \/ Enter(c) \/ Answer(c)
    \/ ReadFails(c) \/ Read(c) \/ StartPanics(c) \/ Start(c)
    \/ Emit(c) \/ WalkEnds(c) \/ KeyFails(c) \/ Key(c)

Next == Rotate \/ \E c \in Conns : Call(c) \/ GetTLSConfig(c)

SafeSpec == Init /\ [][Next]_vars

\* A goroutine inside of GetTLSConfig keeps being scheduled; clients need not call.
Spec == SafeSpec /\ \A c \in Conns : WF_vars(GetTLSConfig(c))

----
\* Properties

TypeOK ==
    /\ tls \in BOOLEAN /\ pem \in Files /\ rotations \in 0..MaxRotations
    /\ once \in {"fresh", "busy", "done"} /\ err \in BOOLEAN
    /\ config \in Seq(Certs)
    /\ step \in {"none", "read", "start", "walk", "key"}
    /\ blocks \in Seq(Certs)
    /\ used \subseteq Parsed
    /\ ordered \in Seq(Parsed)
    /\ at \in Parsed \union {0}
    /\ pc \in [Conns -> {"idle", "once", "load", "gone"}]
    /\ answer \in [Conns -> [config: Seq(Certs), err: BOOLEAN]]

\* "each cert's subject must equal the previous cert's issuer, starting from leaf.
\* Self-signed certs (root) are dropped ... Duplicates are skipped"
\* (server.go:264-267): of what is emitted, at every round of the walk, between one
\* emitted certificate and the next. That the first of them certifies the leaf is
\* left out, since the walk never looks at the leaf (server.go:280-284) and does not
\* keep it: <<Leaf, CrossB, A>> is served with b after the leaf, <<Leaf, Root, A, B>>
\* as the leaf alone. WholeChainServed has the leaf, for files in order.
ChainLinked ==
    \A i \in DOMAIN ordered :
        /\ ~SelfSigned(blocks[ordered[i]])
        /\ i > 1 => blocks[ordered[i - 1]].iss = blocks[ordered[i]].subj
        /\ \A j \in DOMAIN ordered : ordered[i] = ordered[j] => i = j

\* A file as an administrator writes it: leaf, intermediates, root, each signed by
\* the next, no two with one subject.
InOrder(f) ==
    /\ Len(f) > 1
    /\ \A i \in DOMAIN f : f[i].parses
    /\ \A i, j \in DOMAIN f : f[i].subj = f[j].subj => i = j
    /\ \A i \in 1..(Len(f) - 1) : f[i].iss = f[i + 1].subj
    /\ SelfSigned(f[Len(f)])

\* From such a file every client is sent the leaf and all the intermediates, and
\* not the root (server.go:222-229).
WholeChainServed ==
    (config # <<>> /\ InOrder(blocks)) => config = SubSeq(blocks, 1, Len(blocks) - 1)

\* However the file changes, every call that gets a configuration gets the same:
\* resumption between control and data connections rests on it (server.go:67-73).
OneConfig ==
    \A c, d \in Conns :
        (answer[c].config # <<>> /\ answer[d].config # <<>>)
            => answer[c].config = answer[d].config

\* Every call returns, also those that wait for a load that panics (server.go:211).
EveryCallReturns == \A c \in Conns : pc[c] \in {"once", "load"} ~> pc[c] \in {"idle", "gone"}
====
