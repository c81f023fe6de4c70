---- MODULE TlsConfig_proofs ----
(***************************************************************************)
(* Proofs about the TLS configuration, for every set of connections, any   *)
(* number of rotations and every certificate file: what the walk emits is  *)
(* linked, an ordered file is served whole, all calls get one answer.      *)
(***************************************************************************)
EXTENDS TlsConfig, TLAPS, WellFoundedInduction

Loading(c) == pc[c] = "load"

\* One goroutine loads, and only while the Once is busy; before, nothing is set.
OnceOK ==
    /\ \A c \in Conns : Loading(c) => once = "busy" /\ step # "none"
    /\ \A c, d \in Conns : Loading(c) /\ Loading(d) => c = d
    /\ step # "none" => once = "busy"
    /\ once # "done" => config = <<>>
    /\ step \in {"read", "start"} \/ once = "fresh" => ordered = <<>> /\ used = {} /\ at = 0
    /\ step # "none" /\ step # "read" => blocks # <<>>

\* The walk: where it is, what it has used.
WalkOK ==
    /\ \A i \in DOMAIN ordered : ordered[i] \in used
    /\ step = "walk" =>
          /\ at \in Parsed
          /\ at \notin used
          /\ ordered # <<>> => blocks[ordered[Len(ordered)]].iss = blocks[at].subj

\* The walk of an ordered file is at the next certificate, and ends at the last.
OrderOK ==
    InOrder(blocks) =>
        /\ \A i \in DOMAIN ordered : ordered[i] = i + 1
        /\ used \subseteq 2..(Len(ordered) + 1)
        /\ step = "walk" => at = Len(ordered) + 2
        /\ step = "key" => Len(ordered) = Len(blocks) - 2

\* A configuration, once there, is everybody's.
AnswersOK == \A c \in Conns : answer[c].config # <<>> => answer[c].config = config

IInv ==
    /\ TypeOK /\ OnceOK /\ WalkOK /\ ChainLinked
    /\ OrderOK /\ WholeChainServed /\ AnswersOK

----
\* First(S) is the least element of S.
LEMMA LeastExists ==
    ASSUME NEW S \in SUBSET Nat, S # {}
    PROVE  First(S) \in S /\ \A j \in S : First(S) <= j
  <1>1. \E x \in S : \A y \in S : ~ (<<y, x>> \in OpToRel(<, Nat))
    BY NatLessThanWellFounded, WFMin, Zenon
  <1>2. PICK x \in S : \A y \in S : ~ (<<y, x>> \in OpToRel(<, Nat))
    BY <1>1
  <1>3. \A y \in S : x <= y
    <2> TAKE y \in S
    <2>1. ~ (y < x)
      BY <1>2 DEF OpToRel
    <2> QED
      BY <2>1
  <1> QED
    BY <1>3 DEF First

LEMMA FirstIs ==
    ASSUME NEW S \in SUBSET Nat, NEW m \in S, \A j \in S : m <= j
    PROVE  First(S) = m
  <1>1. First(S) \in S /\ \A j \in S : First(S) <= j
    BY LeastExists
  <1>2. First(S) \in Nat /\ m \in Nat
    BY <1>1
  <1>3. First(S) <= m /\ m <= First(S)
    BY <1>1
  <1> QED
    BY <1>2, <1>3

\* What Start and Emit pick is in the set they pick from.
LEMMA FirstIn ==
    ASSUME NEW S \in SUBSET Nat, S # {}
    PROVE  First(S) \in S
  BY LeastExists

----
\* The walk of an ordered file.
LEMMA OrderedParsed ==
    ASSUME blocks \in Seq(Certs), InOrder(blocks)
    PROVE  /\ Parsed = 2..Len(blocks)
           /\ Tops = {}
           /\ \A i \in Parsed : SelfSigned(blocks[i]) <=> i = Len(blocks)
           /\ \A i \in Parsed : i < Len(blocks) =>
                 {j \in Parsed : blocks[j].subj = blocks[i].iss} = {i + 1}
  <1> USE DEF InOrder
  <1>1. Parsed = 2..Len(blocks)
    BY DEF Parsed
  <1>2. \A i \in 1..(Len(blocks) - 1) : i + 1 \in Parsed /\ blocks[i].iss = blocks[i + 1].subj
    BY <1>1
  <1>3. Len(blocks) \in Parsed /\ blocks[Len(blocks)].iss = blocks[Len(blocks)].subj
    BY <1>1 DEF SelfSigned
  <1>4. Tops = {}
    <2> SUFFICES ASSUME NEW i \in Parsed PROVE Known(blocks[i].iss)
      BY DEF Tops
    <2>1. CASE i = Len(blocks)
      BY <2>1, <1>3 DEF Known
    <2>2. CASE i # Len(blocks)
      BY <2>2, <1>1, <1>2 DEF Known
    <2> QED
      BY <2>1, <2>2
  <1>5. \A i \in Parsed : i < Len(blocks) =>
           {j \in Parsed : blocks[j].subj = blocks[i].iss} = {i + 1}
    <2> TAKE i \in Parsed
    <2> HAVE i < Len(blocks)
    <2>1. i \in 1..(Len(blocks) - 1)
      BY <1>1
    <2>2. i + 1 \in Parsed /\ blocks[i].iss = blocks[i + 1].subj
      BY <2>1, <1>2
    <2>3. ASSUME NEW j \in Parsed, blocks[j].subj = blocks[i].iss PROVE j = i + 1
      BY <2>2, <2>3, <1>1
    <2> QED
      BY <2>2, <2>3
  <1>6. ASSUME NEW i \in Parsed PROVE SelfSigned(blocks[i]) <=> i = Len(blocks)
    <2>1. CASE i = Len(blocks)
      BY <2>1, <1>3 DEF SelfSigned
    <2>2. CASE i # Len(blocks)
      <3>1. i \in 1..(Len(blocks) - 1)
        BY <2>2, <1>1
      <3>2. i + 1 \in Parsed /\ blocks[i].iss = blocks[i + 1].subj
        BY <3>1, <1>2
      <3>3. blocks[i].subj # blocks[i + 1].subj
        BY <3>1, <3>2, <1>1
      <3> QED
        BY <3>2, <3>3, <2>2 DEF SelfSigned
    <2> QED
      BY <2>1, <2>2
  <1> QED
    BY <1>1, <1>4, <1>5, <1>6

----
LEMMA InitIInv == Init => IInv
  <1> SUFFICES ASSUME Init PROVE IInv
    OBVIOUS
  <1> USE DEF Init
  <1>1. blocks \in Seq(Certs) /\ ordered \in Seq(Parsed) /\ DOMAIN ordered = {}
    OBVIOUS
  <1>2. TypeOK
    <2>1. tls \in BOOLEAN /\ pem \in Files /\ rotations \in 0..MaxRotations
      BY TlsAssumption
    <2>2. NoAnswer \in [config : Seq(Certs), err : BOOLEAN]
      BY DEF NoAnswer
    <2>3. answer \in [Conns -> [config : Seq(Certs), err : BOOLEAN]]
      BY <2>2
    <2>4. config \in Seq(Certs)
      OBVIOUS
    <2>5. err \in BOOLEAN
      BY Zenon
    <2> QED
      BY <1>1, <2>1, <2>3, <2>4, <2>5 DEF TypeOK
  <1>3. OnceOK /\ WalkOK /\ ChainLinked
    BY <1>1 DEF OnceOK, Loading, WalkOK, ChainLinked
  <1>4. OrderOK /\ WholeChainServed
    BY <1>1 DEF OrderOK, WholeChainServed, InOrder
  <1>5. AnswersOK
    BY DEF AnswersOK, NoAnswer
  <1> QED
    BY <1>2, <1>3, <1>4, <1>5 DEF IInv

\* The steps that touch neither the load nor what it left.
LEMMA KeptByOthers ==
    ASSUME IInv, UNCHANGED <<load, once, config, err>>,
           \A c \in Conns : Loading(c)' => Loading(c),
           AnswersOK'
    PROVE  OnceOK' /\ WalkOK' /\ ChainLinked' /\ OrderOK' /\ WholeChainServed'
  <1>1. Parsed' = Parsed
    BY DEF load, Parsed
  <1>2. OnceOK'
    BY DEF IInv, load, OnceOK
  <1>3. WalkOK' /\ ChainLinked'
    BY <1>1 DEF IInv, load, WalkOK, ChainLinked, SelfSigned
  <1>4. OrderOK' /\ WholeChainServed'
    BY DEF IInv, load, OrderOK, WholeChainServed, InOrder, SelfSigned
  <1> QED
    BY <1>2, <1>3, <1>4

\* Everything but OnceOK and the answers, for the steps that keep the walk.
LEMMA WalkKept ==
    ASSUME IInv, UNCHANGED <<blocks, at, used, ordered>>, step' # "walk", step' # "key",
           config' = <<>> \/ config' = config
    PROVE  WalkOK' /\ ChainLinked' /\ OrderOK' /\ WholeChainServed'
  <1>1. Parsed' = Parsed
    BY DEF Parsed
  <1>2. WalkOK' /\ ChainLinked'
    BY <1>1 DEF IInv, WalkOK, ChainLinked, SelfSigned
  <1>3. OrderOK' /\ WholeChainServed'
    BY DEF IInv, OrderOK, WholeChainServed, InOrder, SelfSigned
  <1> QED
    BY <1>2, <1>3

\* What Return does to the types and to the answers.
LEMMA ReturnTyped ==
    ASSUME TypeOK, NEW c \in Conns, NEW cfg \in Seq(Certs), NEW e \in BOOLEAN, Return(c, cfg, e)
    PROVE  /\ pc' \in [Conns -> {"idle", "once", "load", "gone"}]
           /\ answer' \in [Conns -> [config : Seq(Certs), err : BOOLEAN]]
           /\ \A d \in Conns : answer'[d].config = IF d = c THEN cfg ELSE answer[d].config
  <1>1. [config |-> cfg, err |-> e] \in [config : Seq(Certs), err : BOOLEAN]
    OBVIOUS
  <1> QED
    BY <1>1 DEF TypeOK, Return, Goto

----
\* One lemma per action.

LEMMA CallStep == ASSUME NEW c \in Conns, IInv, Call(c) PROVE IInv'
  <1> USE DEF IInv, Call
  <1>1. Parsed' = Parsed
    BY DEF load, Parsed
  <1>2. CASE tls
    <2>1. TypeOK'
      BY <1>1, <1>2 DEF TypeOK, file, load, Goto
    <2>2. AnswersOK' /\ \A d \in Conns : Loading(d)' => Loading(d)
      BY <1>2 DEF AnswersOK, Loading, TypeOK, Goto
    <2> QED
      BY <2>1, <2>2, KeptByOthers DEF load
  <1>3. CASE ~tls
    <2>1. <<>> \in Seq(Certs) /\ TRUE \in BOOLEAN
      OBVIOUS
    <2>2. Return(c, <<>>, TRUE)
      BY <1>3
    <2>3. TypeOK'
      BY <1>1, <2>1, <2>2, ReturnTyped DEF TypeOK, file, load
    <2>4. AnswersOK'
      BY <2>1, <2>2, ReturnTyped DEF AnswersOK
    <2>5. \A d \in Conns : Loading(d)' => Loading(d)
      BY <2>2 DEF Loading, TypeOK, Return, Goto
    <2> QED
      BY <2>3, <2>4, <2>5, KeptByOthers DEF load
  <1> QED
    BY <1>2, <1>3

LEMMA AnswerStep == ASSUME NEW c \in Conns, IInv, Answer(c) PROVE IInv'
  <1> USE DEF IInv, Answer
  <1>0. config \in Seq(Certs) /\ err \in BOOLEAN
    BY DEF TypeOK
  <1>1. TypeOK'
    <2>1. Parsed' = Parsed
      BY DEF load, Parsed
    <2> QED
      BY <1>0, <2>1, ReturnTyped DEF TypeOK, file, load
  <1>2. AnswersOK'
    BY <1>0, ReturnTyped DEF AnswersOK
  <1>3. \A d \in Conns : Loading(d)' => Loading(d)
    BY DEF Loading, TypeOK, Return, Goto
  <1> QED
    BY <1>1, <1>2, <1>3, KeptByOthers DEF load

LEMMA RotateStep == ASSUME IInv, Rotate PROVE IInv'
  <1> USE DEF IInv, Rotate
  <1>1. TypeOK'
    BY TlsAssumption DEF TypeOK, load, Parsed
  <1>2. AnswersOK' /\ \A d \in Conns : Loading(d)' => Loading(d)
    BY DEF AnswersOK, Loading
  <1> QED
    BY <1>1, <1>2, KeptByOthers DEF load

LEMMA EnterStep == ASSUME NEW c \in Conns, IInv, Enter(c) PROVE IInv'
  <1> USE DEF IInv, Enter, Goto
  <1>1. TypeOK'
    BY DEF TypeOK, file, Parsed
  <1>2. OnceOK'
    BY DEF OnceOK, Loading, TypeOK
  <1>3. AnswersOK'
    BY DEF AnswersOK
  <1> QED
    BY <1>1, <1>2, <1>3, WalkKept

LEMMA LoadFailsStep ==
    ASSUME NEW c \in Conns, IInv, ReadFails(c) \/ KeyFails(c) PROVE IInv'
  <1> USE DEF IInv, ReadFails, KeyFails, LoadEnds
  <1>0. <<>> \in Seq(Certs) /\ TRUE \in BOOLEAN
    OBVIOUS
  <1>r. Return(c, <<>>, TRUE) /\ err' = TRUE /\ config' = <<>>
    BY Zenon
  <1>1. TypeOK'
    <2>1. Parsed' = Parsed
      BY DEF Parsed
    <2> QED
      BY <1>0, <1>r, <2>1, ReturnTyped DEF TypeOK, file
  <1>2. OnceOK'
    BY DEF OnceOK, Loading, TypeOK, Return, Goto
  <1>3. AnswersOK'
    BY <1>0, <1>r, ReturnTyped DEF AnswersOK, OnceOK, Loading
  <1>4. WalkOK' /\ ChainLinked' /\ OrderOK' /\ WholeChainServed'
    BY WalkKept
  <1> QED
    BY <1>1, <1>2, <1>3, <1>4

LEMMA StartPanicsStep == ASSUME NEW c \in Conns, IInv, StartPanics(c) PROVE IInv'
  <1> USE DEF IInv, StartPanics, Goto
  <1>1. TypeOK'
    BY DEF TypeOK, file, Parsed
  <1>2. OnceOK'
    BY DEF OnceOK, Loading, TypeOK
  <1>3. AnswersOK'
    BY DEF AnswersOK
  <1> QED
    BY <1>1, <1>2, <1>3, WalkKept

LEMMA ReadStep == ASSUME NEW c \in Conns, IInv, Read(c) PROVE IInv'
  <1> USE DEF IInv, Read
  <1>1. ordered = <<>> /\ used = {} /\ config = <<>> /\ DOMAIN ordered = {}
    BY DEF OnceOK, Loading
  <1>2. blocks' \in Seq(Certs)
    BY TlsAssumption DEF TypeOK
  <1>3. TypeOK'
    <2>1. {} \subseteq Parsed' /\ <<>> \in Seq(Parsed')
      OBVIOUS
    <2>2. at' \in Parsed' \union {0}
      BY <1>1 DEF TypeOK, OnceOK, Loading
    <2> QED
      BY <1>1, <1>2, <2>1, <2>2 DEF TypeOK, file
  <1>4. OnceOK'
    BY <1>1 DEF OnceOK, Loading
  <1>5. AnswersOK'
    BY DEF AnswersOK
  <1>6. WalkOK' /\ ChainLinked' /\ OrderOK' /\ WholeChainServed'
    BY <1>1 DEF WalkOK, ChainLinked, OrderOK, WholeChainServed
  <1> QED
    BY <1>3, <1>4, <1>5, <1>6

LEMMA StartStep == ASSUME NEW c \in Conns, IInv, Start(c) PROVE IInv'
  <1> USE DEF IInv, Start
  <1>1. ordered = <<>> /\ used = {} /\ DOMAIN ordered = {} /\ Parsed' = Parsed
    BY DEF OnceOK, Parsed
  <1>2. at' \in Parsed
    <2>1. Parsed \in SUBSET Nat /\ Tops \subseteq Parsed
      BY DEF Parsed, Tops, TypeOK
    <2> QED
      BY <2>1, FirstIn
  <1>3. TypeOK'
    BY <1>1, <1>2 DEF TypeOK, file
  <1>4. OnceOK'
    BY DEF OnceOK, Loading
  <1>5. WalkOK' /\ ChainLinked' /\ WholeChainServed' /\ AnswersOK'
    BY <1>1, <1>2 DEF WalkOK, ChainLinked, WholeChainServed, AnswersOK, OnceOK, Loading
  <1>6. OrderOK'
    <2> SUFFICES ASSUME InOrder(blocks) PROVE at' = 2
      BY <1>1 DEF OrderOK, InOrder, SelfSigned
    <2>1. Parsed = 2..Len(blocks) /\ Tops = {} /\ 2 \in Parsed
      BY OrderedParsed DEF TypeOK, InOrder
    <2>2. First(Parsed) = 2
      BY <2>1, FirstIs
    <2> QED
      BY <2>1, <2>2
  <1> QED
    BY <1>3, <1>4, <1>5, <1>6

LEMMA WalkEndsStep == ASSUME NEW c \in Conns, IInv, WalkEnds(c) PROVE IInv'
  <1> USE DEF IInv, WalkEnds
  <1>1. Parsed' = Parsed
    BY DEF Parsed
  <1>2. TypeOK' /\ OnceOK'
    BY <1>1 DEF TypeOK, file, OnceOK, Loading
  <1>3. WalkOK' /\ ChainLinked' /\ WholeChainServed' /\ AnswersOK'
    BY <1>1 DEF WalkOK, ChainLinked, SelfSigned, WholeChainServed, InOrder, AnswersOK
  <1>4. OrderOK'
    <2> SUFFICES ASSUME InOrder(blocks) PROVE Len(ordered) = Len(blocks) - 2
      BY DEF OrderOK, InOrder, SelfSigned
    <2>1. at \in Parsed /\ SelfSigned(blocks[at]) /\ at = Len(ordered) + 2
      BY DEF WalkOK, OrderOK
    <2>2. at = Len(blocks)
      BY <2>1, OrderedParsed DEF TypeOK
    <2> QED
      BY <2>1, <2>2 DEF TypeOK
  <1> QED
    BY <1>2, <1>3, <1>4

LEMMA KeyStep == ASSUME NEW c \in Conns, IInv, Key(c) PROVE IInv'
  <1> USE DEF IInv, Key, LoadEnds
  <1>1. Parsed' = Parsed /\ config' = Chain /\ Return(c, Chain, FALSE)
    BY DEF Parsed
  <1>2. /\ Chain \in Seq(Certs)
        /\ Len(Chain) = Len(ordered) + 1
        /\ \A i \in 1..Len(Chain) : Chain[i] = IF i = 1 THEN blocks[1] ELSE blocks[ordered[i - 1]]
    <2>1. blocks[1] \in Certs /\ \A i \in Parsed : blocks[i] \in Certs
      BY DEF TypeOK, Parsed, OnceOK, Loading
    <2>2. ordered \in Seq(Parsed)
      BY DEF TypeOK
    <2>3. [i \in DOMAIN ordered |-> blocks[ordered[i]]] \in Seq(Certs)
      BY <2>1, <2>2
    <2> QED
      BY <2>1, <2>2, <2>3 DEF Chain
  <1>3. FALSE \in BOOLEAN
    OBVIOUS
  <1>4. TypeOK'
    BY <1>1, <1>2, <1>3, ReturnTyped DEF TypeOK, file
  <1>5. OnceOK'
    BY <1>1 DEF OnceOK, Loading, TypeOK, Return, Goto
  <1>6. WalkOK' /\ ChainLinked' /\ OrderOK'
    BY <1>1 DEF WalkOK, ChainLinked, SelfSigned, OrderOK, InOrder
  <1>7. AnswersOK'
    <2>1. config = <<>>
      BY DEF OnceOK, Loading
    <2>2. \A d \in Conns : answer'[d].config = IF d = c THEN Chain ELSE answer[d].config
      BY <1>1, <1>2, <1>3, ReturnTyped
    <2>3. config' = Chain
      BY <1>1
    <2> QED
      BY <2>1, <2>2, <2>3 DEF AnswersOK
  <1>8. WholeChainServed'
    <2> SUFFICES ASSUME InOrder(blocks) PROVE Chain = SubSeq(blocks, 1, Len(blocks) - 1)
      BY <1>1 DEF WholeChainServed, InOrder, SelfSigned
    <2>1. Len(ordered) = Len(blocks) - 2 /\ \A i \in DOMAIN ordered : ordered[i] = i + 1
      BY DEF OrderOK
    <2>2. blocks \in Seq(Certs) /\ Len(blocks) > 1 /\ ordered \in Seq(Parsed)
      BY DEF TypeOK, InOrder
    <2>3. Len(Chain) = Len(blocks) - 1
      BY <1>2, <2>1, <2>2
    <2>4. ASSUME NEW i \in 1..Len(Chain) PROVE Chain[i] = blocks[i]
      <3>1. CASE i = 1
        BY <1>2, <3>1
      <3>2. CASE i # 1
        <4>1. i - 1 \in 1..Len(ordered) /\ i \in Nat
          BY <1>2, <2>2, <3>2
        <4>2. ordered[i - 1] = i
          BY <2>1, <2>2, <4>1
        <4> QED
          BY <1>2, <3>2, <4>2
      <3> QED
        BY <3>1, <3>2
    <2>5. SubSeq(blocks, 1, Len(blocks) - 1) = [i \in 1..(Len(blocks) - 1) |-> blocks[i]]
      BY <2>2
    <2>6. Chain = [i \in 1..Len(Chain) |-> Chain[i]]
      BY <1>2
    <2> QED
      BY <2>2, <2>3, <2>4, <2>5, <2>6
  <1> QED
    BY <1>4, <1>5, <1>6, <1>7, <1>8

\* What a round leaves: one certificate more, linked to the last, used.
LEMMA EmitStep == ASSUME NEW c \in Conns, IInv, Emit(c) PROVE IInv'
  <1> DEFINE n == Len(ordered)
             more == Nexts \ {at}
  <1> USE DEF IInv, Emit
  <1>1. Parsed' = Parsed /\ blocks' = blocks
    BY DEF Parsed
  <1>2. /\ n \in Nat /\ DOMAIN ordered = 1..n
        /\ \A i \in 1..n : ordered[i] \in Parsed
        /\ at \in Parsed /\ at \notin used
    BY DEF TypeOK, WalkOK
  <1>3. /\ ordered' \in Seq(Parsed) /\ Len(ordered') = n + 1 /\ DOMAIN ordered' = 1..(n + 1)
        /\ ordered'[n + 1] = at
        /\ \A i \in 1..n : ordered'[i] = ordered[i]
    BY <1>2 DEF TypeOK
  <1>4. /\ more \in SUBSET Nat /\ more \subseteq Parsed
        /\ \A i \in more : blocks[i].subj = blocks[at].iss /\ i \notin used'
    BY DEF Nexts, Parsed, TypeOK
  <1>5. step' = "walk" => at' = First(more) /\ at' \in more
    BY <1>4, FirstIn
  <1>6. TypeOK'
    <2>1. at' \in Parsed \union {0}
      BY <1>4, FirstIn, <1>2
    <2> QED
      BY <1>1, <1>2, <1>3, <2>1 DEF TypeOK, file
  <1>7. OnceOK'
    BY DEF OnceOK, Loading
  <1>8. WalkOK'
    <2>1. \A i \in 1..(n + 1) : ordered'[i] \in used'
      BY <1>2, <1>3 DEF WalkOK
    <2>2. step' = "walk" => at' \in Parsed' /\ at' \notin used'
                           /\ blocks'[ordered'[n + 1]].iss = blocks'[at'].subj
      BY <1>1, <1>3, <1>4, <1>5
    <2> QED
      BY <1>3, <2>1, <2>2 DEF WalkOK
  <1>9. ChainLinked'
    <2> SUFFICES ASSUME NEW i \in 1..(n + 1)
                 PROVE  /\ ~SelfSigned(blocks[ordered'[i]])
                        /\ i > 1 => blocks[ordered'[i - 1]].iss = blocks[ordered'[i]].subj
                        /\ \A j \in 1..(n + 1) : ordered'[i] = ordered'[j] => i = j
      BY <1>1, <1>3 DEF ChainLinked, SelfSigned
    <2>1. \A j \in 1..n : ordered[j] # at
      BY <1>2 DEF WalkOK
    <2>2. CASE i \in 1..n
      BY <2>1, <2>2, <1>2, <1>3 DEF ChainLinked
    <2>3. CASE i = n + 1
      <3>1. ordered'[i] = at /\ ~SelfSigned(blocks[at])
        BY <2>3, <1>3
      <3>2. i > 1 => i - 1 = n /\ n \in 1..n
        BY <2>3, <1>2
      <3>5. i > 1 => ordered # <<>>
        BY <3>2, <1>2
      <3>6. i > 1 => ordered'[i - 1] = ordered[n]
        BY <3>2, <1>3
      <3>3. ordered # <<>> => blocks[ordered[n]].iss = blocks[at].subj
        BY DEF WalkOK
      <3>4. \A j \in 1..(n + 1) : ordered'[j] = at => j = n + 1
        BY <2>1, <1>2, <1>3
      <3> QED
        BY <2>3, <3>1, <3>2, <3>3, <3>4, <3>5, <3>6
    <2> QED
      BY <2>2, <2>3, <1>2
  <1>10. WholeChainServed' /\ AnswersOK'
    BY DEF WholeChainServed, AnswersOK, OnceOK, Loading
  <1>11. OrderOK'
    <2> SUFFICES ASSUME InOrder(blocks)
                 PROVE  /\ \A i \in 1..(n + 1) : ordered'[i] = i + 1
                        /\ used' \subseteq 2..(n + 2)
                        /\ step' = "walk" => at' = n + 3
                        /\ step' = "key" => n + 1 = Len(blocks) - 2
      BY <1>1, <1>3 DEF OrderOK, InOrder, SelfSigned
    <2>1. /\ at = n + 2 /\ used \subseteq 2..(n + 1)
          /\ \A i \in 1..n : ordered[i] = i + 1
      BY <1>2 DEF OrderOK
    <2>2. at < Len(blocks) /\ blocks \in Seq(Certs)
      BY OrderedParsed, <1>2 DEF TypeOK, Parsed
    <2>3. {j \in Parsed : blocks[j].subj = blocks[at].iss} = {at + 1}
      BY <2>2, <1>2, OrderedParsed
    <2>4. more = {at + 1}
      BY <2>1, <2>3, <1>2 DEF Nexts
    <2>5. Known(blocks[at].iss)
      BY <2>3 DEF Known
    <2>6. step' = "walk"
      BY <2>4, <2>5
    <2>7. at' = n + 3
      BY <2>1, <2>4, <2>6, <1>2, <1>5
    <2>8. \A i \in 1..(n + 1) : ordered'[i] = i + 1
      BY <2>1, <1>2, <1>3
    <2>9. used' = used \union {at}
      OBVIOUS
    <2>10. used' \subseteq 2..(n + 2)
      <3> SUFFICES ASSUME NEW x \in used' PROVE x \in 2..(n + 2)
        OBVIOUS
      <3>1. CASE x = at
        BY <3>1, <2>1, <1>2
      <3>2. CASE x \in used
        BY <3>2, <2>1, <1>2
      <3> QED
        BY <3>1, <3>2, <2>9
    <2> QED
      BY <2>6, <2>7, <2>8, <2>10
  <1> QED
    BY <1>6, <1>7, <1>8, <1>9, <1>10, <1>11

LEMMA NextIInv == IInv /\ [Next]_vars => IInv'
  <1> SUFFICES ASSUME IInv, [Next]_vars PROVE IInv'
    OBVIOUS
  <1>1. CASE Rotate
    BY <1>1, RotateStep
  <1>2. ASSUME NEW c \in Conns, Call(c) \/ GetTLSConfig(c) PROVE IInv'
    BY <1>2, CallStep, EnterStep, AnswerStep, LoadFailsStep, ReadStep, StartPanicsStep,
       StartStep, EmitStep, WalkEndsStep, KeyStep DEF GetTLSConfig
  <1>3. CASE UNCHANGED vars
    <2>1. Parsed' = Parsed
      BY <1>3 DEF vars, load, file, Parsed
    <2>2. TypeOK' /\ AnswersOK' /\ \A c \in Conns : Loading(c)' => Loading(c)
      BY <1>3, <2>1 DEF vars, IInv, TypeOK, AnswersOK, Loading
    <2> QED
      BY <1>3, <2>2, KeptByOthers DEF vars, IInv, load
  <1> QED
    BY <1>1, <1>2, <1>3 DEF Next

----
\* Theorems

\* The invariant holds in every reachable state.
THEOREM Invariance == SafeSpec => []IInv
  BY InitIInv, NextIInv, PTL DEF SafeSpec

\* Type correctness of the configuration's load.
THEOREM TypeCorrect == SafeSpec => []TypeOK
  <1>1. IInv => TypeOK
    BY DEF IInv
  <1> QED
    BY <1>1, Invariance, PTL

\* Whatever the file holds, what orderChain emits is linked, without a root and
\* without a repetition (server.go:267-270).
THEOREM Linked == SafeSpec => []ChainLinked
  <1>1. IInv => ChainLinked
    BY DEF IInv
  <1> QED
    BY <1>1, Invariance, PTL

\* A file in order, however long, is served whole but for its root (server.go:224-232).
THEOREM ServedWhole == SafeSpec => []WholeChainServed
  <1>1. IInv => WholeChainServed
    BY DEF IInv
  <1> QED
    BY <1>1, Invariance, PTL

\* All calls that get a configuration get the same one (server.go:67-73).
THEOREM SameForAll == SafeSpec => []OneConfig
  <1>1. IInv => OneConfig
    BY DEF IInv, AnswersOK, OneConfig
  <1> QED
    BY <1>1, Invariance, PTL
====
