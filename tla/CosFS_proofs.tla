---- MODULE CosFS_proofs ----
(***************************************************************************)
(* Proofs about the file operations, for any number of sessions, names,    *)
(* workers and chunks.  TypeInv is inductive: it says of an upload's       *)
(* buffer that chunk i is at place i or lost, from which the objects get   *)
(* it.  Renamed and Logged are inductive on top of it.                     *)
(***************************************************************************)
EXTENDS CosFS, FiniteSetTheorems, SequenceTheorems, TLAPS

OpsTo(n) == [id : 1..n, kind : Kinds, name : Names, to : Names]

Files == [buf : Contents, sent : 0..MaxChunks, queued : SUBSET (1..MaxChunks),
          copying : SUBSET (1..MaxChunks), refused : BOOLEAN]

\* What is always so of the upload handle f of operation k.
FileGood(f, k) ==
    /\ Len(f.buf) <= f.sent
    /\ f.queued \subseteq 1..f.sent
    /\ f.copying \subseteq 1..Len(f.buf)
    /\ Cardinality(f.queued \union f.copying) <= Workers
    /\ \A i \in 1..Len(f.buf) : f.buf[i] \in {Garbage, <<k, i>>}

Objects == {c \in Contents : InPlace(c)} \union {NoObject}

Events == [action : Actions, ok : BOOLEAN]

TypeInv ==
    /\ objects \in [Names -> Objects]
    /\ folders \subseteq Names
    /\ ops \in 0..MaxOps
    /\ pc \in [Sessions -> Labels]
    /\ op \in [Sessions -> {NoOp} \union OpsTo(ops)]
    /\ \A s \in Sessions : pc[s] # "idle" => op[s] \in OpsTo(ops)
    /\ file \in [Sessions -> Files]
    /\ \A s \in Sessions : FileGood(file[s], op[s].id)
    /\ said \in [Sessions -> Seq(Events)]
    /\ told \in [Sessions -> {"nothing", "ok", "failed"}]
    /\ base \in [Sessions -> Objects]
    /\ alone \in [Sessions -> BOOLEAN]

----
\* Upload handles

\* An empty handle is a good one.
LEMMA NewFileGood ==
  ASSUME NEW k
  PROVE  NewFile \in Files /\ FileGood(NewFile, k)
  <1>1. <<>> \in Contents /\ Len(<<>>) = 0
    BY EmptySeq, CosFSAssumption DEF Contents
  <1>2. NewFile \in Files
    BY <1>1, CosFSAssumption DEF NewFile, Files
  <1>3. Cardinality({} \union {}) <= Workers
    <2>1. {} \union {} = {}
      OBVIOUS
    <2> QED
      BY <2>1, FS_EmptySet, CosFSAssumption
  <1> QED
    BY <1>1, <1>2, <1>3 DEF FileGood, NewFile

\* What a good handle holds can be put in the bucket, and so can nothing.
LEMMA GoodBody ==
  ASSUME NEW f \in Files, NEW k, FileGood(f, k)
  PROVE  f.buf \in Objects /\ <<>> \in Objects
  <1>1. <<>> \in Contents /\ InPlace(<<>>)
    BY EmptySeq, CosFSAssumption DEF Contents, InPlace
  <1>2. f.buf \in Contents
    BY DEF Files
  <1>3. InPlace(f.buf)
    <2> SUFFICES ASSUME NEW i \in 1..Len(f.buf), NEW j \in 1..Len(f.buf),
                        f.buf[i] # Garbage
                 PROVE  /\ f.buf[i][2] = i
                        /\ f.buf[j] # Garbage => f.buf[i][1] = f.buf[j][1]
      BY DEF InPlace
    <2>1. f.buf[i] = <<k, i>> /\ f.buf[j] \in {Garbage, <<k, j>>}
      BY DEF FileGood
    <2> QED
      BY <2>1
  <1> QED
    BY <1>1, <1>2, <1>3 DEF Objects

\* The pieces an operation may put in a buffer.
LEMMA ChunkPiece ==
  ASSUME TypeInv, NEW s \in Sessions, pc[s] # "idle", NEW i \in 1..MaxChunks
  PROVE  Chunk(s, i) \in Pieces /\ Garbage \in Pieces
  <1>1. op[s].id \in 1..ops /\ ops \in 0..MaxOps
    BY DEF TypeInv, OpsTo
  <1> QED
    BY <1>1, CosFSAssumption DEF Chunk, Garbage, Pieces

\* A chunk appended to a handle that has sent more than it holds keeps it good.
LEMMA AppendGood ==
  ASSUME TypeInv, NEW s \in Sessions, pc[s] # "idle",
         NEW p \in {Garbage, Chunk(s, Len(file[s].buf) + 1)},
         Len(file[s].buf) < MaxChunks
  PROVE  LET b == Append(file[s].buf, p) IN
         /\ b \in Contents
         /\ Len(b) = Len(file[s].buf) + 1
         /\ \A i \in 1..Len(b) : b[i] \in {Garbage, <<op[s].id, i>>}
  <1> DEFINE old == file[s].buf
             b == Append(old, p)
  <1>1. /\ old \in Seq(Pieces) /\ Len(old) \in Nat
        /\ \A i \in 1..Len(old) : old[i] \in {Garbage, <<op[s].id, i>>}
    <2>1. file[s] \in Files /\ FileGood(file[s], op[s].id)
      BY DEF TypeInv
    <2>2. old \in Seq(Pieces)
      BY <2>1 DEF Files, Contents
    <2> QED
      BY <2>1, <2>2, LenProperties DEF FileGood
  <1>2. p \in Pieces
    <2>1. Len(old) + 1 \in 1..MaxChunks
      BY <1>1, CosFSAssumption
    <2> QED
      BY <2>1, ChunkPiece
  <1>3. /\ b \in Seq(Pieces) /\ Len(b) = Len(old) + 1
        /\ \A i \in 1..Len(old) : b[i] = old[i]
        /\ b[Len(old) + 1] = p
    BY <1>1, <1>2, AppendProperties
  <1>4. b \in Contents
    BY <1>1, <1>3, CosFSAssumption DEF Contents
  <1>5. ASSUME NEW i \in 1..Len(b) PROVE b[i] \in {Garbage, <<op[s].id, i>>}
    <2>1. CASE i = Len(old) + 1
      BY <1>3, <2>1 DEF Chunk
    <2>2. CASE i \in 1..Len(old)
      BY <1>1, <1>3, <2>2
    <2> QED
      BY <1>1, <1>3, <2>1, <2>2
  <1> QED
    BY <1>3, <1>4, <1>5

\* The requests a handle's workers have are finitely many.
LEMMA BusyFinite ==
  ASSUME NEW f \in Files
  PROVE  IsFiniteSet(f.queued \union f.copying)
  <1>1. IsFiniteSet(1..MaxChunks)
    BY CosFSAssumption, FS_Interval, 1 \in Int, MaxChunks \in Int
  <1> QED
    BY <1>1, FS_Subset, f.queued \union f.copying \subseteq 1..MaxChunks DEF Files

\* Fewer busy workers are not too many.
LEMMA FewerBusy ==
  ASSUME NEW f \in Files, Cardinality(f.queued \union f.copying) <= Workers,
         NEW W \in SUBSET (f.queued \union f.copying)
  PROVE  Cardinality(W) <= Workers
  <1>1. IsFiniteSet(f.queued \union f.copying)
    BY BusyFinite
  <1>2. Cardinality(W) <= Cardinality(f.queued \union f.copying) /\ IsFiniteSet(W)
    BY <1>1, FS_Subset
  <1>3. Cardinality(W) \in Nat /\ Cardinality(f.queued \union f.copying) \in Nat
    BY <1>1, <1>2, FS_CardinalityType
  <1> QED
    BY <1>2, <1>3, CosFSAssumption

\* Every action of an upload leaves a good handle.
LEMMA UploadGood ==
  ASSUME TypeInv, NEW s \in Sessions,
         Write(s) \/ Dispatch(s) \/ WriteAt(s) \/ CopyChunk(s)
  PROVE  \E f \in Files : FileGood(f, op[s].id) /\ file' = [file EXCEPT ![s] = f]
  <1> DEFINE f == file[s]
  <1>0. /\ f \in Files /\ FileGood(f, op[s].id) /\ f.buf \in Seq(Pieces)
        /\ Len(f.buf) \in 0..MaxChunks /\ f.sent \in 0..MaxChunks
        /\ pc[s] # "idle"
    <2>1. f \in Files /\ FileGood(f, op[s].id) /\ pc[s] # "idle"
      BY DEF TypeInv, Write, Dispatch, WriteAt, CopyChunk
    <2>2. f.buf \in Seq(Pieces) /\ Len(f.buf) <= MaxChunks /\ f.sent \in 0..MaxChunks
      BY <2>1 DEF Files, Contents
    <2> QED
      BY <2>1, <2>2, LenProperties, CosFSAssumption
  <1>1. CASE Write(s)
    <2> DEFINE b == Append(f.buf, Chunk(s, Len(f.buf) + 1))
               g == [f EXCEPT !.sent = f.sent + 1, !.buf = b]
    <2>1. f.sent < MaxChunks /\ Len(f.buf) < MaxChunks
      BY <1>0, <1>1, CosFSAssumption DEF Write, FileGood
    <2>2. /\ b \in Contents /\ Len(b) = Len(f.buf) + 1
          /\ \A i \in 1..Len(b) : b[i] \in {Garbage, <<op[s].id, i>>}
      BY <1>0, <2>1, AppendGood
    <2>3. file' = [file EXCEPT ![s] = g]
      BY <1>0, <1>1 DEF Write, TypeInv
    <2> HIDE DEF b
    <2>4. g \in Files
      <3>1. f.sent + 1 \in 0..MaxChunks
        BY <1>0, <2>1, CosFSAssumption
      <3> QED
        BY <1>0, <2>2, <3>1 DEF Files
    <2>5. FileGood(g, op[s].id)
      BY <1>0, <2>1, <2>2, CosFSAssumption DEF FileGood
    <2> QED
      BY <2>3, <2>4, <2>5
  <1>2. CASE Dispatch(s)
    <2> DEFINE n == f.sent + 1
               busy == f.queued \union f.copying
               g == [f EXCEPT !.sent = n, !.queued = f.queued \union {n}]
    <2>1. f.sent < MaxChunks /\ n \in 1..MaxChunks
      BY <1>0, <1>2, CosFSAssumption DEF Dispatch
    <2>2. file' = [file EXCEPT ![s] = g]
      BY <1>0, <1>2 DEF Dispatch, TypeInv
    <2>3. Cardinality((f.queued \union {n}) \union f.copying) <= Workers
      <3>1. (f.queued \union {n}) \union f.copying = busy \union {n}
        OBVIOUS
      <3>2. /\ IsFiniteSet(busy) /\ Cardinality(busy) \in Nat
            /\ Cardinality(busy) < Workers
        BY <1>0, <1>2, BusyFinite, FS_CardinalityType DEF Dispatch
      <3> HIDE DEF busy, n
      <3>3. Cardinality(busy \union {n})
               = IF n \in busy THEN Cardinality(busy) ELSE Cardinality(busy) + 1
        BY <3>2, FS_AddElement
      <3>4. Cardinality(busy \union {n}) <= Workers
        BY <3>2, <3>3, CosFSAssumption
      <3> QED
        BY <3>1, <3>4
    <2>4. g \in Files
      <3>1. n \in 0..MaxChunks /\ f.queued \union {n} \in SUBSET (1..MaxChunks)
        BY <1>0, <2>1 DEF Files
      <3> HIDE DEF n
      <3> QED
        BY <1>0, <3>1 DEF Files
    <2>5. FileGood(g, op[s].id)
      BY <1>0, <2>1, <2>3 DEF FileGood
    <2> QED
      BY <2>2, <2>4, <2>5
  <1>3. CASE WriteAt(s)
    <2>1. PICK i \in f.queued :
             file' = IF i = Len(f.buf) + 1
                     THEN [file EXCEPT ![s].queued = @ \ {i},
                                       ![s].buf = Append(@, Garbage),
                                       ![s].copying = @ \union {i}]
                     ELSE [file EXCEPT ![s].queued = @ \ {i},
                                       ![s].refused = TRUE]
      BY <1>3 DEF WriteAt
    <2>2. i \in 1..f.sent
      BY <1>0 DEF FileGood
    <2>3. CASE i = Len(f.buf) + 1
      <3> DEFINE b == Append(f.buf, Garbage)
                 g == [f EXCEPT !.queued = f.queued \ {i}, !.buf = b,
                                !.copying = f.copying \union {i}]
      <3>1. Len(f.buf) < MaxChunks
        BY <1>0, <2>2, <2>3, CosFSAssumption
      <3>2. /\ b \in Contents /\ Len(b) = Len(f.buf) + 1
            /\ \A j \in 1..Len(b) : b[j] \in {Garbage, <<op[s].id, j>>}
        BY <1>0, <3>1, AppendGood
      <3>3. file' = [file EXCEPT ![s] = g]
        BY <1>0, <2>1, <2>3 DEF TypeInv
      <3>4. Cardinality((f.queued \ {i}) \union (f.copying \union {i})) <= Workers
        BY <1>0, FewerBusy,
           (f.queued \ {i}) \union (f.copying \union {i})
              \subseteq f.queued \union f.copying DEF FileGood
      <3> HIDE DEF b
      <3>5. g \in Files
        BY <1>0, <2>2, <3>2 DEF Files
      <3>6. FileGood(g, op[s].id)
        BY <1>0, <2>2, <2>3, <3>2, <3>4 DEF FileGood
      <3> QED
        BY <3>3, <3>5, <3>6
    <2>4. CASE i # Len(f.buf) + 1
      <3> DEFINE g == [f EXCEPT !.queued = f.queued \ {i}, !.refused = TRUE]
      <3>1. file' = [file EXCEPT ![s] = g]
        BY <1>0, <2>1, <2>4 DEF TypeInv
      <3>2. Cardinality((f.queued \ {i}) \union f.copying) <= Workers
        BY <1>0, FewerBusy,
           (f.queued \ {i}) \union f.copying \subseteq f.queued \union f.copying
           DEF FileGood
      <3>3. g \in Files
        BY <1>0 DEF Files
      <3>4. FileGood(g, op[s].id)
        BY <1>0, <3>2 DEF FileGood
      <3> QED
        BY <3>1, <3>3, <3>4
    <2> QED
      BY <2>3, <2>4
  <1>4. CASE CopyChunk(s)
    <2>0. PICK i \in f.copying :
             \E p \in {Garbage, Chunk(s, i)} :
                file' = [file EXCEPT ![s].copying = @ \ {i}, ![s].buf[i] = p]
      BY <1>4 DEF CopyChunk
    <2>1. PICK p \in {Garbage, Chunk(s, i)} :
             file' = [file EXCEPT ![s].copying = @ \ {i}, ![s].buf[i] = p]
      BY <2>0
    <2> DEFINE b == [f.buf EXCEPT ![i] = p]
               g == [f EXCEPT !.copying = f.copying \ {i}, !.buf = b]
    <2>2. i \in 1..Len(f.buf) /\ i \in 1..MaxChunks
      BY <1>0 DEF FileGood, Files
    <2>3. p \in Pieces
      BY <1>0, <2>2, ChunkPiece
    <2>4. /\ b \in Seq(Pieces) /\ Len(b) = Len(f.buf)
          /\ \A j \in 1..Len(f.buf) : b[j] = IF j = i THEN p ELSE f.buf[j]
      BY <1>0, <2>2, <2>3, ExceptSeq
    <2>5. \A j \in 1..Len(b) : b[j] \in {Garbage, <<op[s].id, j>>}
      <3>1. \A j \in 1..Len(f.buf) : f.buf[j] \in {Garbage, <<op[s].id, j>>}
        BY <1>0 DEF FileGood
      <3>2. p \in {Garbage, <<op[s].id, i>>}
        BY DEF Chunk
      <3> QED
        BY <2>4, <3>1, <3>2
    <2>6. file' = [file EXCEPT ![s] = g]
      BY <1>0, <2>1 DEF TypeInv
    <2>7. Cardinality(f.queued \union (f.copying \ {i})) <= Workers
      BY <1>0, FewerBusy,
         f.queued \union (f.copying \ {i}) \subseteq f.queued \union f.copying
         DEF FileGood
    <2> HIDE DEF b
    <2>8. g \in Files
      BY <1>0, <2>4 DEF Files, Contents
    <2>9. FileGood(g, op[s].id)
      BY <1>0, <2>4, <2>5, <2>7 DEF FileGood
    <2> QED
      BY <2>6, <2>8, <2>9
  <1> QED
    BY <1>1, <1>2, <1>3, <1>4

----
\* Types

\* At the start nothing has been done.
LEMMA TypeInit == Init => TypeInv
  <1> SUFFICES ASSUME Init PROVE TypeInv
    OBVIOUS
  <1>1. << <<0, 1>> >> \in Objects /\ NoObject \in Objects
    <2>1. <<0, 1>> \in Pieces
      BY CosFSAssumption DEF Pieces
    <2>2. << <<0, 1>> >> \in Seq(Pieces) /\ Len(<< <<0, 1>> >>) = 1
      BY <2>1
    <2>3. InPlace(<< <<0, 1>> >>)
      BY DEF InPlace
    <2> QED
      BY <2>2, <2>3, CosFSAssumption DEF Objects, Contents
  <1>2. objects \in [Names -> Objects]
    <2>1. objects \in [Names -> {NoObject, << <<0, 1>> >>}]
      BY DEF Init
    <2> QED
      BY <1>1, <2>1
  <1>3. file \in [Sessions -> Files] /\ \A s \in Sessions : FileGood(file[s], op[s].id)
    BY NewFileGood DEF Init
  <1>4. said \in [Sessions -> Seq(Events)]
    BY EmptySeq DEF Init
  <1>5. /\ folders \subseteq Names
        /\ ops \in 0..MaxOps
        /\ pc \in [Sessions -> Labels] /\ \A s \in Sessions : pc[s] = "idle"
        /\ op \in [Sessions -> {NoOp} \union OpsTo(ops)]
        /\ told \in [Sessions -> {"nothing", "ok", "failed"}]
        /\ base \in [Sessions -> Objects]
        /\ alone \in [Sessions -> BOOLEAN]
    BY <1>1, CosFSAssumption DEF Init, Labels
  <1> QED
    BY <1>2, <1>3, <1>4, <1>5 DEF TypeInv

\* A handle changed into a good one leaves all of them good.
LEMMA FilesKept ==
  ASSUME TypeInv, NEW s \in Sessions, NEW f \in Files, FileGood(f, op[s].id),
         file' = [file EXCEPT ![s] = f], op' = op
  PROVE  /\ file' \in [Sessions -> Files]
         /\ \A t \in Sessions : FileGood(file'[t], op'[t].id)
  <1>1. file \in [Sessions -> Files] /\ \A t \in Sessions : FileGood(file[t], op[t].id)
    BY DEF TypeInv
  <1>2. \A t \in Sessions : file'[t] = IF t = s THEN f ELSE file[t]
    BY <1>1
  <1> QED
    BY <1>1, <1>2

\* Logging an event, and answering the client, keep the types.
LEMMA LogTypes ==
  ASSUME TypeInv, NEW s \in Sessions, NEW a \in Actions, NEW ok \in BOOLEAN,
         Log(s, a, ok)
  PROVE  /\ said' \in [Sessions -> Seq(Events)]
         /\ said'[s] = Append(said[s], [action |-> a, ok |-> ok])
         /\ \A t \in Sessions : t # s => said'[t] = said[t]
  <1>1. said \in [Sessions -> Seq(Events)] /\ [action |-> a, ok |-> ok] \in Events
    BY DEF TypeInv, Events
  <1>2. Append(said[s], [action |-> a, ok |-> ok]) \in Seq(Events)
    BY <1>1, AppendProperties
  <1>3. said' = [said EXCEPT ![s] = Append(said[s], [action |-> a, ok |-> ok])]
    BY DEF Log
  <1> QED
    BY <1>1, <1>2, <1>3, Zenon

LEMMA AnswerTypes ==
  ASSUME TypeInv, NEW s \in Sessions, NEW ok, Answer(s, ok)
  PROVE  /\ pc' \in [Sessions -> Labels] /\ pc'[s] = "idle"
         /\ told' \in [Sessions -> {"nothing", "ok", "failed"}]
         /\ told'[s] = IF ok THEN "ok" ELSE "failed"
         /\ \A t \in Sessions : t # s => pc'[t] = pc[t] /\ told'[t] = told[t]
  BY DEF TypeInv, Answer, Goto, Labels

\* A request that puts an object, or takes one away, keeps the bucket's type.
LEMMA RequestTypes ==
  ASSUME TypeInv, NEW s \in Sessions, NEW ok, NEW os \in [Names -> Objects],
         Request(s, ok, os)
  PROVE  objects' \in [Names -> Objects] /\ alone' \in [Sessions -> BOOLEAN]
  <1>1. objects' \in [Names -> Objects]
    BY DEF Request, TypeInv
  <1>2. alone' = [t \in Sessions |->
                    /\ alone[t]
                    /\ t = s \/ \A n \in {op[t].name, op[t].to} \cap Names :
                                    objects'[n] = objects[n]]
    BY DEF Request
  <1>3. \A t \in Sessions :
           (/\ alone[t]
            /\ t = s \/ \A n \in {op[t].name, op[t].to} \cap Names :
                            objects'[n] = objects[n]) \in BOOLEAN
    BY Zenon DEF TypeInv
  <1> QED
    BY <1>1, <1>2, <1>3, Zenon

\* Copying an object, and taking it away, keep the bucket's type.
LEMMA ChangedObjects ==
  ASSUME TypeInv, NEW s \in Sessions, pc[s] # "idle"
  PROVE  /\ op[s].name \in Names /\ op[s].to \in Names
         /\ Copied(s) \in [Names -> Objects]
         /\ [objects EXCEPT ![op[s].name] = NoObject] \in [Names -> Objects]
  <1>1. op[s].name \in Names /\ op[s].to \in Names /\ objects \in [Names -> Objects]
    BY DEF TypeInv, OpsTo
  <1>2. NoObject \in Objects
    BY DEF Objects
  <1> QED
    BY <1>1, <1>2 DEF Copied

\* A session begins: its own entries are fresh, and nothing else changes.
LEMMA TypeBegin ==
  ASSUME TypeInv, NEW s \in Sessions, Begin(s)
  PROVE  TypeInv'
  <1>1. ops \in 0..MaxOps /\ ops < MaxOps /\ ops' = ops + 1
    BY DEF Begin, TypeInv
  <1>2. ops' \in 0..MaxOps /\ ops' \in 1..ops' /\ 1..ops \subseteq 1..ops'
    BY <1>1, CosFSAssumption
  <1>3. PICK kind \in Kinds, name \in Names, to \in Names :
           /\ op' = [op EXCEPT ![s] = [id |-> ops', kind |-> kind,
                                       name |-> name, to |-> to]]
           /\ base' = [base EXCEPT ![s] = objects[name]]
           /\ Goto(s, Start(kind))
    BY DEF Begin
  <1> DEFINE o == [id |-> ops', kind |-> kind, name |-> name, to |-> to]
  <1>4. o \in OpsTo(ops') /\ OpsTo(ops) \subseteq OpsTo(ops')
    BY <1>2 DEF OpsTo
  <1> HIDE DEF o
  <1>5. op' = [op EXCEPT ![s] = o]
    BY <1>3 DEF o
  <1>6. /\ op' \in [Sessions -> {NoOp} \union OpsTo(ops')]
        /\ \A t \in Sessions : op'[t] = IF t = s THEN o ELSE op[t]
    BY <1>4, <1>5 DEF TypeInv
  <1>7. Start(kind) \in Labels
    BY DEF Start, Kinds, Labels
  <1>8. /\ pc' \in [Sessions -> Labels]
        /\ \A t \in Sessions : t # s => pc'[t] = pc[t]
    BY <1>3, <1>7 DEF Goto, TypeInv
  <1>9. \A t \in Sessions : pc'[t] # "idle" => op'[t] \in OpsTo(ops')
    BY <1>4, <1>6, <1>8 DEF TypeInv
  <1>10. /\ file' \in [Sessions -> Files]
         /\ \A t \in Sessions : FileGood(file'[t], op'[t].id)
    <2>1. file' = [file EXCEPT ![s] = NewFile]
      BY DEF Begin
    <2>2. file \in [Sessions -> Files]
      BY DEF TypeInv
    <2>3. NewFile \in Files /\ \A k : FileGood(NewFile, k)
      BY NewFileGood
    <2>4. \A t \in Sessions : file'[t] = IF t = s THEN NewFile ELSE file[t]
      BY <2>1, <2>2
    <2>5. \A t \in Sessions : FileGood(file[t], op[t].id)
      BY DEF TypeInv
    <2>6. ASSUME NEW t \in Sessions PROVE FileGood(file'[t], op'[t].id)
      <3>1. CASE t = s
        BY <2>3, <2>4, <3>1
      <3>2. CASE t # s
        BY <1>6, <2>4, <2>5, <3>2
      <3> QED
        BY <3>1, <3>2
    <2> QED
      BY <2>1, <2>2, <2>3, <2>6
  <1>11. said' \in [Sessions -> Seq(Events)]
    BY EmptySeq DEF Begin, TypeInv
  <1>12. told' \in [Sessions -> {"nothing", "ok", "failed"}]
    BY DEF Begin, TypeInv
  <1>13. base' \in [Sessions -> Objects]
    BY <1>3 DEF TypeInv
  <1>14. alone' \in [Sessions -> BOOLEAN]
    BY DEF Begin, TypeInv
  <1>15. objects' \in [Names -> Objects] /\ folders' \subseteq Names
    BY DEF Begin, bucketVars, TypeInv
  <1> QED
    BY <1>2, <1>6, <1>8, <1>9, <1>10, <1>11, <1>12, <1>13, <1>14, <1>15 DEF TypeInv

\* What a step of an operation can do to the variables that only the bucket and
\* the handles are not.
LEMMA TypePlace ==
  ASSUME TypeInv, NEW s \in Sessions, Step(s)
  PROVE  /\ UNCHANGED <<ops, op, base>> /\ pc[s] # "idle"
         /\ pc' \in [Sessions -> Labels]
         /\ told' \in [Sessions -> {"nothing", "ok", "failed"}]
         /\ said' \in [Sessions -> Seq(Events)]
         /\ \A t \in Sessions : t # s => /\ pc'[t] = pc[t] /\ told'[t] = told[t]
                                         /\ said'[t] = said[t]
  <1>1. UNCHANGED <<ops, op, base>> /\ pc[s] # "idle"
    BY DEF Step, Read, Change, Upload, StatFile, StatFolder, ReadDir, Get,
           CloseRead, Mkdir, Remove, RenameCopy, RenameCopyFails, RenameDelete,
           Write, Dispatch, WriteAt, CopyChunk, Close, Put, Request,
           bucketVars, historyVars
  <1>2. CASE /\ UNCHANGED <<said, told>>
             /\ UNCHANGED pc \/ \E l \in Labels : Goto(s, l)
    BY <1>1, <1>2 DEF TypeInv, Goto
  <1>3. CASE /\ \E a \in Actions, ok \in BOOLEAN : Log(s, a, ok)
             /\ \E ok \in BOOLEAN : Answer(s, ok)
    BY <1>1, <1>3, LogTypes, AnswerTypes
  <1> QED
    BY <1>1, <1>2, <1>3
       DEF Step, Read, Change, Upload, StatFile, StatFolder, ReadDir, Get,
           CloseRead, Mkdir, Remove, RenameCopy, RenameCopyFails, RenameDelete,
           Write, Dispatch, WriteAt, CopyChunk, Close, Put, Labels, Actions

\* The steps of an operation keep the types.
LEMMA TypeDone ==
  ASSUME TypeInv, NEW s \in Sessions, Step(s)
  PROVE  TypeInv'
  <1>0. /\ UNCHANGED <<ops, op, base>> /\ pc[s] # "idle"
        /\ pc' \in [Sessions -> Labels]
        /\ told' \in [Sessions -> {"nothing", "ok", "failed"}]
        /\ said' \in [Sessions -> Seq(Events)]
        /\ \A t \in Sessions : pc'[t] # "idle" => pc[t] # "idle"
    BY TypePlace
  <1>1. /\ file' \in [Sessions -> Files]
        /\ \A t \in Sessions : FileGood(file'[t], op'[t].id)
    <2>1. CASE Write(s) \/ Dispatch(s) \/ WriteAt(s) \/ CopyChunk(s)
      BY <1>0, <2>1, UploadGood, FilesKept
    <2>2. CASE UNCHANGED file
      BY <1>0, <2>2 DEF TypeInv
    <2> QED
      BY <2>1, <2>2
         DEF Step, Read, Change, Upload, StatFile, StatFolder, ReadDir, Get,
             CloseRead, Mkdir, Remove, RenameCopy, RenameCopyFails,
             RenameDelete, Close, Put
  <1>2. objects' \in [Names -> Objects] /\ alone' \in [Sessions -> BOOLEAN]
    <2>1. CASE \E ok \in BOOLEAN, os \in [Names -> Objects] : Request(s, ok, os)
      BY <2>1, RequestTypes
    <2>2. CASE UNCHANGED <<objects, alone>>
      BY <2>2 DEF TypeInv
    <2>3. CASE Put(s)
      <3>1. file[s].buf \in Objects /\ <<>> \in Objects
        BY GoodBody DEF TypeInv
      <3>2. PICK ok \in BOOLEAN, body \in {file[s].buf, <<>>} :
               Request(s, ok, [objects EXCEPT ![op[s].name] = body])
        BY <2>3 DEF Put
      <3>3. [objects EXCEPT ![op[s].name] = body] \in [Names -> Objects]
        BY <3>1 DEF TypeInv
      <3> QED
        BY <3>2, <3>3, RequestTypes
    <2>4. CASE Remove(s) \/ RenameCopy(s) \/ RenameCopyFails(s) \/ RenameDelete(s)
      <3>1. /\ Copied(s) \in [Names -> Objects]
            /\ [objects EXCEPT ![op[s].name] = NoObject] \in [Names -> Objects]
            /\ objects \in [Names -> Objects]
        BY <1>0, ChangedObjects DEF TypeInv
      <3> QED
        BY <2>1, <2>4, <3>1 DEF Remove, RenameCopy, RenameCopyFails, RenameDelete
    <2> QED
      BY <2>2, <2>3, <2>4
         DEF Step, Read, Change, Upload, StatFile, StatFolder, ReadDir, Get,
             CloseRead, Mkdir, Write, Dispatch, WriteAt, CopyChunk, Close,
             bucketVars, historyVars
  <1>3. folders' \subseteq Names
    <2>1. CASE Mkdir(s)
      BY <1>0, <2>1, ChangedObjects DEF Mkdir, TypeInv
    <2>2. CASE UNCHANGED folders
      BY <2>2 DEF TypeInv
    <2> QED
      BY <2>1, <2>2
         DEF Step, Read, Change, Upload, StatFile, StatFolder, ReadDir, Get,
             CloseRead, Remove, RenameCopy, RenameCopyFails, RenameDelete,
             Write, Dispatch, WriteAt, CopyChunk, Close, Put, Request,
             bucketVars
  <1> QED
    BY <1>0, <1>1, <1>2, <1>3 DEF TypeInv

LEMMA TypeStep == TypeInv /\ [Next]_vars => TypeInv'
  <1> SUFFICES ASSUME TypeInv, [Next]_vars PROVE TypeInv'
    OBVIOUS
  <1>1. CASE UNCHANGED vars
    BY <1>1 DEF TypeInv, vars
  <1> QED
    BY <1>1, TypeBegin, TypeDone DEF Next

\* What a session does leaves the others where they are; and what it does to
\* their names they know of.
LEMMA OthersLeft ==
  ASSUME TypeInv, NEW s \in Sessions, NEW t \in Sessions, t # s,
         Begin(s) \/ Step(s)
  PROVE  /\ op'[t] = op[t] /\ base'[t] = base[t] /\ pc'[t] = pc[t]
         /\ told'[t] = told[t] /\ said'[t] = said[t]
         /\ alone'[t] =>
               /\ alone[t]
               /\ \A n \in {op[t].name, op[t].to} \cap Names :
                     objects'[n] = objects[n]
  <1>1. CASE Begin(s)
    BY <1>1 DEF Begin, TypeInv, Goto, bucketVars
  <1>2. CASE Step(s)
    <2>1. /\ UNCHANGED <<op, base>>
          /\ pc'[t] = pc[t] /\ told'[t] = told[t] /\ said'[t] = said[t]
      BY <1>2, TypePlace
    <2>2. CASE UNCHANGED <<objects, alone>>
      BY <2>1, <2>2
    <2>3. CASE \E ok, os : Request(s, ok, os)
      <3>1. alone'[t] = /\ alone[t]
                        /\ t = s \/ \A n \in {op[t].name, op[t].to} \cap Names :
                                        objects'[n] = objects[n]
        BY <2>3, Zenon DEF Request
      <3> QED
        BY <2>1, <3>1
    <2> QED
      BY <1>2, <2>2, <2>3
         DEF Step, Read, Change, Upload, StatFile, StatFolder, ReadDir, Get,
             CloseRead, Mkdir, Remove, RenameCopy, RenameCopyFails,
             RenameDelete, Write, Dispatch, WriteAt, CopyChunk, Close, Put,
             bucketVars, historyVars
  <1> QED
    BY <1>1, <1>2

----
\* Events

\* A session's operation has left one event when it has told the client, none
\* before; it agrees with what was told or is an upload's success.
LoggedAt(s) ==
    /\ pc[s] # "idle" => said[s] = <<>> /\ told[s] = "nothing"
    /\ told[s] # "nothing" =>
          /\ Len(said[s]) = 1
          /\ \/ said[s][1].ok = (told[s] = "ok")
             \/ said[s][1].ok /\ said[s][1].action = "UPLOAD"

Logged == \A s \in Sessions : LoggedAt(s)

LEMMA LoggedInit == Init => Logged
  BY DEF Init, Logged, LoggedAt

\* An answer comes with the one event, which agrees with it.
LEMMA LoggedAnswer ==
  ASSUME TypeInv, NEW s \in Sessions, LoggedAt(s), pc[s] # "idle",
         NEW a \in Actions, NEW ok \in BOOLEAN, NEW answer \in BOOLEAN,
         Log(s, a, ok), Answer(s, answer), (a = "UPLOAD" /\ ok) \/ ok = answer
  PROVE  LoggedAt(s)'
  <1>1. said[s] = <<>>
    BY DEF LoggedAt
  <1>2. said'[s] = Append(said[s], [action |-> a, ok |-> ok])
    BY LogTypes
  <1>3. said'[s] = << [action |-> a, ok |-> ok] >>
    BY <1>1, <1>2
  <1>4. /\ Len(said'[s]) = 1
        /\ said'[s][1].action = a /\ said'[s][1].ok = ok
    BY <1>3
  <1>5. pc'[s] = "idle" /\ told'[s] = IF answer THEN "ok" ELSE "failed"
    BY AnswerTypes
  <1>6. (a = "UPLOAD" /\ ok) \/ ok = (told'[s] = "ok")
    BY <1>5
  <1> QED
    BY <1>4, <1>5, <1>6 DEF LoggedAt

\* Every other step of an operation logs and answers nothing.
LEMMA LoggedDone ==
  ASSUME TypeInv, NEW s \in Sessions, LoggedAt(s), Step(s)
  PROVE  LoggedAt(s)'
  <1>0. pc[s] # "idle"
    BY TypePlace
  <1>1. CASE UNCHANGED <<said, told>>
    BY <1>0, <1>1 DEF LoggedAt
  <1>2. CASE \E a \in Actions, ok \in BOOLEAN, answer \in BOOLEAN :
                /\ Log(s, a, ok) /\ Answer(s, answer)
                /\ (a = "UPLOAD" /\ ok) \/ ok = answer
    BY <1>0, <1>2, LoggedAnswer
  <1>3. CASE Put(s)
    <2>1. PICK ok \in BOOLEAN : Answer(s, ok /\ ~file[s].refused)
      BY <1>3 DEF Put
    <2>2. (ok /\ ~file[s].refused) \in BOOLEAN
      OBVIOUS
    <2>3. Log(s, "UPLOAD", TRUE) /\ "UPLOAD" \in Actions
      BY <1>3 DEF Put, Actions
    <2> QED
      BY <1>2, <2>1, <2>2, <2>3, Zenon
  <1>4. CASE ReadDir(s) \/ Mkdir(s) \/ Remove(s) \/ RenameDelete(s)
    <2>1. PICK a \in {"LIST", "MKDIR", "DELETE", "RENAME"}, ok \in BOOLEAN :
             Log(s, a, ok) /\ Answer(s, ok)
      BY <1>4 DEF ReadDir, Mkdir, Remove, RenameDelete
    <2> QED
      BY <1>2, <2>1 DEF Actions
  <1>5. CASE Get(s) \/ CloseRead(s) \/ RenameCopyFails(s)
    BY <1>1, <1>2, <1>5 DEF Get, CloseRead, RenameCopyFails, Actions
  <1> QED
    BY <1>1, <1>3, <1>4, <1>5
       DEF Step, Read, Change, Upload, StatFile, StatFolder, RenameCopy,
           Write, Dispatch, WriteAt, CopyChunk, Close

LEMMA LoggedStep == TypeInv /\ Logged /\ [Next]_vars => Logged'
  <1> SUFFICES ASSUME TypeInv, Logged, [Next]_vars, NEW t \in Sessions
               PROVE  LoggedAt(t)'
    BY DEF Logged
  <1>0. LoggedAt(t)
    BY DEF Logged
  <1>1. ASSUME NEW s \in Sessions, Begin(s) \/ Step(s), s # t
        PROVE  LoggedAt(t)'
    <2>1. pc'[t] = pc[t] /\ told'[t] = told[t] /\ said'[t] = said[t]
      BY <1>1, OthersLeft
    <2> QED
      BY <1>0, <2>1 DEF LoggedAt
  <1>2. CASE Begin(t)
    <2>1. said'[t] = <<>> /\ told'[t] = "nothing"
      BY <1>2 DEF Begin, TypeInv
    <2> QED
      BY <2>1 DEF LoggedAt
  <1>3. CASE Step(t)
    BY <1>0, <1>3, LoggedDone
  <1>4. CASE UNCHANGED vars
    BY <1>0, <1>4 DEF LoggedAt, vars
  <1> QED
    BY <1>1, <1>2, <1>3, <1>4 DEF Next

----
\* Renames

\* Where the file of a rename nobody interferes with is.
RenamedAt(s) ==
    op[s].kind = "rename" =>
       /\ pc[s] \in {"copy", "delete source", "idle"}
       /\ pc[s] # "idle" => told[s] = "nothing"
       /\ op[s].name # op[s].to /\ alone[s] =>
             /\ pc[s] = "copy" => objects[op[s].name] = base[s]
             /\ pc[s] = "delete source" => /\ objects[op[s].name] = base[s]
                                           /\ objects[op[s].to] = base[s]
             /\ base[s] # NoObject
                   => base[s] \in {objects[op[s].name], objects[op[s].to]}
             /\ told[s] = "ok" => /\ objects[op[s].to] = base[s]
                                  /\ objects[op[s].name] = NoObject

Renamed == \A s \in Sessions : RenamedAt(s)

LEMMA RenamedInit == Init => Renamed
  BY DEF Init, Renamed, RenamedAt, NoOp

\* A request of the session's own.
LEMMA OwnRequest ==
  ASSUME TypeInv, NEW s \in Sessions, NEW ok, NEW os, Request(s, ok, os)
  PROVE  /\ objects' = os \/ (~ok /\ objects' = objects)
         /\ alone'[s] = alone[s]
  <1>1. alone'[s] = /\ alone[s]
                    /\ s = s \/ \A n \in {op[s].name, op[s].to} \cap Names :
                                    objects'[n] = objects[n]
    BY Zenon DEF Request
  <1>2. alone[s] \in BOOLEAN
    BY DEF TypeInv
  <1> QED
    BY <1>1, <1>2 DEF Request

\* The two requests of a rename, and their failures.
LEMMA RenamedDone ==
  ASSUME TypeInv, NEW s \in Sessions, RenamedAt(s), Step(s)
  PROVE  RenamedAt(s)'
  <1>0. UNCHANGED <<op, base>>
    BY TypePlace
  <1> SUFFICES ASSUME op[s].kind = "rename" PROVE RenamedAt(s)'
    BY <1>0 DEF RenamedAt
  <1>1. /\ pc[s] \in {"copy", "delete source"} /\ told[s] = "nothing"
        /\ op[s].name \in Names /\ op[s].to \in Names
        /\ objects \in [Names -> Objects]
    BY TypePlace, ChangedObjects DEF RenamedAt, TypeInv
  <1>2. CASE RenameCopy(s)
    <2>1. /\ pc[s] = "copy" /\ pc'[s] = "delete source" /\ told' = told
          /\ objects' = Copied(s) /\ alone'[s] = alone[s]
      BY <1>2, OwnRequest DEF RenameCopy, Goto, TypeInv
    <2>2. ASSUME op[s].name # op[s].to
          PROVE  /\ objects'[op[s].to] = objects[op[s].name]
                 /\ objects'[op[s].name] = objects[op[s].name]
      BY <1>1, <2>1, <2>2 DEF Copied
    <2> QED
      BY <1>0, <1>1, <2>1, <2>2 DEF RenamedAt
  <1>3. CASE RenameCopyFails(s)
    <2>1. /\ pc[s] = "copy" /\ pc'[s] = "idle" /\ told'[s] = "failed"
          /\ objects' = Copied(s) \/ objects' = objects
          /\ alone'[s] = alone[s]
      BY <1>3, OwnRequest, AnswerTypes DEF RenameCopyFails
    <2>2. ASSUME op[s].name # op[s].to
          PROVE  objects'[op[s].name] = objects[op[s].name]
      BY <1>1, <2>1, <2>2 DEF Copied
    <2> QED
      BY <1>0, <1>1, <2>1, <2>2 DEF RenamedAt
  <1>4. CASE RenameDelete(s)
    <2> DEFINE os == [objects EXCEPT ![op[s].name] = NoObject]
    <2>1. PICK ok \in BOOLEAN : Request(s, ok, os) /\ Answer(s, ok)
      BY <1>4 DEF RenameDelete
    <2>2. /\ pc[s] = "delete source" /\ pc'[s] = "idle"
          /\ told'[s] = IF ok THEN "ok" ELSE "failed"
          /\ objects' = os \/ (~ok /\ objects' = objects)
          /\ alone'[s] = alone[s]
      BY <1>4, <2>1, OwnRequest, AnswerTypes DEF RenameDelete
    <2>3. ASSUME op[s].name # op[s].to
          PROVE  /\ objects'[op[s].to] = objects[op[s].to]
                 /\ ok => objects'[op[s].name] = NoObject
      BY <1>1, <2>2, <2>3
    <2> QED
      BY <1>0, <1>1, <2>2, <2>3 DEF RenamedAt
  <1> QED
    BY <1>1, <1>2, <1>3, <1>4
       DEF Step, Read, Change, Upload, StatFile, StatFolder, ReadDir, Get,
           CloseRead, Mkdir, Remove, Write, Dispatch, WriteAt, CopyChunk,
           Close, Put

LEMMA RenamedStep == TypeInv /\ Renamed /\ [Next]_vars => Renamed'
  <1> SUFFICES ASSUME TypeInv, Renamed, [Next]_vars, NEW t \in Sessions
               PROVE  RenamedAt(t)'
    BY DEF Renamed
  <1>0. RenamedAt(t)
    BY DEF Renamed
  <1>1. ASSUME NEW s \in Sessions, Begin(s) \/ Step(s), s # t
        PROVE  RenamedAt(t)'
    <2>1. /\ op'[t] = op[t] /\ base'[t] = base[t] /\ pc'[t] = pc[t]
          /\ told'[t] = told[t]
          /\ alone'[t] =>
                /\ alone[t]
                /\ \A n \in {op[t].name, op[t].to} \cap Names :
                      objects'[n] = objects[n]
      BY <1>1, OthersLeft
    <2>2. op[t].kind = "rename" => op[t].name \in Names /\ op[t].to \in Names
      <3>1. op[t] = NoOp \/ op[t] \in OpsTo(ops)
        BY DEF TypeInv
      <3>2. NoOp.kind # "rename"
        BY DEF NoOp
      <3> QED
        BY <3>1, <3>2 DEF OpsTo
    <2>3. ASSUME op[t].kind = "rename", alone'[t]
          PROVE  /\ alone[t]
                 /\ objects'[op[t].name] = objects[op[t].name]
                 /\ objects'[op[t].to] = objects[op[t].to]
      BY <2>1, <2>2, <2>3
    <2> QED
      BY <1>0, <2>1, <2>3 DEF RenamedAt
  <1>2. CASE Begin(t)
    <2>1. PICK kind \in Kinds, name \in Names, to \in Names :
             /\ op' = [op EXCEPT ![t] = [id |-> ops', kind |-> kind,
                                         name |-> name, to |-> to]]
             /\ base' = [base EXCEPT ![t] = objects[name]]
             /\ Goto(t, Start(kind))
      BY <1>2 DEF Begin
    <2>2. op'[t] = [id |-> ops', kind |-> kind, name |-> name, to |-> to]
      BY <2>1 DEF TypeInv
    <2>3. /\ op'[t].kind = kind /\ op'[t].name = name
          /\ base'[t] = objects[name] /\ pc'[t] = Start(kind)
      BY <2>1, <2>2 DEF TypeInv, Goto
    <2>4. told'[t] = "nothing" /\ objects' = objects
      BY <1>2 DEF Begin, TypeInv, bucketVars
    <2>5. Start("rename") = "copy"
      BY DEF Start
    <2> QED
      BY <2>3, <2>4, <2>5 DEF RenamedAt
  <1>3. CASE Step(t)
    BY <1>0, <1>3, RenamedDone
  <1>4. CASE UNCHANGED vars
    BY <1>0, <1>4 DEF RenamedAt, vars
  <1> QED
    BY <1>1, <1>2, <1>3, <1>4 DEF Next

----
\* The refinement of FileStore

\* What is left to do of an operation, first and after that.
LEMMA Lists ==
  /\ \A e : <<e>> # <<>> /\ Len(<<e>>) = 1 /\ Head(<<e>>) = e /\ Tail(<<e>>) = <<>>
  /\ \A e, f : <<e, f>> # <<>> /\ Head(<<e, f>>) = e /\ Tail(<<e, f>>) = <<f>>
  OBVIOUS

\* A session that does an operation has a task, the one that Task says.
LEMMA TaskOf ==
  ASSUME TypeInv, NEW s \in Sessions, pc[s] # "idle"
  PROVE  /\ Task(s) = [id |-> op[s].id, name |-> op[s].name, to |-> op[s].to, todo |-> Todo(pc[s])]
         /\ Task(s) # Store!Nothing
         /\ op[s].name \in Names /\ op[s].to \in Names
         /\ DOMAIN objects = Names
  <1>1. op[s] \in OpsTo(ops) /\ ops \in Nat
    BY CosFSAssumption DEF TypeInv
  <1>2. op[s].id \in 1..ops /\ op[s].name \in Names /\ op[s].to \in Names
    BY <1>1 DEF OpsTo
  <1>3. op[s].id # 0
    BY <1>1, <1>2
  <1>4. Task(s) = [id |-> op[s].id, name |-> op[s].name, to |-> op[s].to, todo |-> Todo(pc[s])]
    BY DEF Task
  <1>5. Task(s).id # 0 /\ Store!Nothing.id = 0
    BY <1>3, <1>4 DEF Store!Nothing
  <1> QED
    BY <1>2, <1>4, <1>5 DEF TypeInv

Tasks == [s \in Sessions |-> Task(s)]

\* What a session does leaves the tasks of the others.
LEMMA OneTask ==
  ASSUME TypeInv, NEW s \in Sessions, Begin(s) \/ Step(s)
  PROVE  Tasks' = [Tasks EXCEPT ![s] = Task(s)']
  <1>1. \A t \in Sessions : t # s => Task(t)' = Task(t)
    BY OthersLeft DEF Task
  <1> QED
    BY <1>1 DEF Tasks

\* An answer ends the task.
LEMMA TaskEnds ==
  ASSUME TypeInv, NEW s \in Sessions, Step(s), NEW ok \in BOOLEAN, Answer(s, ok)
  PROVE  Store!Answer(s, IF ok THEN "ok" ELSE "failed")
  <1>1. Tasks' = [Tasks EXCEPT ![s] = Task(s)']
    BY OneTask
  <1>2. Task(s)' = Store!Nothing
    BY DEF Answer, Goto, TypeInv, Task, Store!Nothing
  <1>3. told' = [told EXCEPT ![s] = IF ok THEN "ok" ELSE "failed"]
    BY DEF Answer
  <1>4. ops' = ops
    BY DEF Step, Read, Change, Upload, StatFile, StatFolder, ReadDir, Get, CloseRead,
           Mkdir, Remove, RenameCopy, RenameCopyFails, RenameDelete, Write, Dispatch,
           WriteAt, CopyChunk, Close, Put, Request
  <1> QED
    BY <1>1, <1>2, <1>3, <1>4 DEF Tasks, Store!Answer

\* An answer is a step of the store: ok when the last effect happens with it or
\* all have happened, failed in any case.
LEMMA AnswerStep ==
  ASSUME TypeInv, NEW s \in Sessions, Step(s), pc[s] # "idle", NEW ok \in BOOLEAN, Answer(s, ok),
         \/ /\ UNCHANGED bucketVars
            /\ ok => Todo(pc[s]) = <<>>
         \/ /\ Store!Effect(Task(s))
            /\ ok => Len(Todo(pc[s])) = 1
  PROVE  Store!Next
  <1>1. Store!Answer(s, IF ok THEN "ok" ELSE "failed")
    BY TaskEnds
  <1>2. Tasks[s] = Task(s) /\ Task(s) # Store!Nothing /\ Task(s).todo = Todo(pc[s])
    BY TaskOf DEF Tasks
  <1>3. CASE ok
    <2>1. Store!Succeed(s)
      BY <1>1, <1>2, <1>3 DEF Tasks, Store!Succeed, bucketVars
    <2> QED
      BY <2>1 DEF Store!Next
  <1>4. CASE ~ok
    <2>1. Store!Fail(s)
      BY <1>1, <1>2, <1>4 DEF Tasks, Store!Fail, bucketVars
    <2> QED
      BY <2>1 DEF Store!Next
  <1> QED
    BY <1>3, <1>4

\* An effect with more to come.
LEMMA AdvanceStep ==
  ASSUME TypeInv, NEW s \in Sessions, Step(s), pc[s] # "idle", NEW label \in Labels \ {"idle"},
         Goto(s, label), UNCHANGED <<ops, op, told>>, Store!Effect(Task(s)),
         Todo(label) = Tail(Todo(pc[s]))
  PROVE  Store!Next
  <1>1. Tasks' = [Tasks EXCEPT ![s] = Task(s)']
    BY OneTask
  <1>2. pc'[s] = label /\ pc'[s] # "idle"
    BY DEF Goto, TypeInv
  <1>3. Task(s)' = [id |-> op[s].id, name |-> op[s].name, to |-> op[s].to, todo |-> Todo(label)]
    BY <1>2 DEF Task, Todo
  <1>4. Tasks[s] = [id |-> op[s].id, name |-> op[s].name, to |-> op[s].to, todo |-> Todo(pc[s])]
    BY TaskOf DEF Tasks
  <1>5. Tasks' = [Tasks EXCEPT ![s].todo = Tail(Tasks[s].todo)]
    <2>1. Tasks[s].todo = Todo(pc[s])
      BY <1>4
    <2> DEFINE R == [id : {op[s].id}, name : {op[s].name}, to : {op[s].to},
                     todo : {Todo(pc[s]), Todo(label)}]
               new == [Tasks[s] EXCEPT !.todo = Todo(label)]
    <2>2. Task(s)' \in R /\ Tasks[s] \in R /\ new \in R
      BY <1>3, <1>4
    <2>3. /\ Task(s)'.id = new.id /\ Task(s)'.name = new.name
          /\ Task(s)'.to = new.to /\ Task(s)'.todo = new.todo
      BY <1>3, <1>4
    <2> HIDE DEF new
    <2>4. Task(s)' = new
      BY <2>2, <2>3
    <2> QED
      BY <1>1, <2>1, <2>4 DEF new
  <1>6. Store!Advance(s)
    BY <1>5 DEF Tasks, Store!Advance
  <1> QED
    BY <1>6 DEF Store!Next

\* A step that shows nothing.
LEMMA HiddenStep ==
  ASSUME TypeInv, NEW s \in Sessions, Step(s), UNCHANGED <<bucketVars, ops, op, told>>,
         pc[s] # "idle", pc'[s] # "idle", Todo(pc'[s]) = Todo(pc[s])
  PROVE  UNCHANGED Store!vars
  <1>1. Tasks' = [Tasks EXCEPT ![s] = Task(s)']
    BY OneTask
  <1>2. Task(s)' = Task(s)
    BY DEF Task, Todo
  <1>3. Tasks' = Tasks
    BY <1>1, <1>2 DEF Tasks
  <1> QED
    BY <1>3 DEF Tasks, Store!vars, bucketVars

LEMMA StoreInit == Init => Store!Init
  <1> SUFFICES ASSUME Init PROVE Store!Init
    OBVIOUS
  <1>1. Tasks = [s \in Sessions |-> Store!Nothing]
    BY DEF Init, Tasks, Task, Store!Nothing
  <1>2. objects = [n \in Names |-> objects[n]]
    BY DEF Init
  <1> QED
    BY <1>1, <1>2 DEF Init, Tasks, Store!Init

\* An operation begins with all its effects to come.
LEMMA StoreBegin ==
  ASSUME TypeInv, NEW s \in Sessions, Begin(s)
  PROVE  Store!Next
  <1>1. Tasks' = [Tasks EXCEPT ![s] = Task(s)']
    BY OneTask
  <1>2. Tasks[s] = Store!Nothing
    BY DEF Begin, Tasks, Task, Store!Nothing
  <1>3. PICK kind \in Kinds : \E name \in Names, to \in Names :
           /\ op' = [op EXCEPT ![s] = [id |-> ops', kind |-> kind, name |-> name, to |-> to]]
           /\ Goto(s, Start(kind))
    BY DEF Begin
  <1>4. PICK name \in Names : \E to \in Names :
           /\ op' = [op EXCEPT ![s] = [id |-> ops', kind |-> kind, name |-> name, to |-> to]]
           /\ Goto(s, Start(kind))
    BY <1>3
  <1>5. PICK to \in Names :
           /\ op' = [op EXCEPT ![s] = [id |-> ops', kind |-> kind, name |-> name, to |-> to]]
           /\ Goto(s, Start(kind))
    BY <1>4
  <1>6. pc'[s] = Start(kind) /\ Start(kind) # "idle" /\ Todo(Start(kind)) \in Store!Works
    BY <1>5 DEF Goto, TypeInv, Kinds, Start, Todo, Store!Works
  <1>7. op'[s] = [id |-> ops', kind |-> kind, name |-> name, to |-> to]
    BY <1>5 DEF TypeInv
  <1>8. Task(s)' = [id |-> ops', name |-> name, to |-> to, todo |-> Todo(Start(kind))]
    <2>1. Todo(pc[s])' = Todo(Start(kind))
      BY <1>6 DEF Todo
    <2>2. /\ op[s].id' = ops' /\ op[s].name' = name /\ op[s].to' = to
      BY <1>7
    <2> QED
      BY <1>6, <2>1, <2>2 DEF Task
  <1>9. /\ ops' = ops + 1 /\ UNCHANGED <<objects, folders>>
        /\ told' = [told EXCEPT ![s] = "nothing"]
    BY DEF Begin, bucketVars
  <1>10. Tasks' = [Tasks EXCEPT ![s] = [id |-> ops', name |-> name, to |-> to, todo |-> Todo(Start(kind))]]
    BY <1>1, <1>8
  <1>11. \E n, t \in Names, work \in Store!Works :
            Tasks' = [Tasks EXCEPT ![s] = [id |-> ops', name |-> n, to |-> t, todo |-> work]]
    BY <1>6, <1>10
  <1>12. Store!Begin(s)
    BY <1>2, <1>9, <1>11 DEF Tasks, Store!Begin
  <1> QED
    BY <1>12 DEF Store!Next

\* What a request does to the objects: all of it or, if it fails, perhaps nothing.
LEMMA RequestDoes ==
  ASSUME NEW s \in Sessions, NEW ok \in BOOLEAN, NEW os, Request(s, ok, os)
  PROVE  /\ folders' = folders
         /\ objects' = os \/ (~ok /\ objects' = objects)
  BY DEF Request

LEMMA StoreDrop ==
  ASSUME TypeInv, NEW s \in Sessions, Remove(s) \/ RenameDelete(s)
  PROVE  Store!Next
  <1>1. PICK ok \in BOOLEAN :
           /\ Request(s, ok, [objects EXCEPT ![op[s].name] = NoObject])
           /\ Answer(s, ok)
    BY DEF Remove, RenameDelete
  <1>2. pc[s] # "idle" /\ Todo(pc[s]) = <<"drop">> /\ Step(s)
    BY DEF Remove, RenameDelete, Todo, Step, Change
  <1>3. Task(s).name = op[s].name /\ Task(s).todo = <<"drop">>
    BY <1>2, TaskOf
  <1>4. /\ folders' = folders
        /\ \/ objects' = [objects EXCEPT ![op[s].name] = NoObject]
           \/ ~ok /\ objects' = objects
    BY <1>1, RequestDoes
  <1>5. CASE objects' = [objects EXCEPT ![op[s].name] = NoObject]
    <2>1. Store!Drop(Task(s))
      BY <1>3, <1>4, <1>5 DEF Store!Drop
    <2>2. Store!Effect(Task(s))
      BY <1>3, <2>1, Lists DEF Store!Effect
    <2> QED
      BY <1>1, <1>2, <2>2, AnswerStep, Lists
  <1>6. CASE ~ok /\ objects' = objects
    BY <1>1, <1>2, <1>4, <1>6, AnswerStep DEF bucketVars
  <1> QED
    BY <1>4, <1>5, <1>6

LEMMA StoreMkdir ==
  ASSUME TypeInv, NEW s \in Sessions, Mkdir(s)
  PROVE  Store!Next
  <1>1. PICK ok \in BOOLEAN :
           /\ folders' = folders \union {op[s].name} \/ (~ok /\ UNCHANGED folders)
           /\ Answer(s, ok)
    BY DEF Mkdir
  <1>2. pc[s] # "idle" /\ Todo(pc[s]) = <<"mark">> /\ Step(s) /\ objects' = objects
    BY DEF Mkdir, Todo, Step, Change
  <1>3. Task(s).name = op[s].name /\ Task(s).todo = <<"mark">>
    BY <1>2, TaskOf
  <1>4. CASE folders' = folders \union {op[s].name}
    <2>1. Store!Mark(Task(s))
      BY <1>2, <1>3, <1>4 DEF Store!Mark
    <2>2. Store!Effect(Task(s))
      BY <1>3, <2>1, Lists DEF Store!Effect
    <2> QED
      BY <1>1, <1>2, <2>2, AnswerStep, Lists
  <1>5. CASE ~ok /\ UNCHANGED folders
    BY <1>1, <1>2, <1>5, AnswerStep DEF bucketVars
  <1> QED
    BY <1>1, <1>4, <1>5

\* What is put is the buffer of that upload, or nothing.
LEMMA StorePut ==
  ASSUME TypeInv, NEW s \in Sessions, Put(s)
  PROVE  Store!Next
  <1>1. PICK ok \in BOOLEAN : \E body \in {file[s].buf, <<>>} :
           /\ Request(s, ok, [objects EXCEPT ![op[s].name] = body])
           /\ Answer(s, ok /\ ~file[s].refused)
    BY DEF Put
  <1>2. PICK body \in {file[s].buf, <<>>} :
           /\ Request(s, ok, [objects EXCEPT ![op[s].name] = body])
           /\ Answer(s, ok /\ ~file[s].refused)
    BY <1>1
  <1> DEFINE said_ok == ok /\ ~file[s].refused
  <1>3. file[s] \in Files /\ FileGood(file[s], op[s].id) /\ file[s].refused \in BOOLEAN
    BY DEF TypeInv, Files
  <1>4. said_ok \in BOOLEAN /\ (said_ok => ok)
    BY <1>3
  <1>5. pc[s] # "idle" /\ Todo(pc[s]) = <<"put">> /\ Step(s)
    BY DEF Put, Todo, Step, Upload
  <1>6. /\ Task(s).name = op[s].name /\ Task(s).todo = <<"put">> /\ Task(s).id = op[s].id
        /\ op[s].name \in Names /\ DOMAIN objects = Names
    BY <1>5, TaskOf
  <1>7. body # NoObject /\ Store!Of(op[s].id, body)
    <2>1. <<>> \in Seq(Pieces) /\ file[s].buf \in Seq(Pieces) /\ Len(<<>>) = 0
      BY <1>3, EmptySeq DEF Files, Contents
    <2>2. NoObject \notin Seq(Pieces)
      BY CosFSAssumption DEF Pieces
    <2>3. body # NoObject
      BY <2>1, <2>2
    <2>4. \A i \in 1..Len(body) : body[i] \in {Garbage, <<op[s].id, i>>}
      BY <1>3, <2>1 DEF FileGood
    <2> QED
      BY <2>3, <2>4 DEF Store!Of
  <1>8. /\ folders' = folders
        /\ \/ objects' = [objects EXCEPT ![op[s].name] = body]
           \/ ~ok /\ objects' = objects
    BY <1>2, RequestDoes
  <1> HIDE DEF said_ok
  <1>9. CASE objects' = [objects EXCEPT ![op[s].name] = body]
    <2>1. objects'[op[s].name] = body
      BY <1>6, <1>9
    <2>2. Store!Put(Task(s))
      BY <1>6, <1>7, <1>8, <1>9, <2>1 DEF Store!Put
    <2>3. Store!Effect(Task(s))
      BY <1>6, <2>2, Lists DEF Store!Effect
    <2> QED
      BY <1>2, <1>4, <1>5, <2>3, AnswerStep, Lists DEF said_ok
  <1>10. CASE ~ok /\ objects' = objects
    BY <1>2, <1>4, <1>5, <1>8, <1>10, AnswerStep DEF bucketVars, said_ok
  <1> QED
    BY <1>8, <1>9, <1>10

\* The copy of a rename, after which the source is still to be dropped.
LEMMA StoreCopy ==
  ASSUME TypeInv, NEW s \in Sessions, RenameCopy(s) \/ RenameCopyFails(s)
  PROVE  Store!Next
  <1>1. pc[s] = "copy" /\ pc[s] # "idle" /\ Todo(pc[s]) = <<"copy", "drop">> /\ Step(s)
    BY DEF RenameCopy, RenameCopyFails, Todo, Step, Change
  <1>2. Task(s).name = op[s].name /\ Task(s).to = op[s].to /\ Task(s).todo = <<"copy", "drop">>
    BY <1>1, TaskOf
  <1>3. ASSUME objects[op[s].name] # NoObject, objects' = Copied(s), folders' = folders
        PROVE  Store!Effect(Task(s))
    <2>1. Store!Copy(Task(s))
      BY <1>2, <1>3 DEF Copied, Store!Copy
    <2> QED
      BY <1>2, <2>1, Lists DEF Store!Effect
  <1>4. CASE RenameCopy(s)
    <2>1. /\ objects[op[s].name] # NoObject /\ Request(s, TRUE, Copied(s))
          /\ Goto(s, "delete source") /\ UNCHANGED told
      BY <1>4 DEF RenameCopy
    <2>2. objects' = Copied(s) /\ folders' = folders /\ UNCHANGED <<ops, op>>
      BY <2>1 DEF Request
    <2>3. Store!Effect(Task(s))
      BY <1>3, <2>1, <2>2
    <2>4. "delete source" \in Labels \ {"idle"} /\ Todo("delete source") = <<"drop">>
      BY DEF Labels, Todo
    <2> QED
      BY <1>1, <2>1, <2>2, <2>3, <2>4, AdvanceStep, Lists
  <1>5. CASE RenameCopyFails(s)
    <2>1. Answer(s, FALSE)
      BY <1>5 DEF RenameCopyFails
    <2>2. /\ folders' = folders
          /\ \/ objects[op[s].name] # NoObject /\ objects' = Copied(s)
             \/ objects' = objects
      BY <1>5 DEF RenameCopyFails, Request
    <2>3. CASE objects[op[s].name] # NoObject /\ objects' = Copied(s)
      BY <1>1, <1>3, <2>1, <2>2, <2>3, AnswerStep
    <2>4. CASE objects' = objects
      BY <1>1, <2>1, <2>2, <2>4, AnswerStep DEF bucketVars
    <2> QED
      BY <2>2, <2>3, <2>4
  <1> QED
    BY <1>4, <1>5

\* A read looks at the object or the folder, or fails.
LEMMA StoreRead ==
  ASSUME TypeInv, NEW s \in Sessions, Read(s)
  PROVE  Store!Next \/ UNCHANGED Store!vars
  <1>1. Step(s) /\ UNCHANGED <<bucketVars, ops, op>> /\ pc[s] # "idle"
    BY DEF Step, Read, StatFile, StatFolder, ReadDir, Get, CloseRead
  <1>2. Task(s).name = op[s].name /\ Task(s).todo = Todo(pc[s])
    BY <1>1, TaskOf
  <1>3. ASSUME Todo(pc[s]) = <<"look">>, objects[op[s].name] # NoObject \/ op[s].name \in folders,
               NEW label \in {"list", "reading"}, Goto(s, label), UNCHANGED told
        PROVE  Store!Next
    <2>1. Store!Look(Task(s))
      BY <1>1, <1>2, <1>3 DEF Store!Look, bucketVars
    <2>2. Store!Effect(Task(s))
      BY <1>2, <1>3, <2>1, Lists DEF Store!Effect
    <2>3. label \in Labels \ {"idle"} /\ Todo(label) = <<>>
      BY DEF Labels, Todo
    <2> QED
      BY <1>1, <1>3, <2>2, <2>3, AdvanceStep, Lists
  <1>4. ASSUME NEW label \in {"get", "stat folder"}, Goto(s, label), UNCHANGED told,
               Todo(pc[s]) = <<"look">>
        PROVE  UNCHANGED Store!vars
    <2>1. pc'[s] = label
      BY <1>4 DEF Goto, TypeInv
    <2>2. pc'[s] # "idle" /\ Todo(pc'[s]) = <<"look">>
      BY <2>1 DEF Todo
    <2> QED
      BY <1>1, <1>4, <2>2, HiddenStep
  <1>5. CASE StatFile(s)
    <2>1. Todo(pc[s]) = <<"look">> /\ UNCHANGED told
      BY <1>5 DEF StatFile, Todo
    <2> QED
      BY <1>4, <1>5, <2>1 DEF StatFile
  <1>6. CASE StatFolder(s)
    <2>1. Todo(pc[s]) = <<"look">> /\ UNCHANGED told
      BY <1>6 DEF StatFolder, Todo
    <2> QED
      BY <1>3, <1>4, <1>6, <2>1 DEF StatFolder
  <1>7. CASE ReadDir(s) \/ CloseRead(s)
    <2>1. PICK ok \in BOOLEAN : Answer(s, ok)
      BY <1>7 DEF ReadDir, CloseRead
    <2>2. Todo(pc[s]) = <<>>
      BY <1>7 DEF ReadDir, CloseRead, Todo
    <2> QED
      BY <1>1, <2>1, <2>2, AnswerStep
  <1>8. CASE Get(s)
    <2>1. Todo(pc[s]) = <<"look">>
      BY <1>8 DEF Get, Todo
    <2>2. CASE objects[op[s].name] # NoObject /\ Goto(s, "reading") /\ UNCHANGED told
      BY <1>3, <2>1, <2>2
    <2>3. CASE Answer(s, FALSE)
      BY <1>1, <2>3, AnswerStep
    <2> QED
      BY <1>8, <2>2, <2>3 DEF Get
  <1> QED
    BY <1>5, <1>6, <1>7, <1>8 DEF Read

\* Writing is hidden until the buffer is put.
LEMMA StoreWrite ==
  ASSUME TypeInv, NEW s \in Sessions,
         Write(s) \/ Dispatch(s) \/ WriteAt(s) \/ CopyChunk(s) \/ Close(s)
  PROVE  UNCHANGED Store!vars
  <1>1. Step(s) /\ pc[s] = "writing" /\ UNCHANGED <<bucketVars, ops, op, told>>
    BY DEF Step, Upload, Write, Dispatch, WriteAt, CopyChunk, Close
  <1>2. pc'[s] \in {"writing", "put"}
    BY DEF Write, Dispatch, WriteAt, CopyChunk, Close, Goto, TypeInv
  <1>3. pc[s] # "idle" /\ pc'[s] # "idle" /\ Todo(pc'[s]) = Todo(pc[s])
    BY <1>1, <1>2 DEF Todo
  <1> QED
    BY <1>1, <1>3, HiddenStep

LEMMA StoreStep == TypeInv /\ [Next]_vars => [Store!Next]_(Store!vars)
  <1> SUFFICES ASSUME TypeInv, [Next]_vars PROVE Store!Next \/ UNCHANGED Store!vars
    OBVIOUS
  <1>1. CASE UNCHANGED vars
    <2>1. \A s \in Sessions : Task(s)' = Task(s)
      BY <1>1 DEF vars, Task, Todo
    <2>2. Tasks' = Tasks
      BY <2>1 DEF Tasks
    <2> QED
      BY <1>1, <2>2 DEF vars, Tasks, Store!vars
  <1>2. ASSUME NEW s \in Sessions, Begin(s) \/ Step(s) PROVE Store!Next \/ UNCHANGED Store!vars
    BY <1>2, StoreBegin, StoreRead, StoreDrop, StoreMkdir, StorePut, StoreCopy, StoreWrite
       DEF Step, Change, Upload
  <1> QED
    BY <1>1, <1>2 DEF Next

----
\* Theorems

\* The types, and that every upload's buffer holds chunks of that upload alone,
\* each at its place or lost (memWriteFile, fsdriver/cos.go:222-251).
THEOREM Typed == SafeSpec => []TypeInv
  BY TypeInit, TypeStep, PTL DEF SafeSpec

\* The type invariant that TLC checks.
THEOREM TypeCorrect == SafeSpec => []TypeOK
  <1>1. TypeInv => TypeOK
    <2> SUFFICES ASSUME TypeInv PROVE TypeOK
      OBVIOUS
    <2>1. \A n \in Names : objects[n] = NoObject \/ objects[n] \in Contents
      BY DEF TypeInv, Objects
    <2>2. ASSUME NEW s \in Sessions
          PROVE  /\ op[s] = NoOp \/ op[s] \in [id : 1..ops, kind : Kinds,
                                               name : Names, to : Names]
                 /\ file[s].buf \in Contents
                 /\ file[s].sent \in 0..MaxChunks
                 /\ file[s].queued \subseteq 1..file[s].sent
                 /\ file[s].copying \subseteq 1..Len(file[s].buf)
                 /\ Cardinality(file[s].queued \union file[s].copying) <= Workers
                 /\ said[s] \in Seq([action : Actions, ok : BOOLEAN])
      BY DEF TypeInv, OpsTo, Files, FileGood, Events
    <2> QED
      BY <2>1, <2>2 DEF TypeInv, TypeOK
  <1> QED
    BY <1>1, Typed, PTL

\* An object never mixes uploads nor has a chunk where another belongs, for any
\* number of workers that overtake each other (fsdriver/cos.go:222-251).
THEOREM PlacesKept == SafeSpec => []OffsetsKept
  <1>1. TypeInv => OffsetsKept
    BY DEF TypeInv, Objects, OffsetsKept
  <1> QED
    BY <1>1, Typed, PTL

\* A rename nobody interferes with keeps the file at one of the two names,
\* whichever request fails, however many sessions there are
\* (fsdriver/cos.go:125-131).
THEOREM RenameSafe == SafeSpec => []RenameKeeps
  <1>1. Renamed => RenameKeeps
    BY DEF Renamed, RenamedAt, RenameKeeps
  <1> QED
    BY <1>1, Typed, RenamedInit, RenamedStep, PTL DEF SafeSpec

\* The events of an operation say what the client was told, a failed upload
\* aside, however many sessions there are and whichever requests fail
\* (fsdriver/audit.go:41-133).
THEOREM EventTrue == SafeSpec => []EventAgrees
  <1>1. Logged => EventAgrees
    <2> SUFFICES ASSUME NEW s \in Sessions, LoggedAt(s), told[s] # "nothing"
                 PROVE  /\ said[s] # <<>>
                        /\ told[s] = "ok" => \A i \in 1..Len(said[s]) : said[s][i].ok
                        /\ told[s] = "failed" =>
                              \E i \in 1..Len(said[s]) :
                                  ~said[s][i].ok \/ said[s][i].action = "UPLOAD"
      BY DEF Logged, EventAgrees
    <2>0. Len(said[s]) = 1
      BY DEF LoggedAt
    <2>1. Len(said[s]) = 1 /\ 1..Len(said[s]) = {1}
      BY <2>0
    <2>2. \/ said[s][1].ok = (told[s] = "ok")
          \/ said[s][1].ok /\ said[s][1].action = "UPLOAD"
      BY DEF LoggedAt
    <2>3. said[s] # <<>>
      BY <2>1, EmptySeq
    <2> QED
      BY <2>1, <2>2, <2>3
  <1> QED
    BY <1>1, Typed, LoggedInit, LoggedStep, PTL DEF SafeSpec

\* For any number of sessions, names, workers and chunks, and whichever requests
\* fail: each operation's effects happen in order, each once, between its
\* beginning and its answer, and all of them if the answer is ok; an upload leaves
\* its own chunks, each at its place or lost (fsdriver/cos.go:102-138, 222-251).
THEOREM RefinesStore == SafeSpec => ImplementsStore
  BY Typed, StoreInit, StoreStep, PTL DEF SafeSpec, ImplementsStore, Store!Spec
====
