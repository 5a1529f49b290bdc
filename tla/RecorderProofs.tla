--------------------------- MODULE RecorderProofs ---------------------------
(***************************************************************************)
(* Theorems of module Recorder, for recordings and secondaries of any      *)
(* length and of any kinds of operation:                                   *)
(*                                                                         *)
(*   RecordedInvariant   Spec => []RecorderInv                             *)
(*   FrontendAlone       Spec => []FrontendStandsAlone                     *)
(*   IndirectDeferred    Spec => []IndirectIsDeferred                      *)
(*   ParentLast          Spec => []ParentOutlivesChildren                  *)
(*   InlinePassWhole     Spec => []InlinePassIsWhole                       *)
(*   OrderKept           Spec => []RecordedOrderKept                       *)
(*   OperationsOnce      Spec => []EveryOperationOnce                      *)
(*                                                                         *)
(* None of the six properties is inductive: they speak of what the queue   *)
(* makes of a recording, and recording is open until its passes are        *)
(* closed.  RecorderInv is: what each buffer may hold, and what a render   *)
(* pass may hold until its end.  The properties follow from it and from    *)
(* what segmentation does (SegmentsProofs), without another step of Next.  *)
(***************************************************************************)
EXTENDS Recorder, SegmentsProofs

Buffers    == {Primary, Plain, Continuation}
Kinds      == OutsideKinds \cup DrawKinds \cup {"begin", "end", "execute"}
Operations == [kind : Kinds, children : Seq({Plain, Continuation})]

(* What each buffer may hold.                                              *)
RecordedKinds ==
    /\ rec \in [Buffers -> Seq(Operations)]
    /\ scope \in {"outside", "inline", "clear", "secondary"}
    /\ \A k \in 1..Len(rec[Plain]) :
           rec[Plain][k].kind \in OutsideKinds /\ rec[Plain][k].children = <<>>
    /\ \A k \in 1..Len(rec[Continuation]) :
           rec[Continuation][k].kind \in DrawKinds /\ rec[Continuation][k].children = <<>>
    /\ \A k \in 1..Len(rec[Primary]) :
           rec[Primary][k].kind # "execute" => rec[Primary][k].children = <<>>

(* No end of the pass opened at i before operation k. *)
Open(ops, i, k) == \A j \in i + 1..k - 1 : ops[j].kind # "end"

(* Outside a pass every pass is closed; inside it there are only draws and *)
(* secondaries that continue it.                                           *)
RecordedPasses ==
    LET ops == rec[Primary]
    IN  \A i \in 1..Len(ops) : ops[i].kind = "begin" =>
            /\ scope = "outside" => \E e \in i + 1..Len(ops) : ops[e].kind = "end"
            /\ \A k \in i + 1..Len(ops) : Open(ops, i, k) =>
                   /\ ops[k].kind \in DrawKinds \cup {"execute", "end"}
                   /\ ops[k].kind = "execute" => ops[k].children \in Seq({Continuation})

RecorderInv == RecordedKinds /\ RecordedPasses

LEMMA BuffersDiffer == Primary # Plain /\ Primary # Continuation /\ Plain # Continuation
<1>1. ASSUME NEW x, NEW y PROVE Cardinality({x, y}) \in 0..2
  <2>1. IsFiniteSet({}) /\ Cardinality({}) = 0
    BY FS_EmptySet
  <2>2. IsFiniteSet({x}) /\ Cardinality({x}) = 1
    BY FS_Singleton
  <2>3. {x, y} = {x} \cup {y}
    OBVIOUS
  <2>4. Cardinality({x} \cup {y}) = IF y \in {x} THEN 1 ELSE 1 + 1
    BY <2>2, FS_AddElement
  <2> QED  BY <2>3, <2>4
<1>2. Cardinality({Primary, Plain, Continuation}) = 3
  BY RecorderAssumption
<1>3. Primary = Plain => {Primary, Plain, Continuation} = {Plain, Continuation}
  OBVIOUS
<1>4. Primary = Continuation => {Primary, Plain, Continuation} = {Plain, Continuation}
  OBVIOUS
<1>5. Plain = Continuation => {Primary, Plain, Continuation} = {Primary, Plain}
  OBVIOUS
<1>6. Cardinality({Plain, Continuation}) # 3 /\ Cardinality({Primary, Plain}) # 3
  <2>1. Cardinality({Plain, Continuation}) \in 0..2 /\ Cardinality({Primary, Plain}) \in 0..2
    BY <1>1
  <2> QED  BY <2>1
<1> QED  BY <1>2, <1>3, <1>4, <1>5, <1>6

LEMMA Appended ==
    ASSUME NEW S, NEW s \in Seq(S), NEW x \in S
    PROVE  /\ Append(s, x) \in Seq(S) /\ Len(Append(s, x)) = Len(s) + 1
           /\ Append(s, x)[Len(s) + 1] = x
           /\ \A k \in 1..Len(s) : Append(s, x)[k] = s[k]
OBVIOUS

LEMMA RecordedInit == Init => RecorderInv
<1> SUFFICES ASSUME Init PROVE RecorderInv
  OBVIOUS
<1>1. PICK plain \in Recordings(OutsideKinds), continuation \in Recordings(DrawKinds) :
          /\ rec = [b \in {Primary, Plain, Continuation} |->
                       CASE b = Primary -> <<>>
                         [] b = Plain -> plain
                         [] b = Continuation -> continuation]
          /\ scope = "outside"
  BY DEF Init
<1>2. ASSUME NEW K \in SUBSET Kinds, NEW r \in Recordings(K)
      PROVE  /\ r \in Seq(Operations)
             /\ \A k \in 1..Len(r) : r[k].kind \in K /\ r[k].children = <<>>
  <2>1. PICK n \in 0..MaxChild : r \in [1..n -> {Op(k) : k \in K}]
    BY <1>2 DEF Recordings
  <2>2. n \in Nat
    BY <2>1, RecorderAssumption DEF MaxOperations
  <2>3. \A o \in {Op(k) : k \in K} : o \in Operations /\ o.kind \in K /\ o.children = <<>>
    <3>1. ASSUME NEW k \in K
          PROVE  Op(k) \in Operations /\ Op(k).kind \in K /\ Op(k).children = <<>>
      <4>1. <<>> \in Seq({Plain, Continuation})
        BY EmptySeq
      <4> QED  BY <4>1 DEF Op, Operations
    <3> QED  BY <3>1
  <2>4. r = [k \in 1..n |-> r[k]] /\ \A k \in 1..n : r[k] \in {Op(j) : j \in K}
    BY <2>1
  <2>5. r \in Seq(Operations) /\ Len(r) = n
    <3>1. \A k \in 1..n : r[k] \in Operations
      BY <2>3, <2>4
    <3> QED  BY <2>2, <2>4, <3>1, MadeSeq
  <2> QED  BY <2>3, <2>4, <2>5
<1>3. /\ plain \in Seq(Operations) /\ continuation \in Seq(Operations)
      /\ \A k \in 1..Len(plain) : plain[k].kind \in OutsideKinds /\ plain[k].children = <<>>
      /\ \A k \in 1..Len(continuation) :
             continuation[k].kind \in DrawKinds /\ continuation[k].children = <<>>
  <2>1. OutsideKinds \in SUBSET Kinds /\ DrawKinds \in SUBSET Kinds
    BY DEF Kinds
  <2> QED  BY <1>2, <2>1
<1>4. rec[Primary] = <<>> /\ rec[Plain] = plain /\ rec[Continuation] = continuation
  BY <1>1, BuffersDiffer
<1>5. <<>> \in Seq(Operations) /\ Len(<<>>) = 0
  BY EmptySeq
<1>6. rec \in [Buffers -> Seq(Operations)]
  <2>1. DOMAIN rec = Buffers /\ rec = [b \in Buffers |-> rec[b]]
    BY <1>1 DEF Buffers
  <2>2. \A b \in Buffers : rec[b] \in Seq(Operations)
    BY <1>3, <1>4, <1>5 DEF Buffers
  <2> QED  BY <2>1, <2>2
<1> QED  BY <1>1, <1>3, <1>4, <1>5, <1>6 DEF RecorderInv, RecordedKinds, RecordedPasses

(* One more operation of the primary.                                      *)
LEMMA RecordedOne ==
    ASSUME RecordedKinds, NEW op, op \in Operations, Record(op)
    PROVE  /\ rec' \in [Buffers -> Seq(Operations)]
           /\ rec'[Plain] = rec[Plain] /\ rec'[Continuation] = rec[Continuation]
           /\ rec[Primary] \in Seq(Operations) /\ Len(rec[Primary]) \in Nat
           /\ Len(rec'[Primary]) = Len(rec[Primary]) + 1
           /\ rec'[Primary][Len(rec[Primary]) + 1] = op
           /\ \A k \in 1..Len(rec[Primary]) : rec'[Primary][k] = rec[Primary][k]
<1>1. rec \in [Buffers -> Seq(Operations)] /\ Primary \in Buffers
  BY DEF RecordedKinds, Buffers
<1>2. PICK ops \in Seq(Operations) : ops = rec[Primary]
  BY <1>1
<1>3. rec' = [rec EXCEPT ![Primary] = Append(ops, op)]
  BY <1>2 DEF Record
<1>4. Append(ops, op) \in Seq(Operations)
  BY Appended
<1>5. rec'[Primary] = Append(ops, op)
  BY <1>1, <1>3
<1>6. rec'[Plain] = rec[Plain] /\ rec'[Continuation] = rec[Continuation]
  BY <1>1, <1>3, BuffersDiffer DEF Buffers
<1>7. rec' \in [Buffers -> Seq(Operations)]
  BY <1>1, <1>3, <1>4
<1>8. /\ Len(Append(ops, op)) = Len(ops) + 1 /\ Append(ops, op)[Len(ops) + 1] = op
      /\ \A k \in 1..Len(ops) : Append(ops, op)[k] = ops[k]
  BY Appended
<1> QED  BY <1>2, <1>5, <1>6, <1>7, <1>8

(* An operation that may be recorded in the scope the recording is in.     *)
Fits(op) ==
    /\ op \in Operations
    /\ op.kind # "execute" => op.children = <<>>
    /\ scope # "outside" =>
           /\ op.kind \in DrawKinds \cup {"execute", "end"}
           /\ op.kind = "execute" => op.children \in Seq({Continuation})

LEMMA RecordedStep ==
    ASSUME RecorderInv, NEW op, Fits(op), Record(op),
           scope' \in {"outside", "inline", "clear", "secondary"},
           op.kind = "begin" => scope' # "outside",
           scope # "outside" /\ scope' = "outside" => op.kind = "end"
    PROVE  RecorderInv'
<1> DEFINE ops == rec[Primary]  n == Len(ops)  more == rec'[Primary]
<1>1. RecordedKinds /\ RecordedPasses
  BY DEF RecorderInv
<1>2. /\ rec' \in [Buffers -> Seq(Operations)]
      /\ rec'[Plain] = rec[Plain] /\ rec'[Continuation] = rec[Continuation]
      /\ ops \in Seq(Operations) /\ n \in Nat
      /\ Len(more) = n + 1 /\ more[n + 1] = op
      /\ \A k \in 1..n : more[k] = ops[k]
  BY <1>1, RecordedOne DEF Fits
<1>3. RecordedKinds'
  <2>1. ASSUME NEW k \in 1..n + 1, more[k].kind # "execute" PROVE more[k].children = <<>>
    <3>1. k \in 1..n \/ k = n + 1
      BY <1>2
    <3>2. CASE k \in 1..n
      BY <1>1, <1>2, <2>1, <3>2 DEF RecordedKinds
    <3>3. CASE k = n + 1
      BY <1>2, <2>1, <3>3 DEF Fits
    <3> QED  BY <3>1, <3>2, <3>3
  <2>2. \A k \in 1..Len(rec'[Plain]) :
            rec'[Plain][k].kind \in OutsideKinds /\ rec'[Plain][k].children = <<>>
    BY <1>1, <1>2 DEF RecordedKinds
  <2>3. \A k \in 1..Len(rec'[Continuation]) :
            rec'[Continuation][k].kind \in DrawKinds /\ rec'[Continuation][k].children = <<>>
    BY <1>1, <1>2 DEF RecordedKinds
  <2> HIDE DEF ops, n
  <2>4. \A k \in 1..Len(more) : more[k].kind # "execute" => more[k].children = <<>>
    BY <1>2, <2>1
  <2> QED  BY <1>2, <2>2, <2>3, <2>4 DEF RecordedKinds
<1>4. ASSUME NEW i \in 1..n + 1, more[i].kind = "begin"
      PROVE  /\ scope' = "outside" => \E e \in i + 1..n + 1 : more[e].kind = "end"
             /\ \A k \in i + 1..n + 1 : Open(more, i, k) =>
                    /\ more[k].kind \in DrawKinds \cup {"execute", "end"}
                    /\ more[k].kind = "execute" => more[k].children \in Seq({Continuation})
  <2>1. CASE i = n + 1
    <3>1. scope' # "outside" /\ i + 1..n + 1 = {}
      BY <1>2, <1>4, <2>1
    <3> QED  BY <3>1
  <2>2. CASE i # n + 1
    <3>1. i \in 1..n /\ ops[i].kind = "begin"
      BY <1>2, <1>4, <2>2
    <3>2. /\ scope = "outside" => \E e \in i + 1..n : ops[e].kind = "end"
          /\ \A k \in i + 1..n : Open(ops, i, k) =>
                 /\ ops[k].kind \in DrawKinds \cup {"execute", "end"}
                 /\ ops[k].kind = "execute" => ops[k].children \in Seq({Continuation})
      BY <1>1, <3>1 DEF RecordedPasses
    <3>3. scope' = "outside" => \E e \in i + 1..n + 1 : more[e].kind = "end"
      <4>1. CASE scope = "outside"
        <5>1. PICK e \in i + 1..n : ops[e].kind = "end"
          BY <3>2, <4>1
        <5>2. e \in i + 1..n + 1 /\ e \in 1..n /\ more[e] = ops[e]
          BY <1>2, <3>1, <5>1
        <5> QED  BY <5>1, <5>2
      <4>2. CASE scope # "outside"
        <5>1. n + 1 \in i + 1..n + 1
          BY <1>2, <3>1
        <5> QED  BY <1>2, <4>2, <5>1
      <4> QED  BY <4>1, <4>2
    <3>4. ASSUME NEW k \in i + 1..n + 1, Open(more, i, k)
          PROVE  /\ more[k].kind \in DrawKinds \cup {"execute", "end"}
                 /\ more[k].kind = "execute" => more[k].children \in Seq({Continuation})
      <4>1. Open(ops, i, k)
        <5>1. \A j \in i + 1..k - 1 : j \in 1..n
          BY <1>2, <3>1
        <5> QED  BY <1>2, <3>4, <5>1 DEF Open
      <4>2. CASE k \in i + 1..n
        <5>1. more[k] = ops[k]
          BY <1>2, <3>1, <4>2
        <5> QED  BY <3>2, <4>1, <4>2, <5>1
      <4>3. CASE k = n + 1
        <5>1. scope # "outside"
          <6>1. \A e \in i + 1..n : ops[e].kind # "end"
            BY <1>2, <4>1, <4>3 DEF Open
          <6> QED  BY <3>2, <6>1
        <5> QED  BY <1>2, <4>3, <5>1 DEF Fits
      <4>4. k \in i + 1..n \/ k = n + 1
        BY <1>2, <3>1
      <4> QED  BY <4>2, <4>3, <4>4
    <3> QED  BY <3>3, <3>4
  <2> QED  BY <2>1, <2>2
<1>5. RecordedPasses'
  BY <1>2, <1>4 DEF RecordedPasses
<1> QED  BY <1>3, <1>5 DEF RecorderInv

LEMMA FittingOps ==
    ASSUME NEW k \in Kinds \ {"execute"}
    PROVE  Op(k) \in Operations /\ Op(k).kind = k /\ Op(k).children = <<>>
<1>1. <<>> \in Seq({Plain, Continuation})
  BY EmptySeq
<1> QED  BY <1>1 DEF Op, Operations

(* A secondary holds work of its kind and names nobody; of the primary's   *)
(* operations only vkCmdExecuteCommands names anybody, and a render pass   *)
(* holds nothing but draws and continuations until its end                 *)
(* (command_valid).                                                        *)
THEOREM RecordedInvariant == Spec => []RecorderInv
<1>1. Init => RecorderInv
  BY RecordedInit
<1>2. RecorderInv /\ [Next]_vars => RecorderInv'
  <2> SUFFICES ASSUME RecorderInv, [Next]_vars PROVE RecorderInv'
    OBVIOUS
  <2>1. scope \in {"outside", "inline", "clear", "secondary"}
    BY DEF RecorderInv, RecordedKinds
  <2>2. CASE RecordOutside
    <3>1. PICK k \in OutsideKinds : Record(Op(k))
      BY <2>2 DEF RecordOutside
    <3>2. k \in Kinds \ {"execute"} /\ k # "begin" /\ k # "end"
      BY RecorderAssumption DEF Kinds, FrontendKinds, EventKinds
    <3>3. scope = "outside" /\ scope' = "outside"
      BY <2>2 DEF RecordOutside
    <3> QED  BY <3>1, <3>2, <3>3, FittingOps, RecordedStep DEF Fits
  <2>3. CASE BeginRenderPass
    <3>1. /\ Record(Op("begin")) /\ scope = "outside"
          /\ scope' \in {"inline", "clear", "secondary"}
      BY <2>3 DEF BeginRenderPass
    <3>2. "begin" \in Kinds \ {"execute"}
      BY DEF Kinds
    <3> QED  BY <3>1, <3>2, FittingOps, RecordedStep DEF Fits
  <2>4. CASE RecordDraw
    <3>1. PICK k \in DrawKinds : Record(Op(k))
      BY <2>4 DEF RecordDraw
    <3>2. k \in Kinds \ {"execute"} /\ k # "begin" /\ k # "end"
      BY DEF Kinds, DrawKinds
    <3>3. scope \in {"inline", "clear"} /\ scope' = scope
      BY <2>4 DEF RecordDraw
    <3> QED  BY <3>1, <3>2, <3>3, FittingOps, RecordedStep DEF Fits
  <2>5. CASE ExecuteCommands
    <3> DEFINE child == IF scope = "outside" THEN Plain ELSE Continuation
    <3>1. PICK n \in 1..2 : Record(Execute([k \in 1..n |-> child]))
      BY <2>5 DEF ExecuteCommands
    <3>2. scope' = scope
      BY <2>5 DEF ExecuteCommands
    <3> DEFINE names == [k \in 1..n |-> child]
    <3>3. ASSUME NEW S, child \in S PROVE names \in Seq(S)
      <4>1. names = [k \in 1..n |-> names[k]] /\ \A k \in 1..n : names[k] \in S
        BY <3>3
      <4> HIDE DEF names
      <4> QED  BY <4>1, MadeSeq
    <3>4. names \in Seq({Plain, Continuation})
      <4>1. child \in {Plain, Continuation}
        OBVIOUS
      <4> QED  BY <3>3, <4>1
    <3>5. scope # "outside" => names \in Seq({Continuation})
      <4>1. scope # "outside" => child \in {Continuation}
        OBVIOUS
      <4> HIDE DEF child, names
      <4> QED  BY <3>3, <4>1
    <3> HIDE DEF names
    <3>6. /\ Execute(names) \in Operations /\ Execute(names).kind = "execute"
          /\ Execute(names).children = names
      BY <3>4 DEF Execute, Operations, Kinds
    <3>7. Record(Execute(names))
      BY <3>1 DEF names
    <3> QED  BY <2>1, <3>2, <3>5, <3>6, <3>7, RecordedStep DEF Fits
  <2>6. CASE EndRenderPass
    <3>1. Record(Op("end")) /\ scope # "outside" /\ scope' = "outside"
      BY <2>6 DEF EndRenderPass
    <3>2. "end" \in Kinds \ {"execute"}
      BY DEF Kinds
    <3> QED  BY <3>1, <3>2, FittingOps, RecordedStep DEF Fits
  <2>7. CASE UNCHANGED vars
    BY <2>7 DEF vars, RecorderInv, RecordedKinds, RecordedPasses, Open
  <2> QED  BY <2>2, <2>3, <2>4, <2>5, <2>6, <2>7 DEF Next
<1> QED  BY <1>1, <1>2, PTL DEF Spec

-----------------------------------------------------------------------------
(* The operations a segment executes.                                      *)

Run(b, first, count) == [k \in 1..count |-> <<b, first + k - 1>>]

LEMMA RunIs ==
    ASSUME NEW B, NEW b \in B, NEW first \in Nat, NEW count \in Nat
    PROVE  /\ Run(b, first, count) \in Seq(B \X Nat) /\ Len(Run(b, first, count)) = count
           /\ \A k \in 1..count : Run(b, first, count)[k] = <<b, first + k - 1>>
<1> DEFINE run == Run(b, first, count)
<1>1. \A k \in 1..count : run[k] = <<b, first + k - 1>>
  BY DEF Run
<1>2. ASSUME NEW k \in 1..count PROVE run[k] \in B \X Nat
  <2>1. PICK n \in Nat : n = first + k - 1
    OBVIOUS
  <2>2. run[k] = <<b, n>>
    BY <1>1, <2>1
  <2>3. <<b, n>> \in B \X Nat
    OBVIOUS
  <2> QED  BY <2>2, <2>3
<1>3. run = [k \in 1..count |-> run[k]]
  BY DEF Run
<1> HIDE DEF run
<1>4. run \in Seq(B \X Nat) /\ Len(run) = count
  BY <1>2, <1>3, MadeSeq
<1> QED  BY <1>1, <1>4 DEF run

LEMMA RunOf ==
    ASSUME NEW b \in Buffers, NEW first \in Nat, NEW count \in Nat
    PROVE  /\ Run(b, first, count) \in Seq(Buffers \X Nat) /\ Len(Run(b, first, count)) = count
           /\ \A k \in 1..count : Run(b, first, count)[k] = <<b, first + k - 1>>
BY RunIs

(* s is a step of the part. *)
StepOfPart(s, part) == \E i \in part.first..part.first + part.count - 1 : s = <<part.buffer, i>>

LEMMA StepsAre ==
    ASSUME NEW B, NEW segment \in SegmentRecords(B)
    PROVE  /\ Steps(segment) \in Seq(B \X Nat)
           /\ \A s : s \in ToSet(Steps(segment)) <=>
                  \E p \in 1..Len(segment.parts) : StepOfPart(s, segment.parts[p])
<1>1. PICK parts \in Seq(PartRecords(B)) : parts = segment.parts
  BY DEF SegmentRecords
<1> DEFINE runs == [p \in 1..Len(parts) |-> Run(parts[p].buffer, parts[p].first, parts[p].count)]
<1>2. Steps(segment) = FlattenSeq(runs)
  BY <1>1 DEF Steps, Run
<1>3. ASSUME NEW p \in 1..Len(parts)
      PROVE  /\ runs[p] \in Seq(B \X Nat)
             /\ \A s : s \in ToSet(runs[p]) <=> StepOfPart(s, parts[p])
  <2>1. parts[p] \in PartRecords(B)
    BY ElementOfSeq
  <2>2. PICK b \in B, first \in Nat, count \in Nat :
            b = parts[p].buffer /\ first = parts[p].first /\ count = parts[p].count
    BY <2>1 DEF PartRecords
  <2>3. runs[p] = Run(b, first, count)
    BY <2>2
  <2>4. /\ Run(b, first, count) \in Seq(B \X Nat) /\ Len(Run(b, first, count)) = count
        /\ \A k \in 1..count : Run(b, first, count)[k] = <<b, first + k - 1>>
    BY RunIs
  <2>5. ASSUME NEW s
        PROVE  s \in ToSet(Run(b, first, count)) <=>
                   \E i \in first..first + count - 1 : s = <<b, i>>
    <3>1. ASSUME NEW i \in first..first + count - 1, s = <<b, i>>
          PROVE  s \in ToSet(Run(b, first, count))
      <4>1. i - first + 1 \in 1..count /\ first + (i - first + 1) - 1 = i
        OBVIOUS
      <4>2. Run(b, first, count)[i - first + 1] = s
        BY <2>4, <3>1, <4>1
      <4>3. DOMAIN Run(b, first, count) = 1..count
        BY <2>4
      <4> QED  BY <4>1, <4>2, <4>3 DEF ToSet
    <3>2. ASSUME s \in ToSet(Run(b, first, count))
          PROVE  \E i \in first..first + count - 1 : s = <<b, i>>
      <4>1. PICK k \in 1..count : s = Run(b, first, count)[k]
        BY <2>4, <3>2 DEF ToSet
      <4>2. first + k - 1 \in first..first + count - 1
        OBVIOUS
      <4> QED  BY <2>4, <4>1, <4>2
    <3> QED  BY <3>1, <3>2
  <2> QED  BY <2>2, <2>3, <2>4, <2>5 DEF StepOfPart
<1>4. runs \in Seq(Seq(B \X Nat)) /\ Len(runs) = Len(parts)
  <2>1. runs = [p \in 1..Len(parts) |-> runs[p]] /\ Len(parts) \in Nat
    OBVIOUS
  <2>2. \A p \in 1..Len(parts) : runs[p] \in Seq(B \X Nat)
    BY <1>3
  <2> HIDE DEF runs
  <2> QED  BY <2>1, <2>2, MadeSeq
<1> HIDE DEF runs
<1>5. FlattenSeq(runs) \in Seq(B \X Nat)
  BY <1>4, FlattenType
<1>6. \A s : s \in ToSet(FlattenSeq(runs)) <=> \E p \in 1..Len(parts) : s \in ToSet(runs[p])
  BY <1>4, FlattenRange
<1> QED  BY <1>1, <1>2, <1>3, <1>5, <1>6

LEMMA StepsOfOnePart ==
    ASSUME NEW B, NEW segment, NEW b \in B, NEW first \in Nat, NEW count \in Nat,
           segment.parts = <<Part(b, first, count)>>
    PROVE  Steps(segment) = Run(b, first, count) /\ Len(Steps(segment)) = count
<1>1. Part(b, first, count).buffer = b /\ Part(b, first, count).first = first
      /\ Part(b, first, count).count = count
  BY DEF Part
<1>2. PICK run \in Seq(B \X Nat) : run = Run(b, first, count) /\ Len(run) = count
  BY RunIs
<1>3. Len(segment.parts) = 1 /\ segment.parts[1] = Part(b, first, count) /\ 1..1 = {1}
  OBVIOUS
<1>4. Steps(segment) = FlattenSeq([p \in 1..Len(segment.parts) |->
          Run(segment.parts[p].buffer, segment.parts[p].first, segment.parts[p].count)])
  BY DEF Steps, Run
<1>5. [p \in 1..Len(segment.parts) |->
          Run(segment.parts[p].buffer, segment.parts[p].first, segment.parts[p].count)] = <<run>>
  BY <1>1, <1>2, <1>3
<1> QED  BY <1>2, <1>4, <1>5, FlattenOne

-----------------------------------------------------------------------------
(* The segments of a recording that may be submitted.                      *)

LEMMA RecordingIs ==
    ASSUME RecorderInv
    PROVE  /\ OfBuffers(Buffers, Operations, rec)
           /\ Primary \in Buffers /\ Plain \in Buffers /\ Continuation \in Buffers
           /\ \A b \in Buffers : rec[b] \in Seq(Operations) /\ Len(rec[b]) \in Nat
<1>1. {Plain, Continuation} \in SUBSET Buffers /\ Primary \in Buffers
  BY DEF Buffers
<1>2. \A op \in Operations : op.children \in Seq(Buffers)
  <2>1. ASSUME NEW names \in Seq({Plain, Continuation}) PROVE names \in Seq(Buffers)
    BY <1>1
  <2> QED  BY <2>1 DEF Operations
<1>3. rec \in [Buffers -> Seq(Operations)]
  BY DEF RecorderInv, RecordedKinds
<1> QED  BY <1>1, <1>2, <1>3 DEF OfBuffers

(* Only the primary opens render passes or names children.                 *)
LEMMA ChildKinds ==
    ASSUME RecorderInv, NEW b \in {Plain, Continuation}, NEW k \in 1..Len(rec[b])
    PROVE  /\ rec[b][k].kind \notin {"begin", "end", "execute"}
           /\ rec[b][k].children = <<>>
           /\ b = Continuation => rec[b][k].kind \in DrawKinds
           /\ ~NamesChildren(rec[b], k)
  BY RecorderAssumption
     DEF RecorderInv, RecordedKinds, FrontendKinds, EventKinds, DrawKinds, NamesChildren

(* The render pass opened at i, once the recording may be submitted.       *)
LEMMA PassIs ==
    ASSUME RecorderInv, Submittable, NEW i \in 1..Len(rec[Primary]),
           rec[Primary][i].kind = "begin"
    PROVE  /\ PassEnd(rec[Primary], i) \in i + 1..Len(rec[Primary])
           /\ rec[Primary][PassEnd(rec[Primary], i)].kind = "end"
           /\ \A k \in i + 1..PassEnd(rec[Primary], i) :
                  /\ rec[Primary][k].kind \in DrawKinds \cup {"execute", "end"}
                  /\ rec[Primary][k].kind = "execute" =>
                         rec[Primary][k].children \in Seq({Continuation})
<1> DEFINE ops == rec[Primary]  end == PassEnd(ops, i)
<1>1. ops \in Seq(Operations) /\ Len(ops) \in Nat
  BY RecordingIs
<1>2. /\ end \in i + 1..Len(ops) + 1
      /\ \A k \in i + 1..end - 1 : ops[k].kind # "end"
      /\ end <= Len(ops) => ops[end].kind = "end"
  BY <1>1, PassEndIs
<1>3. /\ \E e \in i + 1..Len(ops) : ops[e].kind = "end"
      /\ \A k \in i + 1..Len(ops) : Open(ops, i, k) =>
             /\ ops[k].kind \in DrawKinds \cup {"execute", "end"}
             /\ ops[k].kind = "execute" => ops[k].children \in Seq({Continuation})
  BY DEF RecorderInv, RecordedPasses, Submittable
<1> HIDE DEF end
<1>4. end \in i + 1..Len(ops)
  <2>1. PICK e \in i + 1..Len(ops) : ops[e].kind = "end"
    BY <1>3
  <2> QED  BY <1>1, <1>2, <2>1
<1>5. \A k \in i + 1..end : k \in i + 1..Len(ops) /\ Open(ops, i, k)
  BY <1>1, <1>2, <1>4 DEF Open
<1> QED  BY <1>2, <1>3, <1>4, <1>5 DEF end

LEMMA ExpandedSegments ==
    ASSUME RecorderInv, NEW segment \in ToSet(Expanded)
    PROVE  \/ /\ \A k \in 1..Len(rec[Primary]) :
                     rec[Primary][k].kind \notin BoundaryKinds \cup IndirectKinds
              /\ segment = Segment(<<Part(Primary, 1, Len(rec[Primary]))>>, FALSE, FALSE)
           \/ \E b \in Buffers : segment = EmptySegment(b)
           \/ \E b \in Buffers : \E i \in 1..Len(rec[b]) : segment = OwnSegment(rec, b, i)
<1>1. OfBuffers(Buffers, Operations, rec) /\ Primary \in Buffers
  BY RecordingIs
<1>2. CASE ~Special(rec, <<Primary>>)
  <2>1. Expanded = <<Segment(<<Part(Primary, 1, Len(rec[Primary]))>>, FALSE, FALSE)>>
    BY <1>2, ExpandOther DEF Expanded
  <2>2. \A k \in 1..Len(rec[Primary]) :
            rec[Primary][k].kind \notin BoundaryKinds \cup IndirectKinds
    BY <1>2, SpecialOne
  <2>3. \A x : ToSet(<<x>>) = {x}
    BY DEF ToSet
  <2>4. segment = Segment(<<Part(Primary, 1, Len(rec[Primary]))>>, FALSE, FALSE)
    BY <2>1, <2>3
  <2> QED  BY ONLY <2>2, <2>4
<1>3. CASE Special(rec, <<Primary>>)
  <2>1. rec[Primary] # <<>> /\ Expanded = SegmentOperations(rec, Primary)
    BY <1>1, <1>3, ExpandSpecial DEF Expanded
  <2>2. PICK i \in ToSet(Starts(rec[Primary])) : segment \in ToSet(Piece(rec, Primary, i))
    BY <1>1, <2>1, SegmentOperationsAre
  <2>3. ASSUME NEW b \in Buffers, NEW j \in ToSet(Starts(rec[b])) PROVE j \in 1..Len(rec[b])
    <3>1. rec[b] \in Seq(Operations)
      BY RecordingIs
    <3>2. Starts(rec[b]) \in Seq(1..Len(rec[b]))
      BY <3>1, StartsWalk DEF Walked
    <3> QED  BY <3>2, ElementOfSeq DEF ToSet
  <2>4. i \in 1..Len(rec[Primary])
    BY <1>1, <2>3
  <2>5. PICK c : \/ segment = OwnSegment(rec, Primary, i)
                 \/ /\ c \in ToSet(rec[Primary][i].children)
                    /\ segment \in ToSet(ChildSegments(rec, c))
    BY <1>1, <2>2, <2>4, PieceIs
  <2>6. CASE segment = OwnSegment(rec, Primary, i)
    BY <1>1, <2>4, <2>6
  <2>7. CASE c \in ToSet(rec[Primary][i].children) /\ segment \in ToSet(ChildSegments(rec, c))
    <3>1. c \in Buffers
      <4>1. rec[Primary][i].children \in Seq(Buffers)
        <5>1. rec[Primary][i] \in Operations
          BY <2>4, RecordingIs, ElementOfSeq
        <5> QED  BY <1>1, <5>1 DEF OfBuffers
      <4> QED  BY <2>7, <4>1, ElementOfSeq DEF ToSet
    <3>2. CASE rec[c] = <<>>
      <4>1. ToSet(ChildSegments(rec, c)) = {EmptySegment(c)}
        BY <1>1, <3>1, <3>2, ChildSegmentsAre
      <4> QED  BY <2>7, <3>1, <4>1
    <3>3. CASE rec[c] # <<>>
      <4>1. ToSet(ChildSegments(rec, c)) =
                {OwnSegment(rec, c, j) : j \in ToSet(Starts(rec[c]))}
        BY <1>1, <3>1, <3>3, ChildSegmentsAre
      <4>2. PICK j \in ToSet(Starts(rec[c])) : segment = OwnSegment(rec, c, j)
        BY <2>7, <4>1
      <4> QED  BY <2>3, <3>1, <4>2
    <3> QED  BY <3>2, <3>3
  <2> QED  BY <2>5, <2>6, <2>7
<1> QED  BY <1>2, <1>3

(* A segment of one part of buffer b. *)
LEMMA OwnPieceIs ==
    ASSUME RecorderInv, NEW b \in Buffers, NEW i \in 1..Len(rec[b]),
           ~NamesChildren(rec[b], i), NEW segment, segment = OwnSegment(rec, b, i)
    PROVE  /\ segment \in SegmentRecords(Buffers)
           /\ After(rec[b], i) \in i + 1..Len(rec[b]) + 1
           /\ segment.parts = <<Part(b, i, After(rec[b], i) - i)>>
           /\ Steps(segment) = Run(b, i, After(rec[b], i) - i)
           /\ Len(Steps(segment)) = After(rec[b], i) - i
           /\ \A s \in ToSet(Steps(segment)) :
                  \E k \in i..After(rec[b], i) - 1 : s = <<b, k>>
           /\ segment.frontend <=> rec[b][i].kind \in FrontendKinds \cup {"execute"}
           /\ segment.indirect <=> HasIndirect(rec[b], i, After(rec[b], i) - 1)
<1>1. OfBuffers(Buffers, Operations, rec) /\ rec[b] \in Seq(Operations) /\ Len(rec[b]) \in Nat
  BY RecordingIs
<1> DEFINE next == After(rec[b], i)
<1>2. next \in i + 1..Len(rec[b]) + 1
  BY <1>1, AfterIs
<1>3. segment \in SegmentRecords(Buffers)
  BY <1>1, OwnSegmentIs
<1>4. /\ segment.parts = <<Part(b, i, next - i)>>
      /\ segment.frontend <=> rec[b][i].kind \in FrontendKinds \cup {"execute"}
      /\ segment.indirect <=> HasIndirect(rec[b], i, next - 1)
  BY <1>1, OwnSegmentIs
<1> HIDE DEF next
<1>5. i \in Nat /\ next - i \in Nat
  BY <1>1, <1>2
<1>6. Steps(segment) = Run(b, i, next - i) /\ Len(Steps(segment)) = next - i
  BY <1>4, <1>5, StepsOfOnePart
<1>7. PICK run \in Seq(Buffers \X Nat) :
          /\ run = Run(b, i, next - i) /\ Len(run) = next - i
          /\ \A k \in 1..next - i : run[k] = <<b, i + k - 1>>
  <2>1. PICK count \in Nat : count = next - i
    BY <1>5
  <2>2. /\ Run(b, i, count) \in Seq(Buffers \X Nat) /\ Len(Run(b, i, count)) = count
        /\ \A k \in 1..count : Run(b, i, count)[k] = <<b, i + k - 1>>
    BY <1>5, RunOf
  <2> QED  BY <2>1, <2>2
<1>8. ASSUME NEW s \in ToSet(run) PROVE \E k \in i..next - 1 : s = <<b, k>>
  <2>1. PICK k \in 1..next - i : s = run[k]
    BY <1>7 DEF ToSet
  <2>2. i + k - 1 \in i..next - 1
    BY <1>2, <1>5
  <2> QED  BY <1>7, <2>1, <2>2
<1> QED  BY <1>2, <1>3, <1>4, <1>6, <1>7, <1>8 DEF next

(* The segment of a render pass that names children. *)
LEMMA PassPieceIs ==
    ASSUME RecorderInv, Submittable, NEW b \in Buffers, NEW i \in 1..Len(rec[b]),
           NamesChildren(rec[b], i), NEW segment, segment = OwnSegment(rec, b, i)
    PROVE  /\ b = Primary /\ segment \in SegmentRecords(Buffers) /\ ~segment.frontend
           /\ PassEnd(rec[b], i) \in i + 1..Len(rec[b])
           /\ PassNames(rec[b], i) \in Seq(Buffers)
           /\ \A n \in 1..Len(PassNames(rec[b], i)) : PassNames(rec[b], i)[n] = Continuation
           /\ segment.indirect <=>
                  \/ HasIndirect(rec[b], i, PassEnd(rec[b], i))
                  \/ PassNames(rec[b], i) # <<>> /\
                         HasIndirect(rec[Continuation], 1, Len(rec[Continuation]))
           /\ \A s \in ToSet(Steps(segment)) :
                  \/ \E k \in i..PassEnd(rec[b], i) :
                         s = <<b, k>> /\ rec[b][k].kind \in DrawKinds \cup {"begin", "execute", "end"}
                  \/ \E k \in 1..Len(rec[Continuation]) :
                         s = <<Continuation, k>> /\ PassNames(rec[b], i) # <<>>
<1>1. /\ OfBuffers(Buffers, Operations, rec) /\ rec[b] \in Seq(Operations)
      /\ Len(rec[b]) \in Nat /\ Len(rec[Continuation]) \in Nat
  BY RecordingIs
<1>2. b = Primary
  BY ChildKinds DEF Buffers
<1>3. rec[b][i].kind = "begin"
  BY DEF NamesChildren
<1> DEFINE end == PassEnd(rec[b], i)  named == PassNames(rec[b], i)
<1>4. /\ end \in i + 1..Len(rec[b])
      /\ \A k \in i + 1..end :
             /\ rec[b][k].kind \in DrawKinds \cup {"execute", "end"}
             /\ rec[b][k].kind = "execute" => rec[b][k].children \in Seq({Continuation})
  BY <1>2, <1>3, PassIs
<1>5. \A k \in i..end : rec[b][k].kind \in DrawKinds \cup {"begin", "execute", "end"}
  <2>1. \A k \in i..end : k = i \/ k \in i + 1..end
    BY <1>1, <1>4
  <2> QED  BY <1>3, <1>4, <2>1
<1>6. \A op \in Operations : op.children \in Seq(Buffers)
  BY <1>1 DEF OfBuffers
<1>7. PICK ops \in Seq(Operations) : ops = rec[b]
  BY <1>1
<1>8. /\ named \in Seq(Buffers)
      /\ \A c : c \in ToSet(named) <=> \E k \in i..end : c \in ToSet(ops[k].children)
  <2>1. i \in 1..Len(ops) /\ PassEnd(ops, i) <= Len(ops) /\ PassEnd(ops, i) = end
    BY <1>4, <1>7
  <2>2. /\ PassNames(ops, i) \in Seq(Buffers)
        /\ \A c : c \in ToSet(PassNames(ops, i)) <=>
               \E k \in i..PassEnd(ops, i) : c \in ToSet(ops[k].children)
    BY <1>6, <2>1, PassNamesAre
  <2> QED  BY <1>7, <2>1, <2>2
<1>9. ASSUME NEW n \in 1..Len(named) PROVE named[n] = Continuation
  <2>1. named[n] \in ToSet(named)
    BY <1>8 DEF ToSet
  <2>2. PICK k \in i..end : named[n] \in ToSet(ops[k].children)
    BY <1>8, <2>1
  <2>3. CASE ops[k].kind # "execute"
    <3>1. ops[k].children = <<>>
      <4>1. k \in 1..Len(rec[Primary])
        BY <1>1, <1>2, <1>4
      <4> QED  BY <1>2, <1>7, <2>3, <4>1 DEF RecorderInv, RecordedKinds
    <3>2. ToSet(<<>>) = {}
      BY DEF ToSet
    <3> QED  BY <2>2, <3>1, <3>2
  <2>4. CASE ops[k].kind = "execute"
    <3>1. k \in i + 1..end
      <4>1. k # i
        BY <1>3, <1>7, <2>4
      <4> QED  BY <1>1, <1>4, <4>1
    <3>2. ops[k].children \in Seq({Continuation})
      BY <1>4, <1>7, <2>4, <3>1
    <3>3. \A names \in Seq({Continuation}) : \A c \in ToSet(names) : c = Continuation
      <4>1. ASSUME NEW names \in Seq({Continuation}), NEW c \in ToSet(names)
            PROVE  c = Continuation
        <5>1. PICK m \in 1..Len(names) : c = names[m]
          BY DEF ToSet
        <5>2. names[m] \in {Continuation}
          BY <5>1, ElementOfSeq
        <5> QED  BY <5>1, <5>2
      <4> QED  BY <4>1
    <3> QED  BY <2>2, <3>2, <3>3
  <2> QED  BY <2>3, <2>4
<1>10. segment = PassSegment(rec, b, i) /\ segment \in SegmentRecords(Buffers)
  BY <1>1, OwnSegmentIs
<1>11. /\ ~segment.frontend
       /\ segment.indirect <=>
              \/ HasIndirect(rec[b], i, end)
              \/ \E n \in 1..Len(named) :
                     HasIndirect(rec[named[n]], 1, Len(rec[named[n]]))
       /\ Len(segment.parts) = 1 + Len(named)
       /\ segment.parts[1] = Part(b, i, end - i + 1)
       /\ \A n \in 1..Len(named) :
              segment.parts[1 + n] = Part(named[n], 1, Len(rec[named[n]]))
  <2>1. PassEnd(rec[b], i) <= Len(rec[b])
    BY <1>1, <1>4
  <2>2. /\ ~PassSegment(rec, b, i).frontend
        /\ PassSegment(rec, b, i).indirect <=>
               \/ HasIndirect(rec[b], i, PassEnd(rec[b], i))
               \/ \E n \in 1..Len(PassNames(rec[b], i)) :
                      HasIndirect(rec[PassNames(rec[b], i)[n]], 1,
                                  Len(rec[PassNames(rec[b], i)[n]]))
        /\ Len(PassSegment(rec, b, i).parts) = 1 + Len(PassNames(rec[b], i))
        /\ PassSegment(rec, b, i).parts[1] =
               Part(b, i, PassEnd(rec[b], i) - i + 1)
        /\ \A n \in 1..Len(PassNames(rec[b], i)) :
               PassSegment(rec, b, i).parts[1 + n] =
                   Part(PassNames(rec[b], i)[n], 1, Len(rec[PassNames(rec[b], i)[n]]))
    BY ONLY <1>1, <2>1, PassSegmentIs
  <2> QED  BY <1>10, <2>2
<1>12. \A s : s \in ToSet(Steps(segment)) <=>
            \E p \in 1..Len(segment.parts) : StepOfPart(s, segment.parts[p])
  BY <1>10, StepsAre
<1> HIDE DEF named, end
<1>13. named # <<>> <=> \E n \in 1..Len(named) : TRUE
  <2>1. Len(named) \in Nat /\ (named # <<>> <=> Len(named) # 0)
    BY <1>8, EmptySeq
  <2>2. Len(named) # 0 => 1 \in 1..Len(named)
    BY <2>1
  <2> QED  BY <2>1, <2>2
<1>14. segment.indirect <=>
           \/ HasIndirect(rec[b], i, end)
           \/ named # <<>> /\ HasIndirect(rec[Continuation], 1, Len(rec[Continuation]))
  BY <1>9, <1>11, <1>13
<1>15. ASSUME NEW s \in ToSet(Steps(segment))
       PROVE  \/ \E k \in i..end :
                     s = <<b, k>> /\ rec[b][k].kind \in DrawKinds \cup {"begin", "execute", "end"}
              \/ \E k \in 1..Len(rec[Continuation]) :
                     s = <<Continuation, k>> /\ named # <<>>
  <2>1. PICK p \in 1..1 + Len(named) : StepOfPart(s, segment.parts[p])
    BY <1>11, <1>12
  <2>2. CASE p = 1
    <3>1. StepOfPart(s, Part(b, i, end - i + 1))
      BY <1>11, <2>1, <2>2
    <3>2. PICK k \in i..i + (end - i + 1) - 1 : s = <<b, k>>
      BY <3>1 DEF StepOfPart, Part
    <3>3. k \in i..end
      BY <1>1, <1>4, <3>2
    <3> QED  BY <1>5, <3>2, <3>3
  <2>3. CASE p # 1
    <3>1. p - 1 \in 1..Len(named) /\ 1 + (p - 1) = p
      BY <1>8, <2>3
    <3>2. segment.parts[p] = Part(Continuation, 1, Len(rec[Continuation]))
      BY <1>9, <1>11, <3>1
    <3>3. PICK k \in 1..1 + Len(rec[Continuation]) - 1 : s = <<Continuation, k>>
      BY <2>1, <3>2 DEF StepOfPart, Part
    <3>4. k \in 1..Len(rec[Continuation])
      BY <1>1, <3>3
    <3> QED  BY <1>13, <3>1, <3>3, <3>4
  <2> QED  BY <2>2, <2>3
<1> QED  BY <1>2, <1>4, <1>8, <1>9, <1>10, <1>11, <1>14, <1>15 DEF named, end

(* Every segment of the recording, and what it executes.                   *)
LEMMA UnsplitIs ==
    ASSUME RecorderInv, NEW segment,
           segment = Segment(<<Part(Primary, 1, Len(rec[Primary]))>>, FALSE, FALSE)
    PROVE  /\ segment \in SegmentRecords(Buffers) /\ ~segment.frontend /\ ~segment.indirect
           /\ segment.parts = <<Part(Primary, 1, Len(rec[Primary]))>>
           /\ \A s \in ToSet(Steps(segment)) :
                  \E k \in 1..Len(rec[Primary]) : s = <<Primary, k>>
<1>1. Primary \in Buffers /\ Len(rec[Primary]) \in Nat
  BY RecordingIs
<1>2. PICK n \in Nat : n = Len(rec[Primary])
  BY <1>1
<1>3. PICK part \in PartRecords(Buffers) : part = Part(Primary, 1, n)
  BY <1>1 DEF Part, PartRecords
<1>4. /\ segment \in SegmentRecords(Buffers) /\ ~segment.frontend /\ ~segment.indirect
      /\ segment.parts = <<part>>
  BY <1>2, <1>3 DEF Segment, SegmentRecords
<1>5. ASSUME NEW s \in ToSet(Steps(segment)) PROVE \E k \in 1..n : s = <<Primary, k>>
  <2>1. PICK p \in 1..Len(segment.parts) : StepOfPart(s, segment.parts[p])
    BY <1>4, StepsAre
  <2>2. segment.parts[p] = part
    <3>1. Len(<<part>>) = 1 /\ <<part>>[1] = part
      OBVIOUS
    <3>2. p \in 1..1
      BY <1>4, <2>1, <3>1
    <3>3. p = 1
      BY <3>2
    <3> QED  BY <1>4, <3>1, <3>3
  <2>3. StepOfPart(s, Part(Primary, 1, n))
    BY <1>3, <2>1, <2>2
  <2>4. PICK k \in 1..1 + n - 1 : s = <<Primary, k>>
    BY <2>3 DEF StepOfPart, Part
  <2> QED  BY <2>4
<1> QED  BY <1>2, <1>3, <1>4, <1>5

LEMMA EmptyIs ==
    ASSUME NEW b \in Buffers, NEW segment, segment = EmptySegment(b)
    PROVE  /\ segment \in SegmentRecords(Buffers) /\ Len(Steps(segment)) = 0
           /\ ToSet(Steps(segment)) = {}
<1>1. segment \in SegmentRecords(Buffers) /\ segment.parts = <<Part(b, 1, 0)>>
  BY EmptySegmentIs
<1>2. Len(Steps(segment)) = 0
  BY <1>1, StepsOfOnePart
<1>3. Steps(segment) \in Seq(Buffers \X Nat)
  BY <1>1, StepsAre
<1> QED  BY <1>1, <1>2, <1>3 DEF ToSet

-----------------------------------------------------------------------------
(* A segment the host executes holds one operation at most, and no host    *)
(* work is in a segment for the native backend (segment_operations).       *)
THEOREM FrontendAlone == Spec => []FrontendStandsAlone
<1>1. RecorderInv => FrontendStandsAlone
  <2> SUFFICES ASSUME RecorderInv, Submittable, NEW segment \in ToSet(Expanded)
               PROVE  /\ segment.frontend => Len(Steps(segment)) <= 1
                      /\ \A s \in ToSet(Steps(segment)) :
                             rec[s[1]][s[2]].kind \in FrontendKinds => segment.frontend
    BY DEF FrontendStandsAlone
  <2>1. CASE /\ \A k \in 1..Len(rec[Primary]) :
                    rec[Primary][k].kind \notin BoundaryKinds \cup IndirectKinds
             /\ segment = Segment(<<Part(Primary, 1, Len(rec[Primary]))>>, FALSE, FALSE)
    <3>1. /\ ~segment.frontend
          /\ \A s \in ToSet(Steps(segment)) : \E k \in 1..Len(rec[Primary]) : s = <<Primary, k>>
      BY <2>1, UnsplitIs
    <3>2. \A k \in 1..Len(rec[Primary]) : rec[Primary][k].kind \notin FrontendKinds
      BY <2>1 DEF BoundaryKinds
    <3> QED  BY <3>1, <3>2
  <2>2. ASSUME NEW b \in Buffers, segment = EmptySegment(b)
        PROVE  Len(Steps(segment)) = 0 /\ ToSet(Steps(segment)) = {}
    BY <2>2, EmptyIs
  <2>3. ASSUME NEW b \in Buffers, NEW i \in 1..Len(rec[b]), segment = OwnSegment(rec, b, i)
        PROVE  /\ segment.frontend => Len(Steps(segment)) <= 1
               /\ \A s \in ToSet(Steps(segment)) :
                      rec[s[1]][s[2]].kind \in FrontendKinds => segment.frontend
    <3>1. rec[b] \in Seq(Operations) /\ Len(rec[b]) \in Nat
      BY RecordingIs
    <3>2. CASE NamesChildren(rec[b], i)
      <4>1. /\ ~segment.frontend
            /\ \A s \in ToSet(Steps(segment)) :
                  \/ \E k \in i..PassEnd(rec[b], i) :
                         s = <<b, k>> /\ rec[b][k].kind \in DrawKinds \cup {"begin", "execute", "end"}
                  \/ \E k \in 1..Len(rec[Continuation]) :
                         s = <<Continuation, k>> /\ PassNames(rec[b], i) # <<>>
        BY <2>3, <3>2, PassPieceIs
      <4>2. \A k \in 1..Len(rec[Continuation]) : rec[Continuation][k].kind \in DrawKinds
        BY DEF RecorderInv, RecordedKinds
      <4>3. \A k \in DrawKinds \cup {"begin", "execute", "end"} : k \notin FrontendKinds
        BY DEF DrawKinds, FrontendKinds, EventKinds
      <4>4. ASSUME NEW s \in ToSet(Steps(segment))
            PROVE  rec[s[1]][s[2]].kind \in DrawKinds \cup {"begin", "execute", "end"}
        <5>1. CASE \E k \in i..PassEnd(rec[b], i) :
                       s = <<b, k>> /\ rec[b][k].kind \in DrawKinds \cup {"begin", "execute", "end"}
          BY <5>1
        <5>2. CASE \E k \in 1..Len(rec[Continuation]) : s = <<Continuation, k>>
          BY <4>2, <5>2
        <5> QED  BY <4>1, <5>1, <5>2
      <4> QED  BY <4>1, <4>3, <4>4
    <3>3. CASE ~NamesChildren(rec[b], i)
      <4>1. /\ Len(Steps(segment)) = After(rec[b], i) - i
            /\ \A s \in ToSet(Steps(segment)) :
                   \E k \in i..After(rec[b], i) - 1 : s = <<b, k>>
            /\ segment.frontend <=> rec[b][i].kind \in FrontendKinds \cup {"execute"}
        BY <2>3, <3>3, OwnPieceIs
      <4>2. CASE rec[b][i].kind \in BoundaryKinds
        <5>1. After(rec[b], i) = i + 1
          BY <3>1, <3>3, <4>2, AfterIs
        <5>2. i + 1 - i = 1 /\ i..(i + 1) - 1 = {i}
          BY <3>1
        <5>3. \A s \in ToSet(Steps(segment)) : s = <<b, i>>
          BY <4>1, <5>1, <5>2
        <5> QED  BY <4>1, <5>1, <5>2, <5>3
      <4>3. CASE rec[b][i].kind \notin BoundaryKinds
        <5>1. \A k \in i..After(rec[b], i) - 1 : rec[b][k].kind \notin BoundaryKinds
          BY <3>1, <3>3, <4>3, AfterIs
        <5>2. ~segment.frontend
          BY <4>1, <4>3 DEF BoundaryKinds
        <5>3. \A s \in ToSet(Steps(segment)) : rec[s[1]][s[2]].kind \notin BoundaryKinds
          BY <4>1, <5>1
        <5> QED  BY <5>2, <5>3 DEF BoundaryKinds
      <4> QED  BY <4>2, <4>3
    <3> QED  BY <3>2, <3>3
  <2>4. \/ /\ \A k \in 1..Len(rec[Primary]) :
                  rec[Primary][k].kind \notin BoundaryKinds \cup IndirectKinds
           /\ segment = Segment(<<Part(Primary, 1, Len(rec[Primary]))>>, FALSE, FALSE)
        \/ \E b \in Buffers : segment = EmptySegment(b)
        \/ \E b \in Buffers : \E i \in 1..Len(rec[b]) : segment = OwnSegment(rec, b, i)
    BY ExpandedSegments
  <2>5. CASE \E b \in Buffers : segment = EmptySegment(b)
    BY <2>2, <2>5
  <2>6. CASE \E b \in Buffers : \E i \in 1..Len(rec[b]) : segment = OwnSegment(rec, b, i)
    BY <2>3, <2>6
  <2> QED  BY <2>1, <2>4, <2>5, <2>6
<1> QED  BY <1>1, RecordedInvariant, PTL

(* Work that reads its parameters from memory is always in a segment whose *)
(* preparation waits for the queue head, whatever buffer recorded it       *)
(* (range_has_indirect).                                                   *)
THEOREM IndirectDeferred == Spec => []IndirectIsDeferred
<1>1. RecorderInv => IndirectIsDeferred
  <2> SUFFICES ASSUME RecorderInv, Submittable, NEW segment \in ToSet(Expanded),
                      NEW s \in ToSet(Steps(segment)),
                      rec[s[1]][s[2]].kind \in IndirectKinds
               PROVE  segment.indirect /\ ~segment.frontend
    BY DEF IndirectIsDeferred
  <2>1. CASE /\ \A k \in 1..Len(rec[Primary]) :
                    rec[Primary][k].kind \notin BoundaryKinds \cup IndirectKinds
             /\ segment = Segment(<<Part(Primary, 1, Len(rec[Primary]))>>, FALSE, FALSE)
    <3>1. PICK k \in 1..Len(rec[Primary]) : s = <<Primary, k>>
      BY <2>1, UnsplitIs
    <3>2. rec[Primary][k].kind \in IndirectKinds
      BY <3>1
    <3> QED  BY <2>1, <3>2
  <2>2. ASSUME NEW b \in Buffers, segment = EmptySegment(b) PROVE FALSE
    <3>1. ToSet(Steps(segment)) = {}
      BY <2>2, EmptyIs
    <3> QED  BY <3>1
  <2>3. ASSUME NEW b \in Buffers, NEW i \in 1..Len(rec[b]), segment = OwnSegment(rec, b, i)
        PROVE  segment.indirect /\ ~segment.frontend
    <3>1. rec[b] \in Seq(Operations) /\ Len(rec[b]) \in Nat
      BY RecordingIs
    <3>2. CASE NamesChildren(rec[b], i)
      <4>1. /\ ~segment.frontend
            /\ segment.indirect <=>
                  \/ HasIndirect(rec[b], i, PassEnd(rec[b], i))
                  \/ PassNames(rec[b], i) # <<>> /\
                         HasIndirect(rec[Continuation], 1, Len(rec[Continuation]))
            /\ \/ \E k \in i..PassEnd(rec[b], i) :
                      s = <<b, k>> /\ rec[b][k].kind \in DrawKinds \cup {"begin", "execute", "end"}
               \/ \E k \in 1..Len(rec[Continuation]) :
                      s = <<Continuation, k>> /\ PassNames(rec[b], i) # <<>>
        BY <2>3, <3>2, PassPieceIs
      <4>2. CASE \E k \in i..PassEnd(rec[b], i) : s = <<b, k>>
        <5>1. HasIndirect(rec[b], i, PassEnd(rec[b], i))
          BY <4>2 DEF HasIndirect
        <5> QED  BY <4>1, <5>1
      <4>3. CASE \E k \in 1..Len(rec[Continuation]) :
                     s = <<Continuation, k>> /\ PassNames(rec[b], i) # <<>>
        <5>1. HasIndirect(rec[Continuation], 1, Len(rec[Continuation]))
          BY <4>3 DEF HasIndirect
        <5> QED  BY <4>1, <4>3, <5>1
      <4> QED  BY <4>1, <4>2, <4>3
    <3>3. CASE ~NamesChildren(rec[b], i)
      <4>1. /\ \E k \in i..After(rec[b], i) - 1 : s = <<b, k>>
            /\ segment.frontend <=> rec[b][i].kind \in FrontendKinds \cup {"execute"}
            /\ segment.indirect <=> HasIndirect(rec[b], i, After(rec[b], i) - 1)
        BY <2>3, <3>3, OwnPieceIs, SMTT(30)
      <4>2. PICK k \in i..After(rec[b], i) - 1 : s = <<b, k>>
        BY <4>1
      <4>3. rec[b][k].kind \in IndirectKinds
        BY <4>2
      <4>4. segment.indirect
        BY <4>1, <4>3 DEF HasIndirect
      <4>5. CASE rec[b][i].kind \in BoundaryKinds
        <5>1. After(rec[b], i) = i + 1
          BY <3>1, <3>3, <4>5, AfterIs
        <5>2. k = i
          BY <5>1
        <5>3. rec[b][i].kind \notin FrontendKinds \cup {"execute"}
          BY <4>3, <5>2 DEF FrontendKinds, EventKinds, IndirectKinds
        <5> QED  BY <4>1, <4>4, <5>3
      <4>6. CASE rec[b][i].kind \notin BoundaryKinds
        BY <4>1, <4>4, <4>6 DEF BoundaryKinds
      <4> QED  BY <4>5, <4>6
    <3> QED  BY <3>2, <3>3
  <2> QED  BY <2>1, <2>2, <2>3, ExpandedSegments
<1> QED  BY <1>1, RecordedInvariant, PTL

-----------------------------------------------------------------------------
(* The segments that must be there.                                        *)

LEMMA ExpandedHas ==
    ASSUME RecorderInv, Special(rec, <<Primary>>)
    PROVE  /\ OfBuffers(Buffers, Operations, rec) /\ rec[Primary] # <<>>
           /\ Expanded = SegmentOperations(rec, Primary)
           /\ Expanded \in Seq(SegmentRecords(Buffers)) /\ Expanded # <<>>
           /\ \A k \in 1..Len(rec[Primary]) : \E i \in 1..Len(rec[Primary]) :
                  /\ i <= k /\ k < After(rec[Primary], i)
                  /\ \A segment \in ToSet(Piece(rec, Primary, i)) : segment \in ToSet(Expanded)
           /\ \E i \in 1..Len(rec[Primary]) :
                  Expanded[Len(Expanded)] = OwnSegment(rec, Primary, i)
<1>1. OfBuffers(Buffers, Operations, rec) /\ Primary \in Buffers
  BY RecordingIs
<1>2. rec[Primary] # <<>> /\ Expanded = SegmentOperations(rec, Primary)
  BY <1>1, ExpandSpecial DEF Expanded
<1>3. PICK ops \in Seq(Operations) : ops = rec[Primary]
  BY RecordingIs
<1>4. /\ SegmentOperations(rec, Primary) \in Seq(SegmentRecords(Buffers))
      /\ SegmentOperations(rec, Primary) # <<>>
      /\ \A seg : seg \in ToSet(SegmentOperations(rec, Primary)) <=>
             \E i \in ToSet(Starts(rec[Primary])) : seg \in ToSet(Piece(rec, Primary, i))
      /\ \E i \in 1..Len(rec[Primary]) :
             SegmentOperations(rec, Primary)[Len(SegmentOperations(rec, Primary))] =
                 OwnSegment(rec, Primary, i)
  BY ONLY <1>1, <1>2, SegmentOperationsAre
<1>5. ASSUME NEW k \in 1..Len(ops)
      PROVE  \E i \in 1..Len(ops) :
                 /\ i <= k /\ k < After(ops, i)
                 /\ \A segment \in ToSet(Piece(rec, Primary, i)) : segment \in ToSet(Expanded)
  <2>1. PICK i \in ToSet(Starts(ops)) : i \in 1..Len(ops) /\ i <= k /\ k < After(ops, i)
    BY EveryPosition
  <2>2. \A segment \in ToSet(Piece(rec, Primary, i)) : segment \in ToSet(Expanded)
    BY <1>2, <1>3, <1>4, <2>1
  <2> QED  BY <2>1, <2>2
<1> QED  BY <1>1, <1>2, <1>3, <1>4, <1>5

LEMMA PieceHasOwn ==
    ASSUME RecorderInv, NEW b \in Buffers, NEW i \in 1..Len(rec[b])
    PROVE  /\ OwnSegment(rec, b, i) \in ToSet(Piece(rec, b, i))
           /\ rec[b][i].kind = "execute" =>
                  \A c \in ToSet(rec[b][i].children) :
                      \A segment \in ToSet(ChildSegments(rec, c)) :
                          segment \in ToSet(Piece(rec, b, i))
<1>1. OfBuffers(Buffers, Operations, rec)
  BY RecordingIs
<1>2. \A seg : seg \in ToSet(Piece(rec, b, i)) <=>
          \/ seg = OwnSegment(rec, b, i)
          \/ /\ rec[b][i].kind = "execute"
             /\ \E c \in ToSet(rec[b][i].children) :
                    seg \in ToSet(ChildSegments(rec, c))
  BY <1>1, PieceIs
<1> QED  BY <1>2

(* A buffer's own segment names it in its first part.                      *)
LEMMA OwnSegmentNames ==
    ASSUME RecorderInv, NEW b \in Buffers, NEW i \in 1..Len(rec[b])
    PROVE  /\ 1 \in 1..Len(OwnSegment(rec, b, i).parts)
           /\ OwnSegment(rec, b, i).parts[1].buffer = b
           /\ Names(OwnSegment(rec, b, i), b)
<1>1. OfBuffers(Buffers, Operations, rec) /\ rec[b] \in Seq(Operations)
  BY RecordingIs
<1> DEFINE segment == OwnSegment(rec, b, i)
<1>2. 1 \in 1..Len(segment.parts) /\ segment.parts[1].buffer = b
  <2>1. CASE ~NamesChildren(rec[b], i)
    <3>1. segment.parts = <<Part(b, i, After(rec[b], i) - i)>>
      BY <2>1, OwnPieceIs
    <3> QED  BY <3>1 DEF Part
  <2>2. CASE NamesChildren(rec[b], i)
    <3>1. segment = PassSegment(rec, b, i)
      BY <1>1, <2>2, OwnSegmentIs
    <3>2. PassEnd(rec[b], i) <= Len(rec[b])
      BY <2>2 DEF NamesChildren
    <3>3. PICK ops \in Seq(Operations) : ops = rec[b]
      BY <1>1
    <3>4. Len(PassNames(rec[b], i)) \in Nat
      <4>1. \A op \in Operations : op.children \in Seq(Buffers)
        BY <1>1 DEF OfBuffers
      <4>2. PassNames(ops, i) \in Seq(Buffers)
        BY <3>2, <3>3, <4>1, PassNamesAre
      <4> QED  BY <3>3, <4>2
    <3>5. /\ Len(PassSegment(rec, b, i).parts) = 1 + Len(PassNames(rec[b], i))
          /\ PassSegment(rec, b, i).parts[1] = Part(b, i, PassEnd(rec[b], i) - i + 1)
      BY <1>1, <3>2, PassSegmentIs
    <3> QED  BY <3>1, <3>4, <3>5 DEF Part
  <2> QED  BY <2>1, <2>2
<1> QED  BY <1>2 DEF Names

LEMMA ChildSegmentsName ==
    ASSUME RecorderInv, NEW c \in Buffers
    PROVE  \E segment \in ToSet(ChildSegments(rec, c)) : Names(segment, c)
<1>1. OfBuffers(Buffers, Operations, rec) /\ rec[c] \in Seq(Operations)
  BY RecordingIs
<1>2. CASE rec[c] = <<>>
  <2>1. ToSet(ChildSegments(rec, c)) = {EmptySegment(c)}
    BY <1>1, <1>2, ChildSegmentsAre
  <2>2. EmptySegment(c).parts = <<Part(c, 1, 0)>>
    BY EmptySegmentIs
  <2>3. Names(EmptySegment(c), c)
    BY <2>2 DEF Names, Part
  <2> QED  BY <2>1, <2>3
<1>3. CASE rec[c] # <<>>
  <2>1. ToSet(ChildSegments(rec, c)) = {OwnSegment(rec, c, i) : i \in ToSet(Starts(rec[c]))}
    BY <1>1, <1>3, ChildSegmentsAre
  <2>2. Len(rec[c]) \in Nat \ {0}
    BY <1>1, <1>3, EmptySeq
  <2>3. 1 \in ToSet(Starts(rec[c]))
    <3>1. PICK ops \in Seq(Operations) : ops = rec[c]
      BY <1>1
    <3>2. PICK i \in ToSet(Starts(ops)) : i \in 1..Len(ops) /\ i <= 1
      <4>1. 1 \in 1..Len(ops)
        BY <2>2, <3>1
      <4> QED  BY <4>1, EveryPosition
    <3> QED  BY <3>1, <3>2
  <2>4. Names(OwnSegment(rec, c, 1), c)
    <3>1. 1 \in 1..Len(rec[c])
      BY <2>2
    <3> QED  BY <3>1, OwnSegmentNames
  <2> QED  BY <2>1, <2>3, <2>4
<1> QED  BY <1>2, <1>3

(* Every buffer the submission names, empty ones too, is named by one of   *)
(* its segments, and the parent by the last one: it stays pending as long  *)
(* as its children (segment_operations).                                   *)
THEOREM ParentLast == Spec => []ParentOutlivesChildren
<1>1. RecorderInv => ParentOutlivesChildren
  <2> SUFFICES ASSUME RecorderInv, Submittable PROVE ParentOutlivesChildren
    BY DEF ParentOutlivesChildren
  <2>1. /\ OfBuffers(Buffers, Operations, rec) /\ Primary \in Buffers
        /\ rec[Primary] \in Seq(Operations) /\ Len(rec[Primary]) \in Nat
    BY RecordingIs
  <2>2. /\ Len(Expanded) \in 1..Len(Expanded)
        /\ Names(Expanded[Len(Expanded)], Primary)
    <3>1. CASE ~Special(rec, <<Primary>>)
      <4>1. Expanded = <<Segment(<<Part(Primary, 1, Len(rec[Primary]))>>, FALSE, FALSE)>>
        BY <3>1, ExpandOther DEF Expanded
      <4> QED  BY <4>1 DEF Names, Segment, Part
    <3>2. CASE Special(rec, <<Primary>>)
      <4>1. /\ Expanded \in Seq(SegmentRecords(Buffers)) /\ Expanded # <<>>
            /\ \E i \in 1..Len(rec[Primary]) :
                   Expanded[Len(Expanded)] = OwnSegment(rec, Primary, i)
        BY <3>2, ExpandedHas
      <4>2. Len(Expanded) \in Nat \ {0}
        BY <4>1, EmptySeq
      <4> QED  BY <2>1, <4>1, <4>2, OwnSegmentNames
    <3> QED  BY <3>1, <3>2
  <2>3. ASSUME NEW i \in 1..Len(rec[Primary]), NEW c \in ToSet(rec[Primary][i].children)
        PROVE  \E j \in 1..Len(Expanded) : Names(Expanded[j], c)
    <3>1. PICK op \in Operations : op = rec[Primary][i]
      BY <2>1, ElementOfSeq
    <3>2. op.kind = "execute"
      <4>1. ToSet(<<>>) = {}
        BY DEF ToSet
      <4> QED  BY <2>3, <3>1, <4>1 DEF RecorderInv, RecordedKinds
    <3>3. c \in Buffers
      <4>1. op.children \in Seq(Buffers)
        BY <2>1 DEF OfBuffers
      <4> QED  BY <2>3, <3>1, <4>1, ElementOfSeq DEF ToSet
    <3>4. Special(rec, <<Primary>>)
      BY <3>1, <3>2, SpecialOne DEF BoundaryKinds
    <3>5. /\ Expanded \in Seq(SegmentRecords(Buffers))
          /\ \A k \in 1..Len(rec[Primary]) : \E j \in 1..Len(rec[Primary]) :
                 /\ j <= k /\ k < After(rec[Primary], j)
                 /\ \A segment \in ToSet(Piece(rec, Primary, j)) : segment \in ToSet(Expanded)
      BY <3>4, ExpandedHas
    <3>6. PICK j \in 1..Len(rec[Primary]) :
              /\ j <= i /\ i < After(rec[Primary], j)
              /\ \A segment \in ToSet(Piece(rec, Primary, j)) : segment \in ToSet(Expanded)
      BY <3>5
    <3>7. \E segment \in ToSet(Piece(rec, Primary, j)) : Names(segment, c)
      <4>1. CASE NamesChildren(rec[Primary], j)
        <5>1. OwnSegment(rec, Primary, j) = PassSegment(rec, Primary, j)
          BY <2>1, <4>1, OwnSegmentIs
        <5>2. PassEnd(rec[Primary], j) <= Len(rec[Primary])
          BY <4>1 DEF NamesChildren
        <5>3. After(rec[Primary], j) = PassEnd(rec[Primary], j) + 1
          BY <2>1, <4>1, AfterIs
        <5>4. PassEnd(rec[Primary], j) \in j + 1..Len(rec[Primary]) + 1
          BY <2>1, PassEndIs
        <5>5. i \in j..PassEnd(rec[Primary], j)
          BY <2>1, <3>6, <5>3, <5>4
        <5>6. PICK ops \in Seq(Operations) : ops = rec[Primary]
          BY <2>1
        <5>7. /\ PassNames(rec[Primary], j) \in Seq(Buffers)
              /\ c \in ToSet(PassNames(rec[Primary], j))
          <6>1. \A o \in Operations : o.children \in Seq(Buffers)
            BY <2>1 DEF OfBuffers
          <6>2. /\ PassNames(ops, j) \in Seq(Buffers)
                /\ \A d : d \in ToSet(PassNames(ops, j)) <=>
                       \E k \in j..PassEnd(ops, j) : d \in ToSet(ops[k].children)
            BY <5>2, <5>6, <6>1, PassNamesAre
          <6>3. c \in ToSet(PassNames(ops, j))
            BY <2>3, <5>5, <5>6, <6>2
          <6> QED  BY <5>6, <6>2, <6>3
        <5>8. PICK n \in 1..Len(PassNames(rec[Primary], j)) : PassNames(rec[Primary], j)[n] = c
          BY <5>7 DEF ToSet
        <5>9. /\ Len(PassSegment(rec, Primary, j).parts) = 1 + Len(PassNames(rec[Primary], j))
              /\ PassSegment(rec, Primary, j).parts[1 + n] =
                     Part(PassNames(rec[Primary], j)[n], 1, Len(rec[PassNames(rec[Primary], j)[n]]))
          <6>1. /\ Len(PassSegment(rec, Primary, j).parts) = 1 + Len(PassNames(rec[Primary], j))
                /\ \A m \in 1..Len(PassNames(rec[Primary], j)) :
                       PassSegment(rec, Primary, j).parts[1 + m] =
                           Part(PassNames(rec[Primary], j)[m], 1,
                                Len(rec[PassNames(rec[Primary], j)[m]]))
            BY ONLY <2>1, <5>2, PassSegmentIs
          <6> QED  BY ONLY <6>1, n \in 1..Len(PassNames(rec[Primary], j))
        <5>10. PassSegment(rec, Primary, j).parts[1 + n].buffer = c
          BY <5>8, <5>9 DEF Part
        <5>11. 1 + n \in 1..Len(PassSegment(rec, Primary, j).parts)
          BY <5>7, <5>9
        <5>12. Names(PassSegment(rec, Primary, j), c)
          BY <5>10, <5>11 DEF Names
        <5> QED  BY <2>1, <5>1, <5>12, PieceHasOwn
      <4>2. CASE ~NamesChildren(rec[Primary], j)
        <5>1. i = j
          <6>1. rec[Primary][i].kind \in BoundaryKinds
            BY <3>1, <3>2 DEF BoundaryKinds
          <6>2. CASE rec[Primary][j].kind \in BoundaryKinds
            <7>1. After(rec[Primary], j) = j + 1
              BY <2>1, <4>2, <6>2, AfterIs
            <7> QED  BY <2>1, <3>6, <7>1
          <6>3. CASE rec[Primary][j].kind \notin BoundaryKinds
            <7>1. \A k \in j..After(rec[Primary], j) - 1 : rec[Primary][k].kind \notin BoundaryKinds
              BY <2>1, <4>2, <6>3, AfterIs
            <7>2. After(rec[Primary], j) \in j + 1..Len(rec[Primary]) + 1
              BY <2>1, AfterIs
            <7>3. i \in j..After(rec[Primary], j) - 1
              BY <2>1, <3>6, <7>2
            <7> QED  BY <6>1, <7>1, <7>3
          <6> QED  BY <6>2, <6>3
        <5>2. PICK segment \in ToSet(ChildSegments(rec, c)) : Names(segment, c)
          BY <3>3, ChildSegmentsName
        <5>3. segment \in ToSet(Piece(rec, Primary, i))
          BY <2>1, <2>3, <3>1, <3>2, PieceHasOwn
        <5> QED  BY <5>1, <5>2, <5>3
      <4> QED  BY <4>1, <4>2
    <3>8. PICK segment \in ToSet(Expanded) : Names(segment, c)
      BY <3>6, <3>7
    <3>9. DOMAIN Expanded = 1..Len(Expanded)
      BY <3>5
    <3> QED  BY <3>8, <3>9 DEF ToSet
  <2>4. ASSUME NEW b \in (UNION {ToSet(rec[Primary][i].children) : i \in 1..Len(rec[Primary])})
                            \cup {Primary}
        PROVE  \E j \in 1..Len(Expanded) : Names(Expanded[j], b)
    <3>1. CASE b = Primary
      BY <2>2, <3>1
    <3>2. CASE b # Primary
      <4> DEFINE Child(i) == ToSet(rec[Primary][i].children)
      <4>1. PICK i \in 1..Len(rec[Primary]) : b \in Child(i)
        <5>1. b \in UNION {Child(i) : i \in 1..Len(rec[Primary])}
          BY <3>2
        <5> HIDE DEF Child
        <5> QED  BY <5>1
      <4> QED  BY <2>3, <4>1
    <3> QED  BY <3>1, <3>2
  <2> QED  BY <2>2, <2>4 DEF ParentOutlivesChildren
<1> QED  BY <1>1, RecordedInvariant, PTL

(* A render pass whose draws are inline is never split: one segment holds  *)
(* its beginning and its end (segment_operations).                         *)
THEOREM InlinePassWhole == Spec => []InlinePassIsWhole
<1>1. RecorderInv => InlinePassIsWhole
  <2> SUFFICES ASSUME RecorderInv, Submittable, NEW i \in 1..Len(rec[Primary]),
                      rec[Primary][i].kind = "begin", ~NamesChildren(rec[Primary], i)
               PROVE  \E segment \in ToSet(Expanded) :
                          /\ Holds(segment, Primary, i)
                          /\ Holds(segment, Primary, PassEnd(rec[Primary], i))
    BY DEF InlinePassIsWhole
  <2> DEFINE end == PassEnd(rec[Primary], i)  n == Len(rec[Primary])
  <2>1. Primary \in Buffers /\ rec[Primary] \in Seq(Operations) /\ n \in Nat
    BY RecordingIs
  <2>2. /\ end \in i + 1..n /\ rec[Primary][end].kind = "end"
        /\ \A k \in i + 1..end : rec[Primary][k].kind \in DrawKinds \cup {"execute", "end"}
    BY PassIs
  <2>3. \A k \in i..end : rec[Primary][k].kind \notin BoundaryKinds
    <3>1. \A k \in i..end : rec[Primary][k].kind # "execute"
      BY <2>1, <2>2 DEF NamesChildren
    <3>2. \A k \in i..end : k = i \/ k \in i + 1..end
      BY <2>1, <2>2
    <3>3. \A k \in DrawKinds \cup {"begin", "end"} : k \notin BoundaryKinds
      BY DEF DrawKinds, BoundaryKinds, FrontendKinds, EventKinds
    <3> QED  BY <2>2, <3>1, <3>2, <3>3
  <2> HIDE DEF end
  <2>4. ASSUME NEW segment, NEW first \in 1..n, NEW count \in Nat,
               segment.parts = <<Part(Primary, first, count)>>,
               first <= i, end < first + count
        PROVE  Holds(segment, Primary, i) /\ Holds(segment, Primary, end)
    <3>1. Len(segment.parts) = 1 /\ segment.parts[1] = Part(Primary, first, count) /\ 1 \in 1..1
      BY <2>4
    <3>2. i < first + count /\ first <= end
      BY <2>1, <2>2, <2>4
    <3> QED  BY <2>4, <3>1, <3>2 DEF Holds, Part
  <2>5. CASE ~Special(rec, <<Primary>>)
    <3> DEFINE segment == Segment(<<Part(Primary, 1, n)>>, FALSE, FALSE)
    <3>1. Expanded = <<segment>>
      BY <2>5, ExpandOther DEF Expanded
    <3>2. segment.parts = <<Part(Primary, 1, n)>>
      BY DEF Segment
    <3> HIDE DEF segment
    <3>3. 1 \in 1..n /\ 1 <= i /\ end < 1 + n
      BY <2>1, <2>2
    <3>4. Holds(segment, Primary, i) /\ Holds(segment, Primary, end)
      BY <2>1, <2>4, <3>2, <3>3
    <3>5. ToSet(<<segment>>) = {segment}
      BY DEF ToSet
    <3> QED  BY <3>1, <3>4, <3>5 DEF end
  <2>6. CASE Special(rec, <<Primary>>)
    <3>1. \A k \in 1..Len(rec[Primary]) : \E j \in 1..Len(rec[Primary]) :
              /\ j <= k /\ k < After(rec[Primary], j)
              /\ \A segment \in ToSet(Piece(rec, Primary, j)) : segment \in ToSet(Expanded)
      BY <2>6, ExpandedHas
    <3>2. PICK j \in 1..n :
              /\ j <= i /\ i < After(rec[Primary], j)
              /\ \A segment \in ToSet(Piece(rec, Primary, j)) : segment \in ToSet(Expanded)
      BY <3>1
    <3> DEFINE next == After(rec[Primary], j)  segment == OwnSegment(rec, Primary, j)
    <3>3. next \in j + 1..n + 1
      BY <2>1, AfterIs
    <3>4. ~NamesChildren(rec[Primary], j)
      <4> SUFFICES ASSUME NamesChildren(rec[Primary], j) PROVE FALSE
        OBVIOUS
      <4>1. rec[Primary][j].kind = "begin"
        BY DEF NamesChildren
      <4>2. /\ PassEnd(rec[Primary], j) \in j + 1..n
            /\ \A k \in j + 1..PassEnd(rec[Primary], j) :
                   rec[Primary][k].kind \in DrawKinds \cup {"execute", "end"}
        BY <4>1, PassIs
      <4>3. next = PassEnd(rec[Primary], j) + 1
        BY <2>1, AfterIs
      <4>4. i \in j + 1..PassEnd(rec[Primary], j)
        BY <2>1, <3>2, <4>2, <4>3
      <4>5. "begin" \notin DrawKinds \cup {"execute", "end"}
        BY DEF DrawKinds
      <4> QED  BY <4>2, <4>4, <4>5
    <3>5. rec[Primary][j].kind \notin BoundaryKinds
      <4> SUFFICES ASSUME rec[Primary][j].kind \in BoundaryKinds PROVE FALSE
        OBVIOUS
      <4>1. next = j + 1
        BY <2>1, <3>4, AfterIs
      <4>2. i = j
        BY <2>1, <3>2, <4>1
      <4> QED  BY <2>1, <2>2, <2>3, <4>2
    <3>6. end < next
      <4>1. next = FirstOf(rec[Primary], j + 1, BoundaryKinds)
        BY <2>1, <3>4, <3>5, AfterIs
      <4>2. j + 1 \in 1..n + 1
        BY <2>1
      <4>3. next <= n => rec[Primary][next].kind \in BoundaryKinds
        BY <2>1, <4>1, <4>2, FirstOfIs
      <4>4. next \notin i..end
        BY <2>1, <2>2, <2>3, <3>3, <4>3
      <4> QED  BY <2>1, <2>2, <3>2, <3>3, <4>4
    <3>7. segment.parts = <<Part(Primary, j, next - j)>>
      BY <2>1, <3>4, OwnPieceIs
    <3> HIDE DEF next, segment
    <3>8. next - j \in Nat /\ j + (next - j) = next
      BY <2>1, <3>3
    <3>9. Holds(segment, Primary, i) /\ Holds(segment, Primary, end)
      BY <2>4, <3>2, <3>6, <3>7, <3>8
    <3>10. segment \in ToSet(Expanded)
      BY <2>1, <3>2, PieceHasOwn DEF segment
    <3> QED  BY <3>9, <3>10 DEF end
  <2> QED  BY <2>5, <2>6
<1> QED  BY <1>1, RecordedInvariant, PTL

-----------------------------------------------------------------------------
(* The order of the recording.  Contribution(i) is what operation i stands *)
(* for; a piece of the walk executes the contributions of its operations.  *)

stepsOf == [segment \in SegmentRecords(Buffers) |-> Steps(segment)]
only(b) == [s \in Buffers \X Nat |-> IF s[1] = b THEN <<s>> ELSE <<>>]
whole   == [c \in Buffers |-> Run(c, 1, Len(rec[c]))]

Spliced(i)      == FlatMap(whole, rec[Primary][i].children)
Contribution(i) == Spliced(i) \o <<<<Primary, i>>>>
Contributions   == [i \in 1..Len(rec[Primary]) |-> Contribution(i)]

LEMMA StepsOfIs ==
    ASSUME NEW segs \in Seq(SegmentRecords(Buffers))
    PROVE  /\ Maps(stepsOf, SegmentRecords(Buffers), Buffers \X Nat)
           /\ StepsOf(segs) = FlatMap(stepsOf, segs)
           /\ StepsOf(segs) \in Seq(Buffers \X Nat)
<1>1. \A seg \in SegmentRecords(Buffers) : Steps(seg) \in Seq(Buffers \X Nat)
  BY StepsAre
<1>2. Maps(stepsOf, SegmentRecords(Buffers), Buffers \X Nat)
  BY <1>1 DEF Maps, stepsOf
<1>3. \A n \in 1..Len(segs) : stepsOf[segs[n]] = Steps(segs[n])
  <2>1. \A n \in 1..Len(segs) : segs[n] \in SegmentRecords(Buffers)
    BY ElementOfSeq
  <2> QED  BY <2>1 DEF stepsOf
<1>4. [n \in 1..Len(segs) |-> stepsOf[segs[n]]] = [n \in 1..Len(segs) |-> Steps(segs[n])]
  BY <1>3
<1>5. StepsOf(segs) = FlatMap(stepsOf, segs)
  BY <1>4 DEF StepsOf, FlatMap
<1> QED  BY <1>2, <1>5, FlatMapType

LEMMA OnlyIs ==
    ASSUME NEW b, NEW steps \in Seq(Buffers \X Nat)
    PROVE  /\ Maps(only(b), Buffers \X Nat, Buffers \X Nat)
           /\ Only(steps, b) = FlatMap(only(b), steps)
           /\ Only(steps, b) \in Seq(Buffers \X Nat)
<1>1. ASSUME NEW s \in Buffers \X Nat
      PROVE  (IF s[1] = b THEN <<s>> ELSE <<>>) \in Seq(Buffers \X Nat)
  <2>1. <<s>> \in Seq(Buffers \X Nat) /\ <<>> \in Seq(Buffers \X Nat)
    BY EmptySeq
  <2> QED  BY <2>1
<1>2. Maps(only(b), Buffers \X Nat, Buffers \X Nat)
  BY <1>1 DEF Maps, only
<1>3. \A n \in 1..Len(steps) :
          only(b)[steps[n]] = IF steps[n][1] = b THEN <<steps[n]>> ELSE <<>>
  <2>1. \A n \in 1..Len(steps) : steps[n] \in Buffers \X Nat
    BY ElementOfSeq
  <2> QED  BY <2>1 DEF only
<1>4. [n \in 1..Len(steps) |-> only(b)[steps[n]]] =
          [n \in 1..Len(steps) |-> IF steps[n][1] = b THEN <<steps[n]>> ELSE <<>>]
  BY <1>3
<1>5. Only(steps, b) = FlatMap(only(b), steps)
  BY <1>4 DEF Only, FlatMap
<1> QED  BY <1>2, <1>5, FlatMapType

LEMMA OnlyConcat ==
    ASSUME NEW b, NEW s \in Seq(Buffers \X Nat), NEW t \in Seq(Buffers \X Nat)
    PROVE  Only(s \o t, b) = Only(s, b) \o Only(t, b)
<1>1. PICK st \in Seq(Buffers \X Nat) : st = s \o t
  BY ConcatProperties
<1>2. /\ Maps(only(b), Buffers \X Nat, Buffers \X Nat)
      /\ Only(st, b) = FlatMap(only(b), st)
      /\ Only(s, b) = FlatMap(only(b), s) /\ Only(t, b) = FlatMap(only(b), t)
  BY OnlyIs
<1>3. FlatMap(only(b), s \o t) = FlatMap(only(b), s) \o FlatMap(only(b), t)
  <2>1. PICK A : A = Buffers \X Nat
    OBVIOUS
  <2>2. Maps(only(b), A, A) /\ s \in Seq(A) /\ t \in Seq(A)
    BY <1>2, <2>1
  <2> QED  BY ONLY <2>2, FlatMapConcat
<1> QED  BY <1>1, <1>2, <1>3

LEMMA OnlyFlatten ==
    ASSUME NEW b, NEW ss \in Seq(Seq(Buffers \X Nat))
    PROVE  /\ [n \in 1..Len(ss) |-> Only(ss[n], b)] \in Seq(Seq(Buffers \X Nat))
           /\ Only(FlattenSeq(ss), b) = FlattenSeq([n \in 1..Len(ss) |-> Only(ss[n], b)])
<1>0. PICK list : list = [n \in 1..Len(ss) |-> Only(ss[n], b)]
  OBVIOUS
<1>1. PICK all \in Seq(Buffers \X Nat) : all = FlattenSeq(ss)
  BY FlattenType
<1>2. Maps(only(b), Buffers \X Nat, Buffers \X Nat) /\ Only(all, b) = FlatMap(only(b), all)
  BY OnlyIs
<1>3. \A n \in 1..Len(ss) : Only(ss[n], b) = FlatMap(only(b), ss[n])
  <2>1. \A n \in 1..Len(ss) : ss[n] \in Seq(Buffers \X Nat)
    BY ElementOfSeq
  <2> QED  BY <2>1, OnlyIs
<1>4. list = [n \in 1..Len(ss) |-> FlatMap(only(b), ss[n])]
  BY <1>0, <1>3
<1>5. list \in Seq(Seq(Buffers \X Nat)) /\ FlatMap(only(b), FlattenSeq(ss)) = FlattenSeq(list)
  BY <1>2, <1>4, FlatMapFlatten
<1> QED  BY <1>0, <1>1, <1>2, <1>5

(* All of the steps are of b, or none is. *)
LEMMA OnlyAll ==
    ASSUME NEW b, NEW steps \in Seq(Buffers \X Nat),
           \A n \in 1..Len(steps) : steps[n][1] = b
    PROVE  Only(steps, b) = steps
<1>1. [n \in 1..Len(steps) |-> IF steps[n][1] = b THEN <<steps[n]>> ELSE <<>>] =
          [n \in 1..Len(steps) |-> <<steps[n]>>]
  OBVIOUS
<1>2. FlattenSeq([n \in 1..Len(steps) |-> <<steps[n]>>]) = steps
  <2>1. PICK list : list = [n \in 1..Len(steps) |-> <<steps[n]>>]
    OBVIOUS
  <2> QED  BY <2>1, FlattenSingles
<1> QED  BY <1>1, <1>2 DEF Only

LEMMA OnlyNone ==
    ASSUME NEW b, NEW steps \in Seq(Buffers \X Nat),
           \A n \in 1..Len(steps) : steps[n][1] # b
    PROVE  Only(steps, b) = <<>>
<1>1. PICK list : list = [n \in 1..Len(steps) |->
                              IF steps[n][1] = b THEN <<steps[n]>> ELSE <<>>]
  OBVIOUS
<1>2. \A n \in 1..Len(steps) : list[n] = <<>>
  BY <1>1
<1>3. list \in Seq(Seq(Buffers \X Nat)) /\ Len(list) = Len(steps)
  <2>1. \A n \in 1..Len(steps) : list[n] \in Seq(Buffers \X Nat)
    BY <1>2, EmptySeq
  <2>2. list = [n \in 1..Len(steps) |-> list[n]] /\ Len(steps) \in Nat
    BY <1>1
  <2> QED  BY ONLY <2>1, <2>2, MadeSeq
<1>4. FlattenSeq(list) = <<>>
  BY <1>2, <1>3, FlattenEmpties
<1> QED  BY <1>1, <1>4 DEF Only

LEMMA WholeIs ==
    ASSUME RecorderInv
    PROVE  /\ Maps(whole, Buffers, Buffers \X Nat)
           /\ \A c \in Buffers : /\ whole[c] = Run(c, 1, Len(rec[c]))
                                 /\ whole[c] \in Seq(Buffers \X Nat)
                                 /\ \A n \in 1..Len(whole[c]) : whole[c][n][1] = c
<1>1. ASSUME NEW c \in Buffers
      PROVE  /\ Run(c, 1, Len(rec[c])) \in Seq(Buffers \X Nat)
             /\ \A n \in 1..Len(Run(c, 1, Len(rec[c]))) : Run(c, 1, Len(rec[c]))[n][1] = c
  <2>1. PICK count \in Nat : count = Len(rec[c])
    BY RecordingIs
  <2>2. /\ Run(c, 1, count) \in Seq(Buffers \X Nat) /\ Len(Run(c, 1, count)) = count
        /\ \A k \in 1..count : Run(c, 1, count)[k] = <<c, 1 + k - 1>>
    <3>1. PICK first \in Nat : first = 1
      OBVIOUS
    <3>2. /\ Run(c, first, count) \in Seq(Buffers \X Nat) /\ Len(Run(c, first, count)) = count
          /\ \A k \in 1..count : Run(c, first, count)[k] = <<c, first + k - 1>>
      BY RunOf
    <3> QED  BY <3>1, <3>2
  <2> QED  BY <2>1, <2>2
<1>2. \A c \in Buffers : whole[c] = Run(c, 1, Len(rec[c]))
  BY DEF whole
<1>3. whole \in [Buffers -> Seq(Buffers \X Nat)]
  BY <1>1 DEF whole
<1> QED  BY <1>1, <1>2, <1>3 DEF Maps

(* No child is b. *)
LEMMA OnlyChildren ==
    ASSUME RecorderInv, NEW b, NEW names \in Seq(Buffers),
           \A n \in 1..Len(names) : names[n] # b
    PROVE  Only(FlatMap(whole, names), b) = <<>>
<1>1. Maps(whole, Buffers, Buffers \X Nat)
  BY WholeIs
<1>2. PICK s \in Seq(Buffers \X Nat) : s = FlatMap(whole, names)
  BY <1>1, FlatMapType
<1>3. ASSUME NEW n \in 1..Len(s), s[n][1] = b PROVE FALSE
  <2>1. \A m \in 1..Len(names) : names[m] \in Buffers /\ names[m] # b
    BY ElementOfSeq
  <2>2. PICK list : list = [m \in 1..Len(names) |-> whole[names[m]]]
    OBVIOUS
  <2>3. /\ list \in Seq(Seq(Buffers \X Nat)) /\ Len(list) = Len(names)
        /\ \A m \in 1..Len(names) : list[m] = whole[names[m]]
    BY <1>1, <2>2, ListOf
  <2>4. s = FlattenSeq(list)
    BY <1>2, <2>2 DEF FlatMap
  <2>5. s[n] \in ToSet(FlattenSeq(list))
    <3>1. DOMAIN s = 1..Len(s)
      OBVIOUS
    <3> QED  BY <2>4, <3>1 DEF ToSet
  <2>6. PICK m \in 1..Len(list) : s[n] \in ToSet(list[m])
    BY <2>3, <2>5, FlattenRange
  <2>7. PICK c \in Buffers : c = names[m] /\ c # b
    BY <2>1, <2>3
  <2>8. /\ whole[c] \in Seq(Buffers \X Nat)
        /\ \A k \in 1..Len(whole[c]) : whole[c][k][1] = c
    BY WholeIs
  <2>9. PICK w \in Seq(Buffers \X Nat) : w = whole[c]
    BY <2>8
  <2>10. s[n] \in ToSet(w)
    BY <2>3, <2>6, <2>7, <2>9
  <2>11. PICK k \in 1..Len(w) : s[n] = w[k]
    <3>1. DOMAIN w = 1..Len(w)
      OBVIOUS
    <3> QED  BY <2>10, <3>1 DEF ToSet
  <2> QED  BY <1>3, <2>7, <2>8, <2>9, <2>11
<1> QED  BY <1>2, <1>3, OnlyNone

LEMMA ContributionIs ==
    ASSUME RecorderInv, NEW i \in 1..Len(rec[Primary])
    PROVE  /\ rec[Primary][i].children \in Seq(Buffers)
           /\ \A n \in 1..Len(rec[Primary][i].children) : rec[Primary][i].children[n] # Primary
           /\ Spliced(i) \in Seq(Buffers \X Nat)
           /\ <<Primary, i>> \in Buffers \X Nat
           /\ Contribution(i) \in Seq(Buffers \X Nat)
           /\ rec[Primary][i].kind # "execute" =>
                  Spliced(i) = <<>> /\ Contribution(i) = <<<<Primary, i>>>>
<1>1. PICK op \in Operations : op = rec[Primary][i]
  BY RecordingIs, ElementOfSeq
<1>2. op.children \in Seq(Buffers)
  BY RecordingIs DEF OfBuffers
<1>3. \A n \in 1..Len(op.children) : op.children[n] # Primary
  <2>1. PICK names \in Seq({Plain, Continuation}) : names = op.children
    BY DEF Operations
  <2>2. \A n \in 1..Len(names) : names[n] \in {Plain, Continuation}
    BY ElementOfSeq
  <2> QED  BY <2>1, <2>2, BuffersDiffer
<1>4. PICK s \in Seq(Buffers \X Nat) : s = Spliced(i)
  <2>1. FlatMap(whole, op.children) \in Seq(Buffers \X Nat)
    BY <1>2, WholeIs, FlatMapType
  <2> QED  BY <1>1, <2>1 DEF Spliced
<1>5. <<Primary, i>> \in Buffers \X Nat
  <2>1. Primary \in Buffers /\ Len(rec[Primary]) \in Nat
    BY RecordingIs
  <2> QED  BY <2>1
<1>6. PICK t \in Seq(Buffers \X Nat) : t = <<<<Primary, i>>>>
  <2>1. PICK s1 \in Buffers \X Nat : s1 = <<Primary, i>>
    BY <1>5
  <2>2. <<s1>> \in Seq(Buffers \X Nat)
    OBVIOUS
  <2> QED  BY <2>1, <2>2
<1>7. s \o t \in Seq(Buffers \X Nat)
  BY ConcatProperties
<1>8. ASSUME op.kind # "execute" PROVE s = <<>> /\ s \o t = t
  <2>1. op.children = <<>>
    BY <1>1, <1>8 DEF RecorderInv, RecordedKinds
  <2>2. FlatMap(whole, <<>>) = <<>>
    BY FlattenEmpty DEF FlatMap
  <2>3. s = <<>>
    BY <1>1, <1>4, <2>1, <2>2 DEF Spliced
  <2> QED  BY <2>3, ConcatEmptySeq
<1> QED  BY <1>1, <1>2, <1>3, <1>4, <1>5, <1>6, <1>7, <1>8 DEF Contribution

LEMMA ContributionsAre ==
    ASSUME RecorderInv
    PROVE  /\ Contributions \in Seq(Seq(Buffers \X Nat))
           /\ Len(Contributions) = Len(rec[Primary])
           /\ \A i \in 1..Len(rec[Primary]) : Contributions[i] = Contribution(i)
           /\ FlattenSeq(Contributions) = RecordedOrder
           /\ RecordedOrder \in Seq(Buffers \X Nat)
<1>1. \A i \in 1..Len(rec[Primary]) : Contributions[i] = Contribution(i)
  BY DEF Contributions
<1>2. \A i \in 1..Len(rec[Primary]) : Contributions[i] \in Seq(Buffers \X Nat)
  BY <1>1, ContributionIs
<1>3. Contributions = [i \in 1..Len(rec[Primary]) |-> Contributions[i]]
      /\ Len(rec[Primary]) \in Nat
  BY RecordingIs DEF Contributions
<1>4. Contributions \in Seq(Seq(Buffers \X Nat)) /\ Len(Contributions) = Len(rec[Primary])
  BY ONLY <1>2, <1>3, MadeSeq
<1>5. ASSUME NEW i \in 1..Len(rec[Primary])
      PROVE  Contribution(i) =
                 FlattenSeq([n \in 1..Len(rec[Primary][i].children) |->
                     [k \in 1..Len(rec[rec[Primary][i].children[n]]) |->
                         <<rec[Primary][i].children[n], k>>]])
                 \o <<<<Primary, i>>>>
  <2>1. PICK names \in Seq(Buffers) : names = rec[Primary][i].children
    BY ContributionIs
  <2>2. ASSUME NEW n \in 1..Len(names)
        PROVE  whole[names[n]] = [k \in 1..Len(rec[names[n]]) |-> <<names[n], k>>]
    <3>1. PICK c \in Buffers : c = names[n]
      BY ElementOfSeq
    <3>2. whole[c] = [k \in 1..Len(rec[c]) |-> <<c, 1 + k - 1>>]
      BY WholeIs DEF Run
    <3>3. \A k \in 1..Len(rec[c]) : 1 + k - 1 = k
      <4>1. Len(rec[c]) \in Nat
        BY RecordingIs
      <4> QED  BY <4>1
    <3> QED  BY <3>1, <3>2, <3>3
  <2>3. [n \in 1..Len(names) |-> whole[names[n]]] =
            [n \in 1..Len(names) |-> [k \in 1..Len(rec[names[n]]) |-> <<names[n], k>>]]
    BY <2>2
  <2> QED  BY <2>1, <2>3 DEF Contribution, Spliced, FlatMap
<1>6. FlattenSeq(Contributions) = RecordedOrder
  <2>1. Contributions = [i \in 1..Len(rec[Primary]) |->
            FlattenSeq([n \in 1..Len(rec[Primary][i].children) |->
                     [k \in 1..Len(rec[rec[Primary][i].children[n]]) |->
                         <<rec[Primary][i].children[n], k>>]])
                 \o <<<<Primary, i>>>>]
    BY <1>5 DEF Contributions
  <2> QED  BY <2>1 DEF RecordedOrder
<1>7. RecordedOrder \in Seq(Buffers \X Nat)
  BY <1>4, <1>6, FlattenType
<1> QED  BY <1>1, <1>4, <1>6, <1>7

LEMMA RunSingles ==
    ASSUME NEW B, NEW b \in B, NEW first \in Nat, NEW count \in Nat, NEW list,
           list = [k \in 1..count |-> <<<<b, first + k - 1>>>>]
    PROVE  FlattenSeq(list) = Run(b, first, count)
<1>1. PICK run \in Seq(B \X Nat) :
          /\ run = Run(b, first, count) /\ Len(run) = count
          /\ \A k \in 1..count : run[k] = <<b, first + k - 1>>
  <2>1. /\ Run(b, first, count) \in Seq(B \X Nat) /\ Len(Run(b, first, count)) = count
        /\ \A k \in 1..count : Run(b, first, count)[k] = <<b, first + k - 1>>
    BY RunIs
  <2> QED  BY <2>1
<1>2. list = [k \in 1..Len(run) |-> <<run[k]>>]
  BY <1>1
<1> QED  BY <1>1, <1>2, FlattenSingles

(* Operations that name no children stand for themselves. *)
LEMMA PlainSlice ==
    ASSUME RecorderInv, NEW i \in 1..Len(rec[Primary]), NEW j \in i..Len(rec[Primary]) + 1,
           \A k \in i..j - 1 : rec[Primary][k].kind # "execute"
    PROVE  FlattenSeq(Slice(Contributions, i, j)) = Run(Primary, i, j - i)
<1>1. Primary \in Buffers /\ Len(rec[Primary]) \in Nat
  BY RecordingIs
<1>2. i \in Nat /\ j - i \in Nat
  BY <1>1
<1>3. \A k \in 1..j - i : /\ i + k - 1 \in i..j - 1 /\ i + k - 1 \in 1..Len(rec[Primary])
  BY <1>1
<1>4. \A k \in 1..j - i : Contributions[i + k - 1] = <<<<Primary, i + k - 1>>>>
  <2>1. ASSUME NEW k \in i..j - 1 PROVE Contributions[k] = <<<<Primary, k>>>>
    <3>1. k \in 1..Len(rec[Primary])
      BY <1>1
    <3> QED  BY <3>1, ContributionsAre, ContributionIs
  <2> QED  BY <1>3, <2>1
<1>5. Slice(Contributions, i, j) = [k \in 1..j - i |-> <<<<Primary, i + k - 1>>>>]
  BY <1>4 DEF Slice
<1> QED  BY <1>1, <1>2, <1>5, RunSingles

LEMMA StepsOfOne ==
    ASSUME NEW segment \in SegmentRecords(Buffers)
    PROVE  StepsOf(<<segment>>) = Steps(segment)
<1>1. <<segment>> \in Seq(SegmentRecords(Buffers))
  OBVIOUS
<1>2. /\ Maps(stepsOf, SegmentRecords(Buffers), Buffers \X Nat)
      /\ StepsOf(<<segment>>) = FlatMap(stepsOf, <<segment>>)
  BY <1>1, StepsOfIs
<1>3. FlatMap(stepsOf, <<segment>>) = stepsOf[segment]
  BY <1>2, FlatMapOne
<1> QED  BY <1>2, <1>3 DEF stepsOf

LEMMA StepsOfConcat ==
    ASSUME NEW s \in Seq(SegmentRecords(Buffers)), NEW t \in Seq(SegmentRecords(Buffers))
    PROVE  StepsOf(s \o t) = StepsOf(s) \o StepsOf(t)
<1>1. PICK A : A = SegmentRecords(Buffers)
  OBVIOUS
<1>2. PICK st \in Seq(A) : st = s \o t
  BY <1>1, ConcatProperties
<1>3. /\ Maps(stepsOf, A, Buffers \X Nat)
      /\ StepsOf(st) = FlatMap(stepsOf, st)
      /\ StepsOf(s) = FlatMap(stepsOf, s) /\ StepsOf(t) = FlatMap(stepsOf, t)
  BY <1>1, StepsOfIs
<1>4. s \in Seq(A) /\ t \in Seq(A)
  BY <1>1
<1>5. FlatMap(stepsOf, s \o t) = FlatMap(stepsOf, s) \o FlatMap(stepsOf, t)
  BY ONLY <1>3, <1>4, FlatMapConcat
<1> QED  BY <1>2, <1>3, <1>5

LEMMA StepsOfFlatten ==
    ASSUME NEW ss \in Seq(Seq(SegmentRecords(Buffers))), NEW list,
           list = [n \in 1..Len(ss) |-> StepsOf(ss[n])]
    PROVE  /\ list \in Seq(Seq(Buffers \X Nat))
           /\ StepsOf(FlattenSeq(ss)) = FlattenSeq(list)
<1>1. PICK all \in Seq(SegmentRecords(Buffers)) : all = FlattenSeq(ss)
  BY FlattenType
<1>2. /\ Maps(stepsOf, SegmentRecords(Buffers), Buffers \X Nat)
      /\ StepsOf(all) = FlatMap(stepsOf, all)
  BY StepsOfIs
<1>3. \A n \in 1..Len(ss) : StepsOf(ss[n]) = FlatMap(stepsOf, ss[n])
  <2>1. \A n \in 1..Len(ss) : ss[n] \in Seq(SegmentRecords(Buffers))
    BY ElementOfSeq
  <2> QED  BY <2>1, StepsOfIs
<1>4. list = [n \in 1..Len(ss) |-> FlatMap(stepsOf, ss[n])]
  BY <1>3
<1>5. list \in Seq(Seq(Buffers \X Nat)) /\ FlatMap(stepsOf, FlattenSeq(ss)) = FlattenSeq(list)
  BY <1>2, <1>4, FlatMapFlatten
<1> QED  BY <1>1, <1>2, <1>5

(* The segments of a child execute it from beginning to end. *)
LEMMA ChildSteps ==
    ASSUME RecorderInv, NEW c \in {Plain, Continuation}
    PROVE  StepsOf(ChildSegments(rec, c)) = whole[c]
<1>1. c \in Buffers /\ OfBuffers(Buffers, Operations, rec)
  BY RecordingIs DEF Buffers
<1>2. PICK ops \in Seq(Operations) : ops = rec[c]
  BY <1>1, RecordingIs
<1>3. whole[c] = Run(c, 1, Len(ops))
  BY <1>1, <1>2, WholeIs
<1>4. PICK first \in Nat : first = 1
  OBVIOUS
<1>5. CASE ops = <<>>
  <2>1. ChildSegments(rec, c) = <<EmptySegment(c)>>
    BY <1>2, <1>5 DEF ChildSegments
  <2>2. EmptySegment(c) \in SegmentRecords(Buffers)
    BY <1>1, EmptySegmentIs
  <2>3. EmptySegment(c).parts = <<Part(c, 1, 0)>>
    BY <1>1, EmptySegmentIs
  <2>4. Steps(EmptySegment(c)) = Run(c, 1, 0)
    BY <1>1, <2>3, StepsOfOnePart
  <2>5. Len(ops) = 0
    BY <1>5
  <2>6. StepsOf(<<EmptySegment(c)>>) = Steps(EmptySegment(c))
    BY <2>2, StepsOfOne
  <2> QED  BY <1>3, <2>1, <2>4, <2>5, <2>6
<1>6. CASE ops # <<>>
  <2> DEFINE N == Len(ops)
  <2>1. PICK starts : starts = Starts(ops)
    OBVIOUS
  <2>2. Walked(ops, 1, starts) /\ N \in Nat
    BY <2>1, StartsWalk
  <2>3. starts \in Seq(1..N) /\ Len(starts) \in Nat
    BY <2>2 DEF Walked
  <2>4. \A n \in 1..Len(starts) : starts[n] \in 1..N
    BY <2>3, ElementOfSeq
  <2>5. PICK list : list = [n \in 1..Len(starts) |-> OwnSegment(rec, c, starts[n])]
    OBVIOUS
  <2>6. ASSUME NEW i \in 1..N
        PROVE  /\ OwnSegment(rec, c, i) \in SegmentRecords(Buffers)
               /\ Steps(OwnSegment(rec, c, i)) = Run(c, i, After(ops, i) - i)
    <3>1. i \in 1..Len(rec[c]) /\ ~NamesChildren(rec[c], i)
      BY <1>2, ChildKinds
    <3> QED  BY <1>1, <1>2, <3>1, OwnPieceIs
  <2>7. list \in Seq(SegmentRecords(Buffers)) /\ Len(list) = Len(starts)
    <3>1. \A n \in 1..Len(starts) : list[n] \in SegmentRecords(Buffers)
      BY <2>4, <2>5, <2>6
    <3>2. list = [n \in 1..Len(starts) |-> list[n]]
      BY <2>5
    <3> QED  BY ONLY <2>3, <3>1, <3>2, MadeSeq
  <2>8. PICK Y : Y = [n \in 1..Len(list) |-> stepsOf[list[n]]]
    OBVIOUS
  <2>9. StepsOf(list) = FlattenSeq(Y)
    BY <2>7, <2>8, StepsOfIs DEF FlatMap
  <2>10. Y \in Seq(Seq(Buffers \X Nat)) /\ Len(Y) = Len(list)
    <3>1. Maps(stepsOf, SegmentRecords(Buffers), Buffers \X Nat)
      BY <2>7, StepsOfIs
    <3> QED  BY <2>7, <2>8, <3>1, ListOf
  <2>11. PICK run \in Seq(Buffers \X Nat) :
             /\ run = Run(c, first, N) /\ Len(run) = N
             /\ \A k \in 1..N : run[k] = <<c, first + k - 1>>
    <3>1. PICK count \in Nat : count = N
      BY <2>2
    <3>2. /\ Run(c, first, count) \in Seq(Buffers \X Nat) /\ Len(Run(c, first, count)) = count
          /\ \A k \in 1..count : Run(c, first, count)[k] = <<c, first + k - 1>>
      BY <1>1, RunOf
    <3> QED  BY <3>1, <3>2
  <2>12. PICK X : X = [k \in 1..Len(run) |-> <<run[k]>>]
    OBVIOUS
  <2>13. X \in Seq(Seq(Buffers \X Nat)) /\ FlattenSeq(X) = run
    BY <2>12, FlattenSingles
  <2>14. Len(X) = N /\ \A k \in 1..N : X[k] = <<<<c, k>>>>
    <3>1. \A k \in 1..N : first + k - 1 = k
      BY <1>4, <2>2
    <3> QED  BY <2>2, <2>11, <2>12, <3>1
  <2>15. ASSUME NEW i \in 1..N
         PROVE  FlattenSeq(Slice(X, i, After(ops, i))) = Run(c, i, After(ops, i) - i)
    <3>1. After(ops, i) \in i + 1..N + 1
      BY AfterIs
    <3>2. i \in Nat /\ After(ops, i) - i \in Nat
      BY <2>2, <3>1
    <3>3. \A k \in 1..After(ops, i) - i : i + k - 1 \in 1..N
      BY <2>2, <3>1
    <3>4. Slice(X, i, After(ops, i)) =
              [k \in 1..After(ops, i) - i |-> <<<<c, i + k - 1>>>>]
      BY <2>14, <3>3 DEF Slice
    <3> QED  BY <1>1, <3>2, <3>4, RunSingles
  <2>16. ASSUME NEW n \in 1..Len(Y)
         PROVE  Y[n] = FlattenSeq(Slice(X, starts[n], After(ops, starts[n])))
    <3>1. PICK i \in 1..N : i = starts[n]
      BY <2>4, <2>7, <2>10
    <3>2. list[n] = OwnSegment(rec, c, i)
      BY <2>5, <2>7, <2>10, <3>1
    <3>3. Y[n] = Steps(OwnSegment(rec, c, i))
      BY <2>6, <2>8, <2>10, <3>2 DEF stepsOf
    <3> QED  BY <2>6, <2>15, <3>1, <3>3
  <2>17. FlattenSeq(Y) = FlattenSeq(X)
    <3>1. PICK S : S = Buffers \X Nat
      OBVIOUS
    <3>2. /\ X \in Seq(Seq(S)) /\ Len(X) = Len(ops)
          /\ Y \in Seq(Seq(S)) /\ Len(Y) = Len(starts)
      BY <2>7, <2>10, <2>13, <2>14, <3>1
    <3>3. \A n \in 1..Len(Y) :
              Y[n] = FlattenSeq(Slice(X, starts[n], After(ops, starts[n])))
      BY <2>16
    <3>4. Regrouped(S, Operations, ops, X, Y)
      BY <2>1, <3>2, <3>3 DEF Regrouped
    <3> QED  BY <3>4, Regroup
  <2>18. ChildSegments(rec, c) = list
    BY <1>2, <1>6, <2>1, <2>5 DEF ChildSegments
  <2> QED  BY <1>3, <1>4, <2>9, <2>11, <2>13, <2>17, <2>18
<1> QED  BY <1>5, <1>6

(* A piece that is no render pass executes what its operations stand for.  *)
LEMMA PieceSteps ==
    ASSUME RecorderInv, NEW i \in 1..Len(rec[Primary]), ~NamesChildren(rec[Primary], i)
    PROVE  StepsOf(Piece(rec, Primary, i)) =
               FlattenSeq(Slice(Contributions, i, After(rec[Primary], i)))
<1>1. /\ OfBuffers(Buffers, Operations, rec) /\ Primary \in Buffers
      /\ rec[Primary] \in Seq(Operations) /\ Len(rec[Primary]) \in Nat
  BY RecordingIs
<1>2. PICK own \in SegmentRecords(Buffers) :
          /\ own = OwnSegment(rec, Primary, i)
          /\ Steps(own) = Run(Primary, i, After(rec[Primary], i) - i)
  <2>1. /\ OwnSegment(rec, Primary, i) \in SegmentRecords(Buffers)
        /\ Steps(OwnSegment(rec, Primary, i)) = Run(Primary, i, After(rec[Primary], i) - i)
    BY <1>1, OwnPieceIs
  <2> QED  BY <2>1
<1>3. After(rec[Primary], i) \in i + 1..Len(rec[Primary]) + 1
  BY <1>1, AfterIs
<1>4. PICK op \in Operations : op = rec[Primary][i]
  BY <1>1, ElementOfSeq
<1>5. CASE op.kind # "execute"
  <2>1. Piece(rec, Primary, i) = <<own>>
    BY <1>2, <1>4, <1>5 DEF Piece
  <2>2. \A k \in i..After(rec[Primary], i) - 1 : rec[Primary][k].kind # "execute"
    <3>1. CASE op.kind \in BoundaryKinds
      <4>1. After(rec[Primary], i) = i + 1
        BY <1>1, <1>4, <3>1, AfterIs
      <4>2. i..(i + 1) - 1 = {i}
        BY <1>1
      <4> QED  BY <1>4, <1>5, <4>1, <4>2
    <3>2. CASE op.kind \notin BoundaryKinds
      <4>1. \A k \in i..After(rec[Primary], i) - 1 : rec[Primary][k].kind \notin BoundaryKinds
        BY <1>1, <1>4, <3>2, AfterIs
      <4> QED  BY <4>1 DEF BoundaryKinds
    <3> QED  BY <3>1, <3>2
  <2>3. PICK j \in i..Len(rec[Primary]) + 1 : j = After(rec[Primary], i)
    BY <1>1, <1>3
  <2>4. FlattenSeq(Slice(Contributions, i, j)) = Run(Primary, i, j - i)
    BY <2>2, <2>3, PlainSlice
  <2> QED  BY <1>2, <2>1, <2>3, <2>4, StepsOfOne
<1>6. CASE op.kind = "execute"
  <2>1. op.children \in Seq(Buffers) /\ \A n \in 1..Len(op.children) : op.children[n] # Primary
    BY <1>4, ContributionIs
  <2>2. PICK names \in Seq(Buffers) : names = op.children
    BY <2>1
  <2>3. \A n \in 1..Len(names) : names[n] \in Buffers /\ names[n] \in {Plain, Continuation}
    <3>1. \A n \in 1..Len(names) : names[n] \in Buffers
      BY ElementOfSeq
    <3> QED  BY <2>1, <2>2, <3>1 DEF Buffers
  <2>4. PICK lists : lists = [n \in 1..Len(names) |-> ChildSegments(rec, names[n])]
    OBVIOUS
  <2>5. lists \in Seq(Seq(SegmentRecords(Buffers))) /\ Len(lists) = Len(names)
    <3>1. \A n \in 1..Len(names) : lists[n] \in Seq(SegmentRecords(Buffers))
      BY <1>1, <2>3, <2>4, ChildSegmentsAre
    <3>2. lists = [n \in 1..Len(names) |-> lists[n]] /\ Len(names) \in Nat
      BY <2>4
    <3> QED  BY ONLY <3>1, <3>2, MadeSeq
  <2>6. Piece(rec, Primary, i) = FlattenSeq(lists) \o <<own>>
    BY <1>2, <1>4, <1>6, <2>2, <2>4 DEF Piece, ChildrenThenParent
  <2>7. PICK children \in Seq(SegmentRecords(Buffers)) : children = FlattenSeq(lists)
    BY <2>5, FlattenType
  <2>8. PICK last \in Seq(SegmentRecords(Buffers)) : last = <<own>>
    <3>1. <<own>> \in Seq(SegmentRecords(Buffers))
      OBVIOUS
    <3> QED  BY <3>1
  <2>9. StepsOf(children \o last) = StepsOf(children) \o StepsOf(last)
    BY StepsOfConcat
  <2>10. StepsOf(last) = <<<<Primary, i>>>>
    <3>1. op.kind \in BoundaryKinds
      BY <1>6 DEF BoundaryKinds
    <3>2. After(rec[Primary], i) = i + 1
      BY <1>1, <1>4, <3>1, AfterIs
    <3>3. (i + 1) - i = 1 /\ 1..1 = {1} /\ i + 1 - 1 = i
      BY <1>1
    <3>4. Run(Primary, i, 1) = <<<<Primary, i>>>>
      BY <3>3 DEF Run
    <3> QED  BY <1>2, <2>8, <3>2, <3>3, <3>4, StepsOfOne
  <2>11. StepsOf(children) = Spliced(i)
    <3>1. PICK Y : Y = [n \in 1..Len(lists) |-> StepsOf(lists[n])]
      OBVIOUS
    <3>2. StepsOf(FlattenSeq(lists)) = FlattenSeq(Y)
      BY <2>5, <3>1, StepsOfFlatten
    <3>3. \A n \in 1..Len(names) : StepsOf(lists[n]) = whole[names[n]]
      BY <2>3, <2>4, ChildSteps
    <3>4. Y = [n \in 1..Len(names) |-> whole[names[n]]]
      BY <2>5, <3>1, <3>3
    <3> QED  BY <1>4, <2>2, <2>7, <3>2, <3>4 DEF Spliced, FlatMap
  <2>12. StepsOf(Piece(rec, Primary, i)) = Contribution(i)
    BY <2>6, <2>7, <2>8, <2>9, <2>10, <2>11 DEF Contribution
  <2>13. FlattenSeq(Slice(Contributions, i, After(rec[Primary], i))) = Contribution(i)
    <3>1. op.kind \in BoundaryKinds
      BY <1>6 DEF BoundaryKinds
    <3>2. After(rec[Primary], i) = i + 1
      BY <1>1, <1>4, <3>1, AfterIs
    <3>3. (i + 1) - i = 1 /\ 1..1 = {1} /\ i + 1 - 1 = i
      BY <1>1
    <3>4. PICK x \in Seq(Buffers \X Nat) : x = Contribution(i)
      BY ContributionIs
    <3>5. Contributions[i] = x
      BY <3>4, ContributionsAre
    <3>6. Slice(Contributions, i, i + 1) = <<x>>
      BY <3>3, <3>5 DEF Slice
    <3> QED  BY <3>2, <3>4, <3>6, FlattenOne
  <2> QED  BY <2>12, <2>13
<1> QED  BY <1>5, <1>6

(* The segments of the recording, when it is split. *)
LEMMA SplitSteps ==
    ASSUME RecorderInv, Special(rec, <<Primary>>), NEW starts, starts = Starts(rec[Primary]),
           NEW Y, Y = [n \in 1..Len(starts) |-> StepsOf(Piece(rec, Primary, starts[n]))]
    PROVE  /\ Y \in Seq(Seq(Buffers \X Nat)) /\ Len(Y) = Len(starts)
           /\ \A n \in 1..Len(starts) : starts[n] \in 1..Len(rec[Primary])
           /\ StepsOf(Expanded) = FlattenSeq(Y)
<1>1. /\ OfBuffers(Buffers, Operations, rec) /\ Primary \in Buffers
      /\ rec[Primary] \in Seq(Operations) /\ Len(rec[Primary]) \in Nat
  BY RecordingIs
<1>2. rec[Primary] # <<>> /\ Expanded = SegmentOperations(rec, Primary)
  BY ExpandedHas
<1>3. starts \in Seq(1..Len(rec[Primary])) /\ Len(starts) \in Nat
  BY <1>1, StartsWalk DEF Walked
<1>4. \A n \in 1..Len(starts) : starts[n] \in 1..Len(rec[Primary])
  BY <1>3, ElementOfSeq
<1>5. PICK pieces : pieces = [n \in 1..Len(starts) |-> Piece(rec, Primary, starts[n])]
  OBVIOUS
<1>6. pieces \in Seq(Seq(SegmentRecords(Buffers))) /\ Len(pieces) = Len(starts)
  <2>1. ASSUME NEW i \in 1..Len(rec[Primary])
        PROVE  Piece(rec, Primary, i) \in Seq(SegmentRecords(Buffers))
    BY <1>1, PieceIs
  <2>2. \A n \in 1..Len(starts) : pieces[n] \in Seq(SegmentRecords(Buffers))
    BY <1>4, <1>5, <2>1
  <2>3. pieces = [n \in 1..Len(starts) |-> pieces[n]]
    BY <1>5
  <2> QED  BY ONLY <1>3, <2>2, <2>3, MadeSeq
<1>7. Expanded = FlattenSeq(pieces)
  BY <1>2, <1>5 DEF SegmentOperations
<1>8. Y = [n \in 1..Len(pieces) |-> StepsOf(pieces[n])]
  BY <1>5, <1>6
<1>9. Y \in Seq(Seq(Buffers \X Nat)) /\ StepsOf(FlattenSeq(pieces)) = FlattenSeq(Y)
  BY <1>6, <1>8, StepsOfFlatten
<1>10. Len(Y) = Len(starts)
  BY <1>3
<1> QED  BY <1>4, <1>7, <1>9, <1>10

(* The segment of a recording that is not split. *)
LEMMA UnsplitSteps ==
    ASSUME RecorderInv, ~Special(rec, <<Primary>>)
    PROVE  /\ StepsOf(Expanded) = Run(Primary, 1, Len(rec[Primary]))
           /\ RecordedOrder = Run(Primary, 1, Len(rec[Primary]))
           /\ \A k \in 1..Len(rec[Primary]) : rec[Primary][k].kind # "execute"
<1>1. Primary \in Buffers /\ Len(rec[Primary]) \in Nat
  BY RecordingIs
<1>2. PICK segment : segment = Segment(<<Part(Primary, 1, Len(rec[Primary]))>>, FALSE, FALSE)
  OBVIOUS
<1>3. Expanded = <<segment>>
  BY <1>2, ExpandOther DEF Expanded
<1>4. segment \in SegmentRecords(Buffers) /\ segment.parts = <<Part(Primary, 1, Len(rec[Primary]))>>
  BY <1>2, UnsplitIs
<1>5. Steps(segment) = Run(Primary, 1, Len(rec[Primary]))
  BY <1>1, <1>4, StepsOfOnePart
<1>6. \A k \in 1..Len(rec[Primary]) : rec[Primary][k].kind # "execute"
  BY SpecialOne DEF BoundaryKinds
<1>7. RecordedOrder = Run(Primary, 1, Len(rec[Primary]))
  <2>1. CASE Len(rec[Primary]) = 0
    <3>1. Contributions = <<>> /\ Run(Primary, 1, Len(rec[Primary])) = <<>>
      BY <2>1 DEF Contributions, Run
    <3> QED  BY <3>1, ContributionsAre, FlattenEmpty
  <2>2. CASE Len(rec[Primary]) # 0
    <3>1. PICK i \in 1..Len(rec[Primary]) : i = 1
      BY <1>1, <2>2
    <3>2. PICK j \in i..Len(rec[Primary]) + 1 : j = Len(rec[Primary]) + 1
      BY <1>1
    <3>3. \A k \in i..j - 1 : rec[Primary][k].kind # "execute"
      BY <1>1, <1>6, <3>1, <3>2
    <3>4. FlattenSeq(Slice(Contributions, i, j)) = Run(Primary, i, j - i)
      BY <3>3, PlainSlice
    <3>5. j - i = Len(rec[Primary]) /\ j = Len(Contributions) + 1
      BY <1>1, <3>1, <3>2, ContributionsAre
    <3>6. Slice(Contributions, 1, Len(Contributions) + 1) = Contributions
      BY ContributionsAre, SliceWhole
    <3> QED  BY <3>1, <3>4, <3>5, <3>6, ContributionsAre
  <2> QED  BY <2>1, <2>2
<1> QED  BY <1>3, <1>4, <1>5, <1>6, <1>7, StepsOfOne

(* Without naming render passes, the queue executes operations in the      *)
(* order of the recording, children spliced in where they are named        *)
(* (expand_records).                                                       *)
THEOREM OrderKept == Spec => []RecordedOrderKept
<1>1. RecorderInv => RecordedOrderKept
  <2> SUFFICES ASSUME RecorderInv,
                      \A i \in 1..Len(rec[Primary]) : ~NamesChildren(rec[Primary], i)
               PROVE  StepsOf(Expanded) = RecordedOrder
    BY DEF RecordedOrderKept
  <2>1. CASE ~Special(rec, <<Primary>>)
    BY <2>1, UnsplitSteps
  <2>2. CASE Special(rec, <<Primary>>)
    <3>1. PICK S : S = Buffers \X Nat
      OBVIOUS
    <3>2. PICK ops \in Seq(Operations) : ops = rec[Primary]
      BY RecordingIs
    <3>3. PICK starts : starts = Starts(ops)
      OBVIOUS
    <3>4. PICK Y : Y = [n \in 1..Len(starts) |-> StepsOf(Piece(rec, Primary, starts[n]))]
      OBVIOUS
    <3>5. /\ Y \in Seq(Seq(S)) /\ Len(Y) = Len(starts)
          /\ \A n \in 1..Len(starts) : starts[n] \in 1..Len(ops)
          /\ StepsOf(Expanded) = FlattenSeq(Y)
      BY <2>2, <3>1, <3>2, <3>3, <3>4, SplitSteps
    <3>6. PICK X \in Seq(Seq(S)) : X = Contributions /\ Len(X) = Len(ops)
      BY <3>1, <3>2, ContributionsAre
    <3>7. \A n \in 1..Len(Y) : Y[n] = FlattenSeq(Slice(X, starts[n], After(ops, starts[n])))
      <4>1. ASSUME NEW i \in 1..Len(ops)
            PROVE  StepsOf(Piece(rec, Primary, i)) = FlattenSeq(Slice(X, i, After(ops, i)))
        BY <3>2, <3>6, PieceSteps
      <4> QED  BY <3>4, <3>5, <4>1
    <3>8. FlattenSeq(Y) = FlattenSeq(X)
      <4>1. Regrouped(S, Operations, ops, X, Y)
        BY <3>3, <3>5, <3>6, <3>7 DEF Regrouped
      <4> QED  BY <4>1, Regroup
    <3> QED  BY <3>5, <3>6, <3>8, ContributionsAre
  <2> QED  BY <2>1, <2>2
<1> QED  BY <1>1, RecordedInvariant, PTL

-----------------------------------------------------------------------------
(* The steps of one buffer.                                                *)

Shares(b) == [i \in 1..Len(rec[Primary]) |-> Only(Contribution(i), b)]

LEMMA SharesAre ==
    ASSUME RecorderInv, NEW b \in Buffers
    PROVE  /\ Shares(b) \in Seq(Seq(Buffers \X Nat)) /\ Len(Shares(b)) = Len(rec[Primary])
           /\ FlattenSeq(Shares(b)) = Only(RecordedOrder, b)
           /\ \A i \in 1..Len(rec[Primary]) :
                  Shares(b)[i] = IF b = Primary THEN <<<<Primary, i>>>>
                                 ELSE Only(Spliced(i), b)
<1>1. /\ Contributions \in Seq(Seq(Buffers \X Nat))
      /\ Len(Contributions) = Len(rec[Primary])
      /\ \A i \in 1..Len(rec[Primary]) : Contributions[i] = Contribution(i)
      /\ FlattenSeq(Contributions) = RecordedOrder
  BY ContributionsAre
<1>2. Shares(b) = [i \in 1..Len(Contributions) |-> Only(Contributions[i], b)]
  BY <1>1 DEF Shares
<1>3. PICK list : list = [i \in 1..Len(Contributions) |-> Only(Contributions[i], b)]
  OBVIOUS
<1>4. /\ list \in Seq(Seq(Buffers \X Nat))
      /\ Only(FlattenSeq(Contributions), b) = FlattenSeq(list)
  <2>1. PICK ss \in Seq(Seq(Buffers \X Nat)) : ss = Contributions
    BY <1>1
  <2>2. list = [i \in 1..Len(ss) |-> Only(ss[i], b)]
    BY <1>3, <2>1
  <2>3. /\ [n \in 1..Len(ss) |-> Only(ss[n], b)] \in Seq(Seq(Buffers \X Nat))
        /\ Only(FlattenSeq(ss), b) = FlattenSeq([n \in 1..Len(ss) |-> Only(ss[n], b)])
    BY OnlyFlatten
  <2> QED  BY <2>1, <2>2, <2>3
<1>5. Len(list) = Len(rec[Primary])
  <2>1. Len(rec[Primary]) \in Nat
    BY RecordingIs
  <2> QED  BY <1>1, <1>3, <2>1
<1>6. ASSUME NEW i \in 1..Len(rec[Primary])
      PROVE  Only(Contribution(i), b) = IF b = Primary THEN <<<<Primary, i>>>>
                                        ELSE Only(Spliced(i), b)
  <2>1. /\ Spliced(i) \in Seq(Buffers \X Nat) /\ <<Primary, i>> \in Buffers \X Nat
        /\ rec[Primary][i].children \in Seq(Buffers)
        /\ \A n \in 1..Len(rec[Primary][i].children) : rec[Primary][i].children[n] # Primary
    BY ContributionIs
  <2>2. PICK s \in Seq(Buffers \X Nat) : s = Spliced(i)
    BY <2>1
  <2>3. PICK last \in Seq(Buffers \X Nat) :
            /\ last = <<<<Primary, i>>>> /\ Len(last) = 1 /\ last[1] = <<Primary, i>>
    <3>1. PICK step \in Buffers \X Nat : step = <<Primary, i>>
      BY <2>1
    <3>2. <<step>> \in Seq(Buffers \X Nat) /\ Len(<<step>>) = 1 /\ <<step>>[1] = step
      OBVIOUS
    <3> QED  BY <3>1, <3>2
  <2>4. \A n \in 1..Len(last) : last[n][1] = Primary
    <3>1. \A n \in 1..Len(last) : n = 1
      BY <2>3
    <3> QED  BY <2>3, <3>1
  <2>5. Only(s \o last, b) = Only(s, b) \o Only(last, b)
    BY OnlyConcat
  <2>6. CASE b = Primary
    <3>1. Only(last, b) = last
      BY <2>4, <2>6, OnlyAll
    <3>2. Only(s, b) = <<>>
      <4>1. PICK names \in Seq(Buffers) : names = rec[Primary][i].children
        BY <2>1
      <4>2. s = FlatMap(whole, names) /\ \A n \in 1..Len(names) : names[n] # b
        BY <2>1, <2>2, <2>6, <4>1 DEF Spliced
      <4> QED  BY <4>2, OnlyChildren
    <3>3. <<>> \o last = last
      BY ConcatEmptySeq
    <3> QED  BY <2>2, <2>3, <2>5, <2>6, <3>1, <3>2, <3>3 DEF Contribution
  <2>7. CASE b # Primary
    <3>1. Only(last, b) = <<>>
      BY <2>4, <2>7, OnlyNone
    <3>2. PICK o \in Seq(Buffers \X Nat) : o = Only(s, b)
      BY OnlyIs
    <3>3. o \o <<>> = o
      BY ConcatEmptySeq
    <3> QED  BY <2>2, <2>3, <2>5, <2>7, <3>1, <3>2, <3>3 DEF Contribution
  <2> QED  BY <2>6, <2>7
<1> QED  BY <1>1, <1>2, <1>3, <1>4, <1>5, <1>6

(* A naming render pass: its own operations, then the children.            *)
LEMMA PassSteps ==
    ASSUME RecorderInv, NEW i \in 1..Len(rec[Primary]), NamesChildren(rec[Primary], i)
    PROVE  /\ PassEnd(rec[Primary], i) \in i + 1..Len(rec[Primary])
           /\ PassNames(rec[Primary], i) \in Seq(Buffers)
           /\ StepsOf(Piece(rec, Primary, i)) =
                  Run(Primary, i, PassEnd(rec[Primary], i) - i + 1)
                  \o FlatMap(whole, PassNames(rec[Primary], i))
<1>1. /\ OfBuffers(Buffers, Operations, rec) /\ Primary \in Buffers
      /\ Len(rec[Primary]) \in Nat
  BY RecordingIs
<1>2. PICK ops \in Seq(Operations) : ops = rec[Primary]
  BY RecordingIs
<1>3. PICK end \in i + 1..Len(ops) : end = PassEnd(ops, i)
  BY <1>2, AfterIs
<1>4. \A op \in Operations : op.children \in Seq(Buffers)
  BY <1>1 DEF OfBuffers
<1>5. PICK named \in Seq(Buffers) : named = PassNames(ops, i)
  <2>1. i \in 1..Len(ops) /\ PassEnd(ops, i) <= Len(ops)
    BY <1>1, <1>2, <1>3
  <2>2. PassNames(ops, i) \in Seq(Buffers)
    BY <1>4, <2>1, PassNamesAre
  <2> QED  BY <2>2
<1>6. PICK segment \in SegmentRecords(Buffers) :
          /\ segment = OwnSegment(rec, Primary, i) /\ segment = PassSegment(rec, Primary, i)
  <2>1. /\ OwnSegment(rec, Primary, i) \in SegmentRecords(Buffers)
        /\ OwnSegment(rec, Primary, i) = PassSegment(rec, Primary, i)
    BY <1>1, OwnSegmentIs
  <2> QED  BY <2>1
<1>7. /\ Len(segment.parts) = 1 + Len(named)
      /\ segment.parts[1] = Part(Primary, i, end - i + 1)
      /\ \A n \in 1..Len(named) : segment.parts[1 + n] = Part(named[n], 1, Len(rec[named[n]]))
  <2>1. PassEnd(rec[Primary], i) <= Len(rec[Primary])
    BY <1>1, <1>2, <1>3
  <2>2. /\ Len(PassSegment(rec, Primary, i).parts) = 1 + Len(PassNames(rec[Primary], i))
        /\ PassSegment(rec, Primary, i).parts[1] =
               Part(Primary, i, PassEnd(rec[Primary], i) - i + 1)
        /\ \A n \in 1..Len(PassNames(rec[Primary], i)) :
               PassSegment(rec, Primary, i).parts[1 + n] =
                   Part(PassNames(rec[Primary], i)[n], 1,
                        Len(rec[PassNames(rec[Primary], i)[n]]))
    BY ONLY <1>1, <2>1, i \in 1..Len(rec[Primary]), PassSegmentIs
  <2> QED  BY <1>2, <1>3, <1>5, <1>6, <2>2
<1>8. Piece(rec, Primary, i) = <<segment>>
  <2>1. rec[Primary][i].kind = "begin"
    BY DEF NamesChildren
  <2> QED  BY <1>6, <2>1 DEF Piece
<1>9. StepsOf(Piece(rec, Primary, i)) = Steps(segment)
  BY <1>8, StepsOfOne
<1>10. PICK run \in Seq(Buffers \X Nat) : run = Run(Primary, i, end - i + 1)
  <2>1. PICK count \in Nat : count = end - i + 1
    BY <1>1, <1>2, <1>3
  <2>2. i \in Nat
    BY <1>1
  <2>3. Run(Primary, i, count) \in Seq(Buffers \X Nat)
    <3>1. Primary \in Buffers /\ count \in Nat
      BY <1>1
    <3> QED  BY <2>2, <3>1, RunOf
  <2> QED  BY <2>1, <2>3
<1>11. PICK list : list = [n \in 1..Len(named) |-> whole[named[n]]]
  OBVIOUS
<1>12. /\ list \in Seq(Seq(Buffers \X Nat)) /\ Len(list) = Len(named)
       /\ \A n \in 1..Len(named) : list[n] = whole[named[n]] /\ named[n] \in Buffers
  <2>1. Maps(whole, Buffers, Buffers \X Nat)
    BY WholeIs
  <2>2. named \in Seq(Buffers)
    OBVIOUS
  <2> QED  BY ONLY <1>11, <2>1, <2>2, ListOf
<1>13. PICK all : all = [p \in 1..Len(segment.parts) |->
                 Run(segment.parts[p].buffer, segment.parts[p].first, segment.parts[p].count)]
  OBVIOUS
<1>14. Steps(segment) = FlattenSeq(all)
  BY <1>13 DEF Steps, Run
<1>15. PICK head \in Seq(Seq(Buffers \X Nat)) : head = <<run>> /\ Len(head) = 1 /\ head[1] = run
  <2>1. <<run>> \in Seq(Seq(Buffers \X Nat)) /\ Len(<<run>>) = 1 /\ <<run>>[1] = run
    OBVIOUS
  <2> QED  BY <2>1
<1>16. PICK joined \in Seq(Seq(Buffers \X Nat)) :
           /\ joined = head \o list /\ Len(joined) = 1 + Len(named)
           /\ \A p \in 1..1 + Len(named) : joined[p] = IF p <= 1 THEN head[p] ELSE list[p - 1]
  <2>1. PICK l \in Seq(Seq(Buffers \X Nat)) : l = list
    BY <1>12
  <2>2. /\ head \o l \in Seq(Seq(Buffers \X Nat)) /\ Len(head \o l) = Len(head) + Len(l)
        /\ \A p \in 1..Len(head) + Len(l) :
               (head \o l)[p] = IF p <= Len(head) THEN head[p] ELSE l[p - Len(head)]
    BY ConcatProperties
  <2>3. Len(head) = 1 /\ Len(l) = Len(named) /\ l = list
    BY <1>12, <1>15, <2>1
  <2>4. \A p \in 1..1 + Len(named) :
            (head \o l)[p] = IF p <= 1 THEN head[p] ELSE list[p - 1]
    BY ONLY <2>2, <2>3
  <2>5. head \o l \in Seq(Seq(Buffers \X Nat)) /\ Len(head \o l) = 1 + Len(named)
    BY ONLY <2>2, <2>3
  <2> QED  BY ONLY <2>3, <2>4, <2>5
<1>17. ASSUME NEW p \in 1..1 + Len(named) PROVE all[p] = joined[p]
  <2>1. CASE p = 1
    <3>1. all[p] = Run(Primary, i, end - i + 1)
      BY <1>7, <1>13, <2>1 DEF Part
    <3>2. p <= 1
      BY <2>1
    <3> QED  BY <1>10, <1>15, <1>16, <2>1, <3>1, <3>2
  <2>2. CASE p # 1
    <3>1. p - 1 \in 1..Len(named) /\ 1 + (p - 1) = p /\ ~(p <= 1)
      BY <2>2
    <3>2. PICK c \in Buffers : c = named[p - 1]
      BY <1>12, <3>1
    <3>3. segment.parts[p] = Part(c, 1, Len(rec[c]))
      BY <1>7, <3>1, <3>2
    <3>4. all[p] = Run(c, 1, Len(rec[c]))
      <4>1. PICK part : part = segment.parts[p]
        OBVIOUS
      <4>2. part.buffer = c /\ part.first = 1 /\ part.count = Len(rec[c])
        BY <3>3, <4>1 DEF Part
      <4>3. all[p] = Run(part.buffer, part.first, part.count)
        BY <1>7, <1>13, <4>1
      <4> QED  BY <4>2, <4>3
    <3>5. joined[p] = whole[c]
      BY <1>12, <1>16, <3>1, <3>2
    <3> QED  BY <3>4, <3>5, WholeIs
  <2> QED  BY <2>1, <2>2
<1>18. all = joined
  <2>1. joined = [p \in 1..1 + Len(named) |-> joined[p]]
    <3>1. joined = [p \in 1..Len(joined) |-> joined[p]]
      OBVIOUS
    <3> QED  BY <1>16, <3>1
  <2>2. all = [p \in 1..1 + Len(named) |-> all[p]]
    BY <1>7, <1>13
  <2> QED  BY ONLY <1>17, <2>1, <2>2
<1>19. FlattenSeq(head \o list) = FlattenSeq(head) \o FlattenSeq(list)
  BY <1>12, FlattenConcat
<1>20. FlattenSeq(head) = run
  BY <1>15, FlattenOne
<1> QED  BY <1>2, <1>3, <1>5, <1>9, <1>10, <1>11, <1>14, <1>16, <1>18, <1>19, <1>20 DEF FlatMap

(* What a piece executes of buffer b is what its operations stand for.     *)
LEMMA PieceShare ==
    ASSUME RecorderInv, NEW b \in Buffers, NEW i \in 1..Len(rec[Primary])
    PROVE  Only(StepsOf(Piece(rec, Primary, i)), b) =
               FlattenSeq(Slice(Shares(b), i, After(rec[Primary], i)))
<1>1. /\ Primary \in Buffers /\ Len(rec[Primary]) \in Nat
      /\ \A op \in Operations : op.children \in Seq(Buffers)
  BY RecordingIs DEF OfBuffers
<1>2. PICK ops \in Seq(Operations) : ops = rec[Primary]
  BY RecordingIs
<1>3. PICK j \in i + 1..Len(ops) + 1 : j = After(ops, i)
  BY <1>2, AfterIs
<1>4. /\ i \in Nat /\ j - i \in Nat
      /\ \A k \in 1..j - i : i + k - 1 \in 1..Len(ops) /\ i + k - 1 \in i..j - 1
  BY <1>1, <1>2, <1>3
<1>5. CASE ~NamesChildren(ops, i)
  <2>1. PICK cs \in Seq(Seq(Buffers \X Nat)) :
            /\ cs = Slice(Contributions, i, j) /\ Len(cs) = j - i
            /\ \A k \in 1..j - i : cs[k] = Contribution(i + k - 1)
    <3>1. PICK X \in Seq(Seq(Buffers \X Nat)) :
              /\ X = Contributions /\ Len(X) = Len(ops)
              /\ \A k \in 1..Len(ops) : X[k] = Contribution(k)
      BY <1>2, ContributionsAre
    <3>2. i \in 1..Len(X) + 1 /\ j \in i..Len(X) + 1
      BY <1>1, <1>2, <1>3, <3>1
    <3>3. PICK T : T = Seq(Buffers \X Nat)
      OBVIOUS
    <3>4. PICK Z \in Seq(T) : Z = X
      BY <3>3
    <3>5. PICK from \in 1..Len(Z) + 1 : from = i
      BY <3>2, <3>4
    <3>6. PICK to \in from..Len(Z) + 1 : to = j
      BY <3>2, <3>4, <3>5
    <3>7. /\ Slice(Z, from, to) \in Seq(T) /\ Len(Slice(Z, from, to)) = to - from
          /\ \A k \in 1..to - from : Slice(Z, from, to)[k] = Z[from + k - 1]
      BY SliceIs
    <3>8. PICK cs \in Seq(Seq(Buffers \X Nat)) : cs = Slice(Z, from, to)
      BY <3>3, <3>7
    <3>9. cs = Slice(Contributions, i, j) /\ Len(cs) = j - i
      BY <3>1, <3>4, <3>5, <3>6, <3>7, <3>8
    <3>10. ASSUME NEW k \in 1..j - i PROVE cs[k] = Contribution(i + k - 1)
      <4>1. cs[k] = X[i + k - 1]
        BY <3>4, <3>5, <3>6, <3>7, <3>8
      <4>2. i + k - 1 \in 1..Len(ops)
        BY <1>4
      <4> QED  BY <3>1, <4>1, <4>2
    <3> QED  BY <3>9, <3>10
  <2>2. StepsOf(Piece(rec, Primary, i)) = FlattenSeq(cs)
    BY <1>2, <1>3, <1>5, <2>1, PieceSteps
  <2>3. Only(FlattenSeq(cs), b) = FlattenSeq([k \in 1..Len(cs) |-> Only(cs[k], b)])
    BY OnlyFlatten
  <2>4. \A k \in 1..j - i : Shares(b)[i + k - 1] = Only(cs[k], b)
    <3>1. \A m \in 1..Len(ops) : Shares(b)[m] = Only(Contribution(m), b)
      BY <1>2 DEF Shares
    <3> QED  BY <1>4, <2>1, <3>1
  <2>5. Slice(Shares(b), i, j) = [k \in 1..Len(cs) |-> Only(cs[k], b)]
    BY <2>1, <2>4 DEF Slice
  <2> QED  BY <1>2, <1>3, <2>2, <2>3, <2>5
<1>6. CASE NamesChildren(ops, i)
  <2>1. PICK end \in i + 1..Len(ops) : end = PassEnd(ops, i) /\ j = end + 1
    BY <1>2, <1>3, <1>6, AfterIs
  <2>2. PICK named \in Seq(Buffers) : named = PassNames(ops, i)
    BY <1>2, <1>6, PassSteps
  <2>3. end - i + 1 = j - i
    BY <1>1, <1>2, <2>1
  <2>4. PICK run \in Seq(Buffers \X Nat) :
            /\ run = Run(Primary, i, j - i) /\ Len(run) = j - i
            /\ \A k \in 1..j - i : run[k] = <<Primary, i + k - 1>>
    <3>1. PICK count \in Nat : count = j - i
      BY <1>4
    <3>2. /\ Run(Primary, i, count) \in Seq(Buffers \X Nat) /\ Len(Run(Primary, i, count)) = count
          /\ \A k \in 1..count : Run(Primary, i, count)[k] = <<Primary, i + k - 1>>
      <4>1. Primary \in Buffers /\ i \in Nat /\ count \in Nat
        BY <1>1, <1>4
      <4> QED  BY <4>1, RunOf
    <3> QED  BY <3>1, <3>2
  <2>5. PICK rest \in Seq(Buffers \X Nat) : rest = FlatMap(whole, named)
    <3>1. Maps(whole, Buffers, Buffers \X Nat)
      BY WholeIs
    <3>2. FlatMap(whole, named) \in Seq(Buffers \X Nat)
      BY <3>1, FlatMapType
    <3> QED  BY <3>2
  <2>6. StepsOf(Piece(rec, Primary, i)) = run \o rest
    <3>1. StepsOf(Piece(rec, Primary, i)) =
              Run(Primary, i, PassEnd(rec[Primary], i) - i + 1)
              \o FlatMap(whole, PassNames(rec[Primary], i))
      BY <1>2, <1>6, PassSteps
    <3> QED  BY <1>2, <2>1, <2>2, <2>3, <2>4, <2>5, <3>1
  <2>7. Only(run \o rest, b) = Only(run, b) \o Only(rest, b)
    BY OnlyConcat
  <2>8. \A k \in 1..j - i : Shares(b)[i + k - 1] =
            IF b = Primary THEN <<<<Primary, i + k - 1>>>> ELSE Only(Spliced(i + k - 1), b)
    BY <1>2, <1>4, SharesAre
  <2>9. ASSUME NEW n \in 1..Len(run) PROVE run[n][1] = Primary
    <3>1. run[n] = <<Primary, i + n - 1>>
      BY ONLY <2>4
    <3> QED  BY ONLY <3>1
  <2>10. CASE b = Primary
    <3>1. Only(run, b) = run
      BY <2>9, <2>10, OnlyAll
    <3>2. \A n \in 1..Len(named) : named[n] # Primary
      <4>1. ASSUME NEW n \in 1..Len(named), named[n] = Primary PROVE FALSE
        <5>1. named[n] \in ToSet(named)
          <6>1. DOMAIN named = 1..Len(named)
            OBVIOUS
          <6> QED  BY <6>1 DEF ToSet
        <5>2. i \in 1..Len(ops) /\ PassEnd(ops, i) <= Len(ops)
          BY <1>1, <1>2, <2>1
        <5>3. \A c : c \in ToSet(PassNames(ops, i)) <=>
                  \E k \in i..PassEnd(ops, i) : c \in ToSet(ops[k].children)
          BY <1>1, <5>2, PassNamesAre
        <5>4. PICK k \in i..end : named[n] \in ToSet(ops[k].children)
          BY <2>1, <2>2, <5>1, <5>3
        <5>5. k \in 1..Len(rec[Primary])
          BY <1>1, <1>2, <2>1
        <5>6. /\ ops[k].children \in Seq(Buffers)
              /\ \A m \in 1..Len(ops[k].children) : ops[k].children[m] # Primary
          BY <1>2, <5>5, ContributionIs
        <5>7. DOMAIN ops[k].children = 1..Len(ops[k].children)
          BY <5>6
        <5> QED  BY <4>1, <5>4, <5>6, <5>7 DEF ToSet
      <4> QED  BY <4>1
    <3>3. Only(rest, b) = <<>>
      BY <2>5, <2>10, <3>2, OnlyChildren
    <3>4. run \o <<>> = run
      BY ConcatEmptySeq
    <3>5. Slice(Shares(b), i, j) = [k \in 1..j - i |-> <<<<Primary, i + k - 1>>>>]
      BY <2>8, <2>10 DEF Slice
    <3>6. FlattenSeq(Slice(Shares(b), i, j)) = Run(Primary, i, j - i)
      BY <1>1, <1>4, <3>5, RunSingles
    <3> QED  BY <1>2, <1>3, <2>4, <2>6, <2>7, <3>1, <3>3, <3>4, <3>6
  <2>11. CASE b # Primary
    <3>1. Only(run, b) = <<>>
      BY <2>9, <2>11, OnlyNone
    <3>2. PICK lists : lists = [k \in 1..j - i |-> ops[i + k - 1].children]
      OBVIOUS
    <3>3. lists \in Seq(Seq(Buffers)) /\ Len(lists) = j - i
      <4>1. \A k \in 1..j - i : lists[k] \in Seq(Buffers)
        <5>1. \A m \in 1..Len(ops) : ops[m].children \in Seq(Buffers)
          BY <1>1, ElementOfSeq
        <5> QED  BY <1>4, <3>2, <5>1
      <4>2. lists = [k \in 1..j - i |-> lists[k]]
        BY <3>2
      <4> QED  BY ONLY <1>4, <4>1, <4>2, MadeSeq
    <3>4. named = FlattenSeq(lists)
      BY <2>1, <2>2, <2>3, <3>2 DEF PassNames
    <3>5. PICK parts : parts = [k \in 1..Len(lists) |-> FlatMap(whole, lists[k])]
      OBVIOUS
    <3>6. /\ parts \in Seq(Seq(Buffers \X Nat))
          /\ FlatMap(whole, FlattenSeq(lists)) = FlattenSeq(parts)
      <4>1. Maps(whole, Buffers, Buffers \X Nat)
        BY WholeIs
      <4> QED  BY <3>3, <3>5, <4>1, FlatMapFlatten
    <3>7. Len(parts) = j - i /\ \A k \in 1..j - i : parts[k] = Spliced(i + k - 1)
      BY <1>2, <1>4, <3>2, <3>3, <3>5 DEF Spliced
    <3>8. PICK ps \in Seq(Seq(Buffers \X Nat)) : ps = parts
      BY <3>6
    <3>9. Only(FlattenSeq(ps), b) = FlattenSeq([k \in 1..Len(ps) |-> Only(ps[k], b)])
      BY OnlyFlatten
    <3>10. Slice(Shares(b), i, j) = [k \in 1..Len(ps) |-> Only(ps[k], b)]
      BY <2>8, <2>11, <3>7, <3>8 DEF Slice
    <3>11. PICK o \in Seq(Buffers \X Nat) : o = Only(rest, b)
      BY OnlyIs
    <3>12. <<>> \o o = o
      BY ConcatEmptySeq
    <3> QED
      BY <1>2, <1>3, <2>5, <2>6, <2>7, <3>1, <3>4, <3>6, <3>8, <3>9, <3>10, <3>11, <3>12
  <2> QED  BY <2>10, <2>11
<1> QED  BY <1>5, <1>6

(* Segmentation neither drops, repeats nor reorders the operations of a    *)
(* buffer: the primary's are executed as recorded, those of a secondary    *)
(* once for each time it is named (expand_records).                        *)
THEOREM OperationsOnce == Spec => []EveryOperationOnce
<1>1. RecorderInv => EveryOperationOnce
  <2> SUFFICES ASSUME RecorderInv PROVE EveryOperationOnce
    OBVIOUS
  <2>1. Primary \in Buffers /\ Plain \in Buffers /\ Continuation \in Buffers
        /\ Len(rec[Primary]) \in Nat
    BY RecordingIs
  <2>2. ASSUME NEW b \in Buffers PROVE Only(StepsOf(Expanded), b) = Only(RecordedOrder, b)
    <3>1. CASE ~Special(rec, <<Primary>>)
      BY <3>1, UnsplitSteps
    <3>2. CASE Special(rec, <<Primary>>)
      <4>1. PICK S : S = Buffers \X Nat
        OBVIOUS
      <4>2. PICK ops \in Seq(Operations) : ops = rec[Primary]
        BY RecordingIs
      <4>3. PICK starts : starts = Starts(ops)
        OBVIOUS
      <4>4. PICK pieces : pieces = [n \in 1..Len(starts) |-> StepsOf(Piece(rec, Primary, starts[n]))]
        OBVIOUS
      <4>5. /\ pieces \in Seq(Seq(Buffers \X Nat)) /\ Len(pieces) = Len(starts)
            /\ \A n \in 1..Len(starts) : starts[n] \in 1..Len(ops)
            /\ StepsOf(Expanded) = FlattenSeq(pieces)
        BY <3>2, <4>2, <4>3, <4>4, SplitSteps
      <4>6. PICK ps \in Seq(Seq(Buffers \X Nat)) : ps = pieces
        BY <4>5
      <4>7. /\ [n \in 1..Len(ps) |-> Only(ps[n], b)] \in Seq(Seq(Buffers \X Nat))
            /\ Only(FlattenSeq(ps), b) = FlattenSeq([n \in 1..Len(ps) |-> Only(ps[n], b)])
        BY OnlyFlatten
      <4>8. PICK Y \in Seq(Seq(S)) : Y = [n \in 1..Len(ps) |-> Only(ps[n], b)]
        BY <4>1, <4>7
      <4>9. PICK X \in Seq(Seq(S)) : X = Shares(b) /\ Len(X) = Len(ops)
        BY <4>1, <4>2, SharesAre
      <4>10. Len(Y) = Len(starts)
        <5>1. Len(ps) \in Nat
          OBVIOUS
        <5> QED  BY <4>5, <4>6, <4>8, <5>1
      <4>11. \A n \in 1..Len(Y) : Y[n] = FlattenSeq(Slice(X, starts[n], After(ops, starts[n])))
        <5>1. ASSUME NEW i \in 1..Len(ops)
              PROVE  Only(StepsOf(Piece(rec, Primary, i)), b) =
                         FlattenSeq(Slice(X, i, After(ops, i)))
          BY <4>2, <4>9, PieceShare
        <5>2. \A n \in 1..Len(starts) :
                  Y[n] = Only(StepsOf(Piece(rec, Primary, starts[n])), b)
          BY <4>4, <4>5, <4>6, <4>8
        <5> QED  BY <4>5, <4>10, <5>1, <5>2
      <4>12. FlattenSeq(Y) = FlattenSeq(X)
        <5>1. Regrouped(S, Operations, ops, X, Y)
          BY <4>3, <4>9, <4>10, <4>11 DEF Regrouped
        <5> QED  BY <5>1, Regroup
      <4> QED  BY <4>5, <4>6, <4>7, <4>8, <4>9, <4>12, SharesAre
    <3> QED  BY <3>1, <3>2
  <2>3. Only(RecordedOrder, Primary) = [i \in 1..Len(rec[Primary]) |-> <<Primary, i>>]
    <3>1. PICK run \in Seq(Buffers \X Nat) :
              run = [i \in 1..Len(rec[Primary]) |-> <<Primary, i>>] /\ Len(run) = Len(rec[Primary])
      <4>1. PICK r : r = [i \in 1..Len(rec[Primary]) |-> <<Primary, i>>]
        OBVIOUS
      <4>2. \A i \in 1..Len(rec[Primary]) : r[i] \in Buffers \X Nat
        BY <2>1, <4>1
      <4>3. r = [i \in 1..Len(rec[Primary]) |-> r[i]]
        BY <4>1
      <4>4. r \in Seq(Buffers \X Nat) /\ Len(r) = Len(rec[Primary])
        <5>1. PICK n \in Nat : n = Len(rec[Primary])
          BY <2>1
        <5>2. PICK S : S = Buffers \X Nat
          OBVIOUS
        <5>3. r = [k \in 1..n |-> r[k]] /\ \A k \in 1..n : r[k] \in S
          BY <4>2, <4>3, <5>1, <5>2
        <5>4. r \in Seq(S) /\ Len(r) = n
          BY ONLY <5>3, MadeSeq
        <5> QED  BY <5>1, <5>2, <5>4
      <4> QED  BY <4>1, <4>4
    <3>2. PICK list : list = [n \in 1..Len(run) |-> <<run[n]>>]
      OBVIOUS
    <3>3. FlattenSeq(list) = run
      BY <3>2, FlattenSingles
    <3>4. Shares(Primary) = list
      <4>1. \A i \in 1..Len(rec[Primary]) : Shares(Primary)[i] = <<<<Primary, i>>>>
        BY <2>1, SharesAre
      <4>2. Shares(Primary) = [i \in 1..Len(rec[Primary]) |-> Shares(Primary)[i]]
        BY DEF Shares
      <4> QED  BY <3>1, <3>2, <4>1, <4>2
    <3> QED  BY <2>1, <3>1, <3>3, <3>4, SharesAre
  <2> QED  BY <2>1, <2>2, <2>3 DEF EveryOperationOnce
<1> QED  BY <1>1, RecordedInvariant, PTL
=============================================================================
