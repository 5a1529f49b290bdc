------------------------------ MODULE Recorder ------------------------------
(***************************************************************************)
(* The recording of one primary command buffer, one vkCmd* call at a time, *)
(* under the scope rules the queue re-checks at submission                 *)
(* (src/vk_queue.c, command_valid).  It produces exactly the recordings    *)
(* expand_records may be given; the properties say what segmentation owes  *)
(* to every one of them.                                                   *)
(***************************************************************************)
EXTENDS Segments, FiniteSets

CONSTANTS
    Primary,         \* the command buffer being recorded
    Plain,           \* a secondary executed outside render passes
    Continuation,    \* a secondary that continues a render pass
    OutsideKinds,    \* kinds of operation recorded outside render passes
    MaxRecorded,     \* bound on the operations of the primary
    MaxChild         \* bound on the operations of each secondary

ASSUME RecorderAssumption ==
    /\ Cardinality({Primary, Plain, Continuation}) = 3
    /\ OutsideKinds \subseteq
           FrontendKinds \cup {"dispatch", "barrier", "dispatchIndirect"}
    /\ MaxRecorded \in 0..MaxOperations /\ MaxChild \in 0..MaxOperations

VARIABLES
    rec,    \* buffer -> its recorded operations
    scope   \* "outside", or the pass begun: "inline", "clear" or "secondary"

vars == <<rec, scope>>

Op(kind)          == [kind |-> kind, children |-> <<>>]
Execute(children) == [kind |-> "execute", children |-> children]

DrawKinds == {"draw", "drawIndirect"}

Recordings(kinds) ==
    UNION {[1..n -> {Op(k) : k \in kinds}] : n \in 0..MaxChild}

Init ==
    \E plain \in Recordings(OutsideKinds), continuation \in Recordings(DrawKinds) :
        /\ rec = [b \in {Primary, Plain, Continuation} |->
                     CASE b = Primary -> <<>>
                       [] b = Plain -> plain
                       [] b = Continuation -> continuation]
        /\ scope = "outside"

Record(op) ==
    /\ Len(rec[Primary]) < MaxRecorded
    /\ rec' = [rec EXCEPT ![Primary] = Append(@, op)]

RecordOutside ==
    /\ scope = "outside"
    /\ \E k \in OutsideKinds : Record(Op(k))
    /\ UNCHANGED scope

(* A pass is begun for inline draws or for secondary contents.  An inline  *)
(* one may have the narrow shape whose clear is work enough                *)
(* (ps5vk_dxvk_bgra8_clear_only_pass).                                     *)
BeginRenderPass ==
    /\ scope = "outside"
    /\ Record(Op("begin"))
    /\ scope' \in {"inline", "clear", "secondary"}

RecordDraw ==
    /\ scope \in {"inline", "clear"}
    /\ \E k \in DrawKinds : Record(Op(k))
    /\ UNCHANGED scope

(* Outside a pass only plain children, inside one only continuations, and  *)
(* only in a pass begun for secondary contents.  A call may name several.  *)
ExecuteCommands ==
    /\ scope \in {"outside", "secondary"}
    /\ LET child == IF scope = "outside" THEN Plain ELSE Continuation
       IN  \E n \in 1..2 : Record(Execute([k \in 1..n |-> child]))
    /\ UNCHANGED scope

(* pass_work: draws, and the operations of the children the pass names. *)
PassWork ==
    LET ops  == rec[Primary]
        from == CHOOSE i \in 1..Len(ops) :
                    /\ ops[i].kind = "begin"
                    /\ \A j \in i + 1..Len(ops) : ops[j].kind # "begin"
    IN  \E i \in from..Len(ops) :
            \/ ops[i].kind \in DrawKinds
            \/ ops[i].kind = "execute" /\ rec[ops[i].children[1]] # <<>>

EndRenderPass ==
    /\ scope # "outside"
    /\ PassWork \/ scope = "clear"
    /\ Record(Op("end"))
    /\ scope' = "outside"

Next ==
    \/ RecordOutside
    \/ BeginRenderPass
    \/ RecordDraw
    \/ ExecuteCommands
    \/ EndRenderPass

Spec == Init /\ [][Next]_vars
-----------------------------------------------------------------------------
(* What the queue is given once vkEndCommandBuffer accepts the recording. *)
Submittable == scope = "outside"

Expanded == ExpandRecord(rec, <<Primary>>)

Steps(segment) ==
    FlattenSeq([p \in 1..Len(segment.parts) |->
        [k \in 1..segment.parts[p].count |->
            <<segment.parts[p].buffer, segment.parts[p].first + k - 1>>]])

StepsOf(segments) ==
    FlattenSeq([j \in 1..Len(segments) |-> Steps(segments[j])])

Holds(segment, b, i) ==
    \E p \in 1..Len(segment.parts) :
        /\ segment.parts[p].buffer = b
        /\ segment.parts[p].first <= i
        /\ i < segment.parts[p].first + segment.parts[p].count

Names(segment, b) ==
    \E p \in 1..Len(segment.parts) : segment.parts[p].buffer = b

(* The order in which the recording says its operations execute: a naming  *)
(* operation stands for its children and then itself.                      *)
RecordedOrder ==
    FlattenSeq([i \in 1..Len(rec[Primary]) |->
        LET op == rec[Primary][i]
        IN  FlattenSeq([n \in 1..Len(op.children) |->
                [k \in 1..Len(rec[op.children[n]]) |-> <<op.children[n], k>>]])
            \o <<<<Primary, i>>>>])

(* The steps of buffer b among the given ones. *)
Only(steps, b) ==
    FlattenSeq([n \in 1..Len(steps) |->
        IF steps[n][1] = b THEN <<steps[n]>> ELSE <<>>])

(* Segmentation neither drops, repeats nor reorders an operation: the      *)
(* steps of the primary are its recording, and each child is executed once *)
(* per time it is named.  (segment_operations: "judging the child by its   *)
(* first operation would execute one half and silently drop the other".)   *)
EveryOperationOnce ==
    Submittable =>
        LET steps == StepsOf(Expanded)
        IN  /\ Only(steps, Primary) =
                   [i \in 1..Len(rec[Primary]) |-> <<Primary, i>>]
            /\ \A b \in {Plain, Continuation} :
                   Only(steps, b) = Only(RecordedOrder, b)

(* Outside naming render passes the queue executes operations in exactly   *)
(* the order of the recording, children spliced in where they are named.   *)
RecordedOrderKept ==
    (Submittable /\ ~ \E i \in 1..Len(rec[Primary]) : NamesChildren(rec[Primary], i))
        => StepsOf(Expanded) = RecordedOrder

(* start_submission re-executes a frontend segment from its first          *)
(* operation every time a blocked event wait is polled again, so a         *)
(* frontend segment must hold at most one operation; and no frontend       *)
(* operation may hide in a range handed to the native backend.             *)
FrontendStandsAlone ==
    Submittable => \A segment \in ToSet(Expanded) :
        LET steps == Steps(segment)
        IN  /\ segment.frontend => Len(steps) <= 1
            /\ \A s \in ToSet(steps) :
                   rec[s[1]][s[2]].kind \in FrontendKinds => segment.frontend

(* A native job is built from the memory its indirect operations read, so  *)
(* the segment of every indirect operation is one whose preparation waits  *)
(* for the queue head, whatever buffer recorded it.                        *)
IndirectIsDeferred ==
    Submittable => \A segment \in ToSet(Expanded) :
        \A s \in ToSet(Steps(segment)) :
            rec[s[1]][s[2]].kind \in IndirectKinds =>
                segment.indirect /\ ~segment.frontend

(* Pending ownership is taken per segment: every buffer the submission     *)
(* names is named by a segment, empty ones too, and the parent is named by *)
(* the last segment of its expansion, so it outlives all its children.     *)
ParentOutlivesChildren ==
    Submittable =>
        LET segments == Expanded
            named    == UNION {ToSet(rec[Primary][i].children) :
                                  i \in 1..Len(rec[Primary])}
        IN  /\ \A b \in named \cup {Primary} :
                   \E j \in 1..Len(segments) : Names(segments[j], b)
            /\ Names(segments[Len(segments)], Primary)

(* A render pass whose draws are inline reaches the backend in one piece,  *)
(* whatever precedes or follows it.                                        *)
InlinePassIsWhole ==
    Submittable =>
        LET segments == Expanded
            ops      == rec[Primary]
        IN  \A i \in 1..Len(ops) :
                (ops[i].kind = "begin" /\ ~NamesChildren(ops, i)) =>
                    \E segment \in ToSet(segments) :
                        /\ Holds(segment, Primary, i)
                        /\ Holds(segment, Primary, PassEnd(ops, i))

(* src/vk_queue.c:925: "A render pass whose work is named by secondaries   *)
(* is emitted whole, before the generic boundary rules get a chance to     *)
(* split it."                                                              *)
NamingPassIsWhole ==
    Submittable =>
        LET segments == Expanded
            ops      == rec[Primary]
        IN  \A i \in 1..Len(ops) :
                NamesChildren(ops, i) =>
                    \E segment \in ToSet(segments) :
                        /\ Holds(segment, Primary, i)
                        /\ Holds(segment, Primary, PassEnd(ops, i))
=============================================================================
