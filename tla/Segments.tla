------------------------------ MODULE Segments ------------------------------
(***************************************************************************)
(* How vkQueueSubmit turns the command buffers of one submission record    *)
(* into the ordered segments the queue executes (src/vk_queue.c,           *)
(* expand_records and segment_operations).                                 *)
(*                                                                         *)
(* A segment is either frontend work (one operation the host executes when *)
(* the segment reaches the queue head) or backend work (a range of         *)
(* operations one native job executes).  A segment keeps the identity of   *)
(* every command buffer it names, because pending ownership is per buffer. *)
(*                                                                         *)
(* The recorded operations are abstracted to what segmentation tells       *)
(* apart:                                                                  *)
(*   host              a frontend operation: buffer copy, query reset or   *)
(*                     copy, linear image transfer                         *)
(*   set, reset, wait  the event operations, frontend too                  *)
(*   dispatchIndirect  compute work that reads its parameters from memory  *)
(*   drawIndirect      graphics work that reads its parameters from memory *)
(*   begin, end        the brackets of a render pass                       *)
(*   execute           vkCmdExecuteCommands, naming secondary buffers      *)
(*   dispatch, draw, barrier                                               *)
(*                     the remaining backend work                          *)
(***************************************************************************)
EXTENDS Naturals, Sequences, SequencesExt

EventKinds    == {"set", "reset", "wait"}
FrontendKinds == EventKinds \cup {"host"}
IndirectKinds == {"dispatchIndirect", "drawIndirect"}

(* An operation that always gets a segment of its own. *)
BoundaryKinds == FrontendKinds \cup {"dispatchIndirect", "execute"}

(* PS5VK_MAX_OPERATIONS, the most operations one command buffer records. *)
MaxOperations == 64

(* A part of a segment: operations first .. first + count - 1 of a buffer. *)
Part(buffer, first, count) ==
    [buffer |-> buffer, first |-> first, count |-> count]

Segment(parts, frontend, indirect) ==
    [parts |-> parts, frontend |-> frontend, indirect |-> indirect]

(* Slip: only graphics work is taken to read its parameters late. *)
HasIndirectDraw(ops, i, j) == \E k \in i..j : ops[k].kind = "drawIndirect"

(* range_has_indirect, over operations i .. j of ops. *)
HasIndirect(ops, i, j) == \E k \in i..j : ops[k].kind \in IndirectKinds

(* Index of the first operation in i..Len(ops) whose kind is in kinds, or  *)
(* the index after the last one.                                           *)
FirstOf(ops, i, kinds) ==
    LET found == {k \in i..Len(ops) : ops[k].kind \in kinds}
    IN  IF found = {} THEN Len(ops) + 1
        ELSE CHOOSE k \in found : \A m \in found : k <= m

(* render_pass_end. *)
PassEnd(ops, i) == FirstOf(ops, i + 1, {"end"})

(* A closed render pass opened at i that names secondaries is kept whole. *)
NamesChildren(ops, i) ==
    /\ ops[i].kind = "begin"
    /\ PassEnd(ops, i) <= Len(ops)
    /\ \E k \in i..PassEnd(ops, i) : ops[k].kind = "execute"

(* Slip: a run of backend work only stops at vkCmdExecuteCommands. *)
AfterMixedRun(ops, i) ==
    IF NamesChildren(ops, i) THEN PassEnd(ops, i) + 1
    ELSE IF ops[i].kind \in BoundaryKinds THEN i + 1
    ELSE FirstOf(ops, i + 1, {"execute"})

(* Slip: a run steps over the operation that ended it. *)
AfterSkipping(ops, i) ==
    LET next == FirstOf(ops, i + 1, BoundaryKinds)
    IN  IF NamesChildren(ops, i) THEN PassEnd(ops, i) + 1
        ELSE IF ops[i].kind \in BoundaryKinds THEN i + 1
        ELSE IF next <= Len(ops) THEN next + 1 ELSE next

(* Slip: every operation gets a segment of its own. *)
AfterOne(ops, i) ==
    IF NamesChildren(ops, i) THEN PassEnd(ops, i) + 1 ELSE i + 1

(* Where the walk of segment_operations stands after the piece at i. *)
After(ops, i) ==
    IF NamesChildren(ops, i) THEN PassEnd(ops, i) + 1
    ELSE IF ops[i].kind \in BoundaryKinds THEN i + 1
    ELSE FirstOf(ops, i + 1, BoundaryKinds)

(* emit_render_pass_segment: the primary's range of the pass first, then   *)
(* every child the pass names, in recorded order, all in one segment.      *)
PassSegment(rec, b, i) ==
    LET ops   == rec[b]
        j     == PassEnd(ops, i)
        named == FlattenSeq([k \in 1..(j - i + 1) |-> ops[i + k - 1].children])
    IN  Segment(<<Part(b, i, j - i + 1)>> \o
                    [n \in 1..Len(named) |->
                        Part(named[n], 1, Len(rec[named[n]]))],
                FALSE,
                \/ HasIndirect(ops, i, j)
                \/ \E n \in 1..Len(named) :
                       HasIndirect(rec[named[n]], 1, Len(rec[named[n]])))

(* Where the pieces of the walk over ops begin, from operation 1 on. *)
Starts(ops) ==
    LET From[i \in 1..Len(ops) + 1] ==
            IF i > Len(ops) THEN <<>> ELSE <<i>> \o From[After(ops, i)]
    IN  From[1]

(* The segment buffer b itself contributes to the piece that begins at i.  *)
(* That of vkCmdExecuteCommands carries no work; it keeps b pinned.        *)
OwnSegment(rec, b, i) ==
    LET ops  == rec[b]
        next == After(ops, i)
    IN  IF NamesChildren(ops, i) THEN PassSegment(rec, b, i)
        ELSE Segment(<<Part(b, i, next - i)>>,
                     ops[i].kind \in FrontendKinds \cup {"execute"},
                     HasIndirect(ops, i, next - 1))

(* An empty buffer gets a segment too. *)
EmptySegment(b) == Segment(<<Part(b, 1, 0)>>, TRUE, FALSE)

(* segment_operations of a child, which cannot name children of its own. *)
ChildSegments(rec, c) ==
    LET starts == Starts(rec[c])
    IN  IF rec[c] = <<>> THEN <<EmptySegment(c)>>
        ELSE [n \in 1..Len(starts) |-> OwnSegment(rec, c, starts[n])]

(* Slips: the parent's own segment goes first, or is not emitted. *)
ParentThenChildren(children, parent) == <<parent>> \o children
ChildrenOnly(children, parent)       == children

(* The parent's segment comes after those of the children, in whose order  *)
(* segments retire.                                                        *)
ChildrenThenParent(children, parent) == children \o <<parent>>

(* The segments of the piece of buffer b that begins at i. *)
Piece(rec, b, i) ==
    LET op == rec[b][i]
    IN  IF op.kind = "execute"
        THEN ChildrenThenParent(
                 FlattenSeq([n \in 1..Len(op.children) |->
                                ChildSegments(rec, op.children[n])]),
                 OwnSegment(rec, b, i))
        ELSE <<OwnSegment(rec, b, i)>>

(* segment_operations *)
SegmentOperations(rec, b) ==
    LET starts == Starts(rec[b])
    IN  IF rec[b] = <<>> THEN <<EmptySegment(b)>>
        ELSE FlattenSeq([n \in 1..Len(starts) |-> Piece(rec, b, starts[n])])

(* contains_special: only a record with one of these is split at all. *)
Special(rec, buffers) ==
    \E n \in 1..Len(buffers) : \E k \in 1..Len(rec[buffers[n]]) :
        rec[buffers[n]][k].kind \in BoundaryKinds \cup IndirectKinds

(* expand_records, for the buffers of one record. *)
ExpandRecord(rec, buffers) ==
    IF Special(rec, buffers)
    THEN FlattenSeq([n \in 1..Len(buffers) |->
                        SegmentOperations(rec, buffers[n])])
    ELSE <<Segment([n \in 1..Len(buffers) |->
                       Part(buffers[n], 1, Len(rec[buffers[n]]))],
                   FALSE, FALSE)>>
=============================================================================
