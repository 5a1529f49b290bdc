------------------------------ MODULE MCQueue ------------------------------
(***************************************************************************)
(* Instances of the queue for TLC: what the command buffers recorded, and  *)
(* the submissions each run draws from.  The segments of a submission are  *)
(* computed by module Segments from the recordings.                        *)
(***************************************************************************)
EXTENDS Queue, TLC

LOCAL INSTANCE Segments

CONSTANTS bsem, tsem, fence1, event1    \* two semaphores, a fence, an event

Op(kind)         == [kind |-> kind, children |-> <<>>, event |-> NoEvent]
EventOp(kind)    == [kind |-> kind, children |-> <<>>, event |-> event1]
ExecuteOp(child) == [kind |-> "execute", children |-> <<child>>, event |-> NoEvent]

(* The recordings, by buffer name. *)
Recorded ==
    [work     |-> <<Op("dispatch")>>,
     shared   |-> <<Op("barrier"), Op("dispatch")>>,
     copies   |-> <<Op("host"), Op("dispatch")>>,
     sets     |-> <<EventOp("set")>>,
     waits    |-> <<EventOp("wait"), Op("dispatch"), EventOp("reset")>>,
     indirect |-> <<Op("dispatchIndirect")>>,
     child    |-> <<EventOp("wait"), Op("dispatch")>>,
     parent   |-> <<ExecuteOp("child"), Op("dispatch")>>]

(* An operation of a frontend segment, as the queue sees it. *)
FrontendOp(segment) ==
    LET part == segment.parts[1]
        op   == Recorded[part.buffer][part.first]
    IN  IF ~segment.frontend \/ part.count = 0 \/ op.kind \notin FrontendKinds
        THEN [kind |-> "none", event |-> NoEvent]
        ELSE [kind |-> op.kind, event |-> op.event]

MCExpansion ==
    LET Lists == {<<>>} \cup {<<c>> : c \in Buffers} \cup
                 {<<c, d>> : c \in Buffers, d \in Buffers}
        Shape(segment) ==
            [frontend |-> segment.frontend,
             indirect |-> segment.indirect,
             buffers  |-> [p \in 1..Len(segment.parts) |->
                              segment.parts[p].buffer],
             op       |-> FrontendOp(segment)]
    IN  [list \in Lists |->
            LET segments == ExpandRecord(Recorded, list)
            IN  [k \in 1..Len(segments) |-> Shape(segments[k])]]

Named(c) == UNION {{Recorded[c][k].children[n] :
                       n \in 1..Len(Recorded[c][k].children)} :
                   k \in 1..Len(Recorded[c])}

MCSecondaries == [c \in Buffers |-> Named(c)]
MCEventRefs ==
    [c \in Buffers |-> {Recorded[c][k].event :
        k \in {n \in 1..Len(Recorded[c]) : Recorded[c][n].kind \in EventKinds}}]
MCEventWaitRefs ==
    [c \in Buffers |-> {Recorded[c][k].event :
        k \in {n \in 1..Len(Recorded[c]) : Recorded[c][n].kind = "wait"}}]
(* Threads are interchangeable; only safety is checked under symmetry. *)
ThreadSymmetry == Permutations(Threads)
-----------------------------------------------------------------------------
Info(waits, buffers, signals) ==
    [waits |-> waits, signals |-> signals, buffers |-> buffers]

Nothing == NoReferences
Ref(s, v) == [y \in {s} |-> v]

(* Semaphores: work released by the host, binary hand-over within and      *)
(* across calls, signals queued behind a blocked head.                     *)
SyncCalls ==
    { <<Info(Ref(tsem, 1), <<"work">>, Ref(bsem, 0))>>,
      <<Info(Ref(bsem, 0), <<"shared">>, Ref(tsem, 2))>>,
      <<Info(Nothing, <<"shared">>, Ref(bsem, 0)), Info(Ref(bsem, 0), <<>>, Ref(tsem, 3))>>,
      <<Info(Ref(tsem, 2), <<>>, Ref(tsem, 4) @@ Ref(bsem, 0))>> }

SyncSemaphoreWaits ==
    {[values |-> Ref(tsem, 2), any |-> TRUE, finite |-> TRUE]}
SyncFenceWaits == {[fences |-> {fence1}, any |-> FALSE, finite |-> TRUE]}

NoWaits == {}

(* Frontend work, events, secondaries and buffers used once or many times. *)
EventCalls ==
    { <<Info(Nothing, <<"waits">>, Nothing)>>,
      <<Info(Nothing, <<"sets", "parent">>, Nothing)>>,
      <<Info(Ref(tsem, 1), <<"copies">>, Ref(tsem, 2))>>,
      <<Info(Nothing, <<"indirect", "work">>, Nothing)>> }

(* Host copies and native work that may fail, behind and ahead of waits. *)
FaultCalls ==
    { <<Info(Ref(tsem, 1), <<"copies">>, Ref(tsem, 2))>>,
      <<Info(Nothing, <<"work">>, Ref(bsem, 0)), Info(Ref(bsem, 0), <<"shared">>, Nothing)>> }

(* Work that only the host can release, and work anyone can drive. *)
LiveCalls ==
    { <<Info(Ref(tsem, 1), <<"work">>, Ref(bsem, 0))>>,
      <<Info(Nothing, <<"shared">>, Nothing)>> }
LiveFenceWaits == {[fences |-> {fence1}, any |-> FALSE, finite |-> FALSE]}
=============================================================================
