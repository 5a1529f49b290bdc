---------------------------- MODULE MCGraphicsJobs ----------------------------
(***************************************************************************)
(* Small recordings for GraphicsJobs.  Layouts are L1 and L2 for every     *)
(* image; a render pass takes its image from one to the other.             *)
(***************************************************************************)
EXTENDS GraphicsJobs

CONSTANTS colour, depth, L1, L2, occlusion

NoMoves == [i \in {} |-> [old |-> L1, new |-> L1]]
Host(moves, resets) ==
    [native |-> FALSE, mixed |-> FALSE, arenas |-> 1, gated |-> FALSE,
     moves |-> moves, begins |-> {}, resets |-> resets]
Native(arenas, moves, begins) ==
    [native |-> TRUE, mixed |-> FALSE, arenas |-> arenas, gated |-> FALSE,
     moves |-> moves, begins |-> begins, resets |-> {}]
Mixed == [Native(1, NoMoves, {}) EXCEPT !.mixed = TRUE]

(* pass: a query, reset on the host side of the queue, around a pass.      *)
(* long: a pass of two arenas.  shadow: a pass on the other image.         *)
(* upload: host work that leaves the colour image for a pass.              *)
(* again: a pass behind host work on the image.  wrong: a mixed segment.   *)
MCRecording ==
    [pass   |-> <<Host(NoMoves, {occlusion}),
                  Native(1, colour :> [old |-> L1, new |-> L2], {occlusion})>>,
     long   |-> <<Native(2, colour :> [old |-> Undefined, new |-> L2], {occlusion})>>,
     shadow |-> <<Native(1, depth :> [old |-> L1, new |-> L1], {})>>,
     again  |-> <<Host(colour :> [old |-> L2, new |-> L1], {}),
                  Native(1, colour :> [old |-> L1, new |-> L2], {})>>,
     wrong  |-> <<Host(NoMoves, {}), Mixed>>]

MCBuffers == DOMAIN MCRecording
MCCalls ==
    [buffers : {<<"pass">>, <<"long">>, <<"again">>}, gated : BOOLEAN] \cup
    [buffers : {<<"wrong">>, <<"long", "again">>, <<"shadow", "long">>}, gated : {FALSE}]

(* What module GraphicsJobsProofs assumes of the calls of SnapshotsStay.    *)
ASSUME CallsIndependent == \A call \in MCCalls : Independent(call)

(* Two passes on one image in one call.                                    *)
TwoBatches == [buffers : {<<"long", "tail">>}, gated : {FALSE}]
TwoRecordings ==
    ("tail" :> <<Native(1, colour :> [old |-> Undefined, new |-> L1], {})>>) @@ MCRecording
TwoBuffers == DOMAIN TwoRecordings
===============================================================================
