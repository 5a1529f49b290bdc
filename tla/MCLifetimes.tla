---------------------------- MODULE MCLifetimes -----------------------------
(* A small instance of Lifetimes. *)
EXTENDS Lifetimes, TLC

CONSTANTS m1, b1, i1, v1, t1, f1, x1, s1, p1, c1

PoolOfLevel == (p1 :> "primary") @@ (c1 :> "secondary")

(* The primary may be submitted again while it is pending, the secondary   *)
(* be good for one submission only.                                        *)
UsagesOfLevel == (p1 :> {"simultaneous"}) @@ (c1 :> {"oneTime", "simultaneous"})

(* A fill of a buffer, a wait on an event, a dispatch through a set and a  *)
(* render pass.  Pipelines are pinned as sets are and have no object here. *)
Menu == {[kind |-> "host", uses |-> {b1}, sets |-> {}],
         [kind |-> "wait", uses |-> {x1}, sets |-> {}],
         [kind |-> "dispatch", uses |-> {}, sets |-> {s1}],
         [kind |-> "pass", uses |-> {f1}, sets |-> {}]}
=============================================================================
