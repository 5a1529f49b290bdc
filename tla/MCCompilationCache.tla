------------------------- MODULE MCCompilationCache -------------------------
(***************************************************************************)
(* An instance of the compilation cache for TLC: two threads, programs of  *)
(* several sizes, one too large to be stored, and budgets of which either  *)
(* can be exhausted first.                                                 *)
(***************************************************************************)
EXTENDS CompilationCache, TLC

CONSTANTS tiny, small, medium, large, huge

MCSize ==
    (tiny :> 1) @@ (small :> 1) @@ (medium :> 3) @@ (large :> 4) @@ (huge :> 7)

(* Threads, pipelines and memory are interchangeable. *)
CacheSymmetry ==
    Permutations(Threads) \cup Permutations(Pipelines) \cup Permutations(Entries)
=============================================================================
