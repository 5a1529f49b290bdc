----------------------------- MODULE MCSwapchain -----------------------------
(***************************************************************************)
(* The swapchain with one semaphore and one fence: a frame is acquired     *)
(* with either as its mark, rendered by work that waits on the semaphore,  *)
(* signals it, or waits for the host, and presented with or without it.    *)
(***************************************************************************)
EXTENDS Swapchain, TLC

Work(image, to, waits, signals, gated) ==
    [image |-> image, to |-> to, waits |-> waits, signals |-> signals,
     gated |-> gated, launched |-> FALSE]

MCSubmissions ==
    UNION {{Work(n, "present", {}, Semaphores, FALSE),
            Work(n, "present", Semaphores, {}, TRUE),
            Work(n, "attachment", {}, {}, FALSE)} : n \in Slots}
    \cup {Work(None, "present", {}, Fences, TRUE)}
=============================================================================
