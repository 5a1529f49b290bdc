----------------------------- MODULE QueueSpec -----------------------------
(***************************************************************************)
(* What the queue promises an application, with no threads, lock, native   *)
(* jobs or command buffers: a first-in first-out list of records that wait *)
(* for semaphores when they start and publish semaphores and a fence when  *)
(* they retire.  Module Queue implements it (Queue!Promise).               *)
(***************************************************************************)
EXTENDS Integers, Sequences, FiniteSets

CONSTANTS Binaries, Timelines, Fences, NoFence, MayFail

VARIABLES
    queue,      \* the accepted records, oldest first
    signaled,   \* payload of each binary semaphore
    value,      \* payload of each timeline semaphore
    fence,      \* "unsignaled", "pending" or "signaled", of each fence
    lost

vars == <<queue, signaled, value, fence, lost>>

Init ==
    /\ queue = <<>>
    /\ signaled = [b \in Binaries |-> FALSE]
    /\ value = [x \in Timelines |-> 0]
    /\ fence = [f \in Fences |-> "unsignaled"]
    /\ lost = FALSE
-----------------------------------------------------------------------------
(* How many of the first n records of q satisfy a condition. *)
Count(n, Condition(_)) == Cardinality({k \in 1..n : Condition(k)})

(* The payload of a binary semaphore, as a number, once the first n records *)
(* have retired and the next one has consumed its waits or not.            *)
Balance(q, b, retired, consumed) ==
    LET signals(k) == b \in DOMAIN q[k].signals
        waits(k)   == b \in DOMAIN q[k].waits /\ ~q[k].started
    IN  (IF signaled[b] THEN 1 ELSE 0)
            + Count(retired, signals) - Count(consumed, waits)

(* No binary semaphore is ever waited for in vain or signaled twice.       *)
BinariesBalance(q) ==
    \A b \in Binaries : \A k \in 1..Len(q) :
        Balance(q, b, k - 1, k) \in {0, 1} /\ Balance(q, b, k, k) \in {0, 1}

(* The values a timeline semaphore will take are strictly increasing.      *)
TimelineAhead(q) ==
    \A x \in Timelines : \A k \in 1..Len(q) : x \in DOMAIN q[k].signals =>
        /\ q[k].signals[x] > value[x]
        /\ \A j \in 1..(k - 1) : x \in DOMAIN q[j].signals =>
               q[j].signals[x] < q[k].signals[x]

FenceOfLast(records) ==
    /\ \A k \in 1..(Len(records) - 1) : records[k].fence = NoFence
    /\ LET f == records[Len(records)].fence
       IN  \/ f = NoFence /\ fence' = fence
           \/ f # NoFence /\ fence[f] = "unsignaled"
              /\ fence' = [fence EXCEPT ![f] = "pending"]

(* A submission is accepted whole, in one step, and leaves everything      *)
(* published as it was.                                                    *)
Submit ==
    /\ ~lost
    /\ Len(queue') > Len(queue)
    /\ SubSeq(queue', 1, Len(queue)) = queue
    /\ LET records == SubSeq(queue', Len(queue) + 1, Len(queue'))
       IN  /\ \A k \in 1..Len(records) : ~records[k].started
           /\ FenceOfLast(records)
    /\ BinariesBalance(queue') /\ TimelineAhead(queue')
    /\ UNCHANGED <<signaled, value, lost>>

(* The oldest record starts once its timeline values are reached.          *)
Start ==
    /\ ~lost /\ queue # <<>> /\ ~queue[1].started
    /\ \A x \in DOMAIN queue[1].waits \cap Timelines :
           value[x] >= queue[1].waits[x]
    /\ queue' = [queue EXCEPT ![1].started = TRUE]
    /\ signaled' =
           [b \in Binaries |-> signaled[b] /\ b \notin DOMAIN queue[1].waits]
    /\ UNCHANGED <<value, fence, lost>>

(* It retires once started, and publishes exactly what it promised.        *)
Retire ==
    /\ ~lost /\ queue # <<>> /\ queue[1].started
    /\ queue' = Tail(queue)
    /\ LET r == queue[1]
       IN  /\ signaled' = [b \in Binaries |-> signaled[b] \/ b \in DOMAIN r.signals]
           /\ value' = [x \in Timelines |->
                  IF x \in DOMAIN r.signals THEN r.signals[x] ELSE value[x]]
           /\ fence' = [f \in Fences |->
                  IF f = r.fence THEN "signaled" ELSE fence[f]]
    /\ UNCHANGED lost

(* The host publishes a value below every value still promised.            *)
HostSignal ==
    /\ \E x \in Timelines :
           /\ value'[x] > value[x]
           /\ value' = [value EXCEPT ![x] = value'[x]]
    /\ \A x \in Timelines, k \in 1..Len(queue) :
           x \in DOMAIN queue[k].signals => queue[k].signals[x] > value'[x]
    /\ UNCHANGED <<queue, signaled, fence, lost>>

ResetFence ==
    /\ \E f \in Fences : /\ fence[f] = "signaled"
                         /\ fence' = [fence EXCEPT ![f] = "unsignaled"]
    /\ UNCHANGED <<queue, signaled, value, lost>>

(* Only the backend or the memory under it can lose the device.            *)
Lose ==
    /\ MayFail /\ lost' = TRUE
    /\ UNCHANGED <<queue, signaled, value, fence>>

Next == Submit \/ Start \/ Retire \/ HostSignal \/ ResetFence \/ Lose

Spec == Init /\ [][Next]_vars
=============================================================================
