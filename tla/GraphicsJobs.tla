----------------------------- MODULE GraphicsJobs -----------------------------
(***************************************************************************)
(* The graphics jobs of one device: how the queue prepares, launches,      *)
(* polls and releases them (src/vk_queue.c, src/vk_queue_router.c,         *)
(* native/graphics_queue_ps5.c), the layout transactions they carry        *)
(* (src/image_layout_state.c) and the occlusion queries they publish       *)
(* (src/vk_query_pool.c), with threads that wait for query results.        *)
(*                                                                         *)
(* What a buffer recorded is constant: its segments, each host work or a   *)
(* native job, with the layouts it expects and leaves behind.  A layout    *)
(* belongs to an image, or to one aspect of a depth-stencil image.  A      *)
(* critical section of the device lock is split at every turn of the loop  *)
(* of start_submission, for vkGetQueryPoolResults and vkResetQueryPool     *)
(* read and write without the lock.                                        *)
(***************************************************************************)
EXTENDS Integers, Sequences, SequencesExt, FiniteSetsExt

CONSTANTS
    Threads,
    Images,
    Layouts,
    Undefined,   \* VK_IMAGE_LAYOUT_UNDEFINED
    Queries,
    Buffers,
    Recording,   \* buffer -> sequence of its segments
    Calls,       \* what applications submit: buffers, each in a VkSubmitInfo of
                 \* its own, behind a timeline value or not
    MaxSerial,   \* bound of a run: serials that are handed out
    Nobody       \* holder of a free device lock

(* moves: the layout an image is expected in and the one it is left in.    *)
(* mixed: dispatches and rendering together.  arenas: the command arenas   *)
(* its draws need.                                                         *)
Move == [old : Layouts \cup {Undefined}, new : Layouts]
Segments ==
    [native : BOOLEAN, mixed : BOOLEAN, arenas : 1..2, gated : BOOLEAN,
     moves : UNION {[S -> Move] : S \in SUBSET Images},
     begins : SUBSET Queries, resets : SUBSET Queries]

ASSUME JobsAssumption ==
    /\ Recording \in [Buffers -> Seq(Segments)]
    /\ Calls \subseteq [buffers : Seq(Buffers), gated : BOOLEAN]
    /\ MaxSerial \in Nat
    /\ Nobody \notin Threads

(* What a call names, as segments in order.  A buffer alone in its         *)
(* VkSubmitInfo is not merged with another.                                *)
Pieces ==
    UNION {{[buffer |-> b, segment |-> Recording[b][k]] : k \in DOMAIN Recording[b]} :
           b \in Buffers}
Chain(call) ==
    FlattenSeq([i \in DOMAIN call.buffers |->
                   [k \in DOMAIN Recording[call.buffers[i]] |->
                       [buffer |-> call.buffers[i],
                        segment |-> Recording[call.buffers[i]][k]]]])

VARIABLES
    layout,      \* the committed layout of each image
    query,       \* state of each query
    value,       \* its result: the serial of the job that counted it
    freshFrom,   \* history: the first serial after its last reset
    queue,       \* d->submission
    nextSerial,  \* queue.next_serial
    holder,      \* who is inside start_submission
    lost,        \* d->lost
    gpu,         \* serial of the job the GPU executes, 0 for none
    labels,      \* labels of the head's job that carry its serial
    late,        \* three seconds have passed since the last launch
    pc,          \* where each thread is in vkGetQueryPoolResults
    wanted       \* the query it waits for

queryVars == <<query, value, freshFrom>>
gpuVars   == <<gpu, labels, late>>
waitVars  == <<pc, wanted>>
vars == <<layout, queryVars, queue, nextSerial, holder, lost, gpuVars, waitVars>>

Submissions ==
    [serial : 1..MaxSerial, buffer : Buffers, segment : Segments,
     job : [prepared : BOOLEAN, launched : 0..2,
            initial : UNION {[S -> Layouts] : S \in SUBSET Images}]]

TypeOK ==
    /\ layout \in [Images -> Layouts]
    /\ query \in [Queries -> {"uninitialized", "unavailable", "available"}]
    /\ value \in [Queries -> 0..MaxSerial]
    /\ freshFrom \in [Queries -> 0..(MaxSerial + 1)]
    /\ queue \in Seq(Submissions)
    /\ nextSerial \in 1..(MaxSerial + 1)
    /\ holder \in Threads \cup {Nobody}
    /\ lost \in BOOLEAN /\ late \in BOOLEAN
    /\ gpu \in 0..MaxSerial /\ labels \in 0..2
    /\ pc \in [Threads -> {"idle", "look", "queued", "poll", "again", "notReady"}]
    /\ wanted \in [Threads -> Queries]

NoJob == [prepared |-> FALSE, launched |-> 0, initial |-> <<>>]

Init ==
    /\ layout \in [Images -> Layouts]
    /\ query = [q \in Queries |-> "uninitialized"]
    /\ value = [q \in Queries |-> 0] /\ freshFrom = [q \in Queries |-> 0]
    /\ queue = <<>> /\ nextSerial = 1 /\ holder = Nobody /\ lost = FALSE
    /\ gpu = 0 /\ labels = 0 /\ late = FALSE
    /\ pc = [t \in Threads |-> "idle"] /\ wanted \in [Threads -> Queries]

-----------------------------------------------------------------------------
(* Layout transactions.                                                    *)

(* UNDEFINED discards the contents and matches every layout. *)
Transition(segment) ==
    \A i \in DOMAIN segment.moves : segment.moves[i].old \in {Undefined, layout[i]}

Moved(segment) ==
    [i \in Images |-> IF i \in DOMAIN segment.moves
                      THEN segment.moves[i].new ELSE layout[i]]

(* The layouts a job found when it was prepared.  *)
Snapshot(segment) == [i \in DOMAIN segment.moves |-> layout[i]]

(* The router refuses a mixed segment; the graphics backend one whose      *)
(* layouts are not those committed.                                        *)
Preparable(segment) == ~segment.mixed /\ Transition(segment)
Prepared(segment) ==
    [prepared |-> TRUE, launched |-> 0, initial |-> Snapshot(segment)]

(* Whether every image is as the job found it when it was prepared. *)
SnapshotHolds(s) ==
    \A i \in DOMAIN s.job.initial : layout[i] = s.job.initial[i]

-----------------------------------------------------------------------------
(* Submission.                                                             *)
HeadGated == queue # <<>> /\ Head(queue).segment.gated

(* A buffer is pending while one of its segments is queued. *)
Pending(b) == \E i \in DOMAIN queue : queue[i].buffer = b

ResetBefore(b, k, q) ==
    LET naming == {i \in 1..(k-1) :
                     q \in Recording[b][i].resets \cup Recording[b][i].begins}
    IN  IF naming = {} THEN query[q] = "unavailable"
                       ELSE q \in Recording[b][Max(naming)].resets

CommandValid(b) ==
    /\ ~Pending(b)
    /\ \A k \in DOMAIN Recording[b] : \A q \in Recording[b][k].begins : ResetBefore(b, k, q)

(* The wait of a call is that of its first segment.                        *)
Expanded(call) ==
    [k \in DOMAIN Chain(call) |->
        [Chain(call)[k] EXCEPT !.segment.gated = call.gated /\ k = 1]]

(* Slip: work behind a frontend segment is prepared at once. *)
DeferredBehindWaits(chain, k) == queue # <<>> \/ \E i \in 1..k : chain[i].segment.gated

(* Work behind a timeline wait or behind host work of the same call is     *)
(* prepared when it reaches the head.                                      *)
Deferred(chain, k) ==
    \/ queue # <<>>
    \/ \E i \in 1..k : chain[i].segment.gated \/ ~chain[i].segment.native

(* vkQueueSubmit: its drain has ended, with the queue empty or blocked; a  *)
(* call it refuses changes nothing.                                        *)
Submit(t, call) ==
    /\ pc[t] = "idle" /\ holder = Nobody /\ ~lost
    /\ queue = <<>> \/ HeadGated
    /\ IsInjective(call.buffers)
    /\ \A i \in DOMAIN call.buffers : CommandValid(call.buffers[i])
    /\ LET chain == Expanded(call)
           AtOnce(k) == chain[k].segment.native /\ ~Deferred(chain, k)
       IN  /\ nextSerial + Len(chain) <= MaxSerial + 1
           /\ \A k \in DOMAIN chain : AtOnce(k) => Preparable(chain[k].segment)
           /\ queue' = queue \o [k \in DOMAIN chain |->
                 [serial |-> nextSerial + k - 1, buffer |-> chain[k].buffer,
                  segment |-> chain[k].segment,
                  job |-> IF AtOnce(k) THEN Prepared(chain[k].segment) ELSE NoJob]]
           /\ nextSerial' = nextSerial + Len(chain)
    /\ holder' = t
    /\ UNCHANGED <<layout, queryVars, lost, gpuVars, waitVars>>

(* The host signals the timeline value queued work waits for. *)
HostSignal ==
    /\ holder = Nobody
    /\ \E i \in DOMAIN queue : queue[i].segment.gated
    /\ queue' = [i \in DOMAIN queue |-> [queue[i] EXCEPT !.segment.gated = FALSE]]
    /\ UNCHANGED <<layout, queryVars, nextSerial, holder, lost, gpuVars, waitVars>>

-----------------------------------------------------------------------------
(* start_submission, one turn of its loop.                                 *)
Leave == holder' = Nobody
Lose == lost' = TRUE /\ Leave

StartEnds ==
    /\ queue = <<>> \/ HeadGated
    /\ Leave
    /\ UNCHANGED <<layout, queryVars, queue, nextSerial, lost, gpuVars, waitVars>>

Reset(qs, serial) ==
    /\ query' = [q \in Queries |-> IF q \in qs THEN "unavailable" ELSE query[q]]
    /\ value' = [q \in Queries |-> IF q \in qs THEN 0 ELSE value[q]]
    /\ freshFrom' = [q \in Queries |-> IF q \in qs THEN serial ELSE freshFrom[q]]

(* Host work at the head: layouts and query resets take effect at once. *)
ExecuteFrontend ==
    /\ queue # <<>> /\ ~HeadGated /\ ~Head(queue).segment.native
    /\ LET s == Head(queue)
       IN  \/ /\ Transition(s.segment)
              /\ layout' = Moved(s.segment)
              /\ Reset(s.segment.resets, s.serial)
              /\ queue' = Tail(queue)
              /\ UNCHANGED <<holder, lost>>
           \/ /\ ~Transition(s.segment)
              /\ Lose
              /\ UNCHANGED <<layout, queryVars, queue>>
    /\ UNCHANGED <<nextSerial, gpuVars, waitVars>>

Launch(job) ==
    /\ queue' = [queue EXCEPT ![1].job = [job EXCEPT !.launched = 1]]
    /\ gpu' = Head(queue).serial /\ labels' = 0 /\ late' = FALSE

(* The submission, or the suspend point behind it, reports an error: the   *)
(* job counts as not launched, whether the GPU has its commands or not.    *)
LaunchFails(job) ==
    /\ queue' = [queue EXCEPT ![1].job = job]
    /\ gpu' \in {0, Head(queue).serial} /\ labels' = 0 /\ late' = FALSE

LaunchHead ==
    /\ queue # <<>> /\ ~HeadGated /\ Head(queue).segment.native
    /\ LET s   == Head(queue)
           job == IF s.job.prepared THEN s.job ELSE Prepared(s.segment)
       IN  \/ /\ s.job.prepared \/ Preparable(s.segment)
              /\ \/ Launch(job) /\ Leave /\ UNCHANGED lost
                 \/ LaunchFails(job) /\ Lose
           \/ /\ ~s.job.prepared
              /\ Lose
              /\ UNCHANGED <<queue, gpuVars>>
    /\ UNCHANGED <<layout, queryVars, nextSerial, waitVars>>

StartSubmission ==
    holder # Nobody /\ (StartEnds \/ ExecuteFrontend \/ LaunchHead)

-----------------------------------------------------------------------------
(* The GPU: writes the label of an arena when it has executed it, or hangs.*)
GpuRetires ==
    /\ gpu # 0
    /\ gpu' = 0 /\ labels' = labels + 1
    /\ UNCHANGED <<layout, queryVars, queue, nextSerial, holder, lost, late, waitVars>>

Elapse ==
    /\ gpu # 0 /\ ~late /\ late' = TRUE
    /\ UNCHANGED <<layout, queryVars, queue, nextSerial, holder, lost, gpu, labels, waitVars>>

-----------------------------------------------------------------------------
(* poll_locked and the poll of the job, by thread t.                       *)
Launched == Head(queue).job.launched

(* Slip: the label of the first arena is the one that is read. *)
RetiredFirst == labels >= 1

(* The label of the arena launched last carries the serial. *)
Retired == labels >= Launched

PollStart(t) ==
    /\ HeadGated \/ ~Head(queue).segment.native \/ Launched = 0
    /\ holder' = t
    /\ UNCHANGED <<layout, queryVars, queue, lost, gpuVars>>

NextArena ==
    /\ Launched \in 1..(Head(queue).segment.arenas - 1) /\ Retired
    /\ \/ /\ queue' = [queue EXCEPT ![1].job.launched = @ + 1]
          /\ gpu' = Head(queue).serial /\ late' = FALSE
          /\ UNCHANGED lost
       \/ /\ lost' = TRUE /\ gpu' \in {gpu, Head(queue).serial}
          /\ UNCHANGED <<queue, late>>
    /\ UNCHANGED <<layout, queryVars, holder, labels>>

Publish(qs, serial) ==
    /\ query' = [q \in Queries |-> IF q \in qs THEN "available" ELSE query[q]]
    /\ value' = [q \in Queries |-> IF q \in qs THEN serial ELSE value[q]]
    /\ UNCHANGED freshFrom

(* Nothing is committed unless the snapshot of every image still holds.    *)
PollComplete(t) ==
    /\ Launched = Head(queue).segment.arenas /\ Retired
    /\ LET s == Head(queue)
       IN  /\ Publish(s.segment.begins, s.serial)
           /\ IF SnapshotHolds(s)
              THEN /\ layout' = Moved(s.segment)
                   /\ queue' = Tail(queue)
                   /\ holder' = t
                   /\ UNCHANGED lost
              ELSE lost' = TRUE /\ UNCHANGED <<layout, queue, holder>>
    /\ UNCHANGED gpuVars

(* A readback or a counter that is not as it must be, when the queries     *)
(* before it are published.                                                *)
PollFails ==
    /\ Launched = Head(queue).segment.arenas /\ Retired
    /\ \E qs \in SUBSET Head(queue).segment.begins : Publish(qs, Head(queue).serial)
    /\ lost' = TRUE
    /\ UNCHANGED <<layout, queue, holder, gpuVars>>

(* Slip: a job is given all the time it takes. *)
PollNeverLate == Launched > 0 /\ ~Retired /\ UNCHANGED <<layout, queryVars, queue, holder, lost, gpuVars>>

PollRunning ==
    /\ Launched > 0 /\ ~Retired
    /\ lost' = late
    /\ UNCHANGED <<layout, queryVars, queue, holder, gpuVars>>

PollHead(t) ==
    PollStart(t) \/ NextArena \/ PollComplete(t) \/ PollFails \/ PollRunning

PollLocked(t) ==
    /\ holder = Nobody /\ ~lost
    /\ IF queue = <<>>
       THEN UNCHANGED <<layout, queryVars, queue, holder, lost, gpuVars>>
       ELSE PollHead(t)
    /\ UNCHANGED nextSerial

(* Any other call that waits polls as well. *)
Poll(t) == pc[t] = "idle" /\ queue # <<>> /\ PollLocked(t) /\ UNCHANGED waitVars

-----------------------------------------------------------------------------
(* Host access to queries, without the lock.                               *)

(* Slip: queued use is not looked at. *)
HostResetInUse(q) ==
    /\ ~lost
    /\ Reset({q}, nextSerial)
    /\ UNCHANGED <<layout, queue, nextSerial, holder, lost, gpuVars, waitVars>>

InUse(q) ==
    \E b \in Buffers :
        /\ Pending(b)
        /\ \E k \in DOMAIN Recording[b] :
             q \in Recording[b][k].begins \cup Recording[b][k].resets

(* vkResetQueryPool *)
HostReset(q) ==
    /\ ~lost /\ ~InUse(q)
    /\ Reset({q}, nextSerial)
    /\ UNCHANGED <<layout, queue, nextSerial, holder, lost, gpuVars, waitVars>>

Go(t, step) == pc' = [pc EXCEPT ![t] = step]
OnlyWaits == UNCHANGED <<layout, queryVars, queue, nextSerial, holder, lost, gpuVars>>

(* vkGetQueryPoolResults with VK_QUERY_RESULT_WAIT_BIT *)
GetResults(t, q) ==
    /\ pc[t] = "idle" /\ holder # t /\ ~lost
    /\ wanted' = [wanted EXCEPT ![t] = q]
    /\ Go(t, "look")
    /\ OnlyWaits

WaitLook(t) ==
    /\ pc[t] = "look"
    /\ Go(t, IF query[wanted[t]] = "available" THEN "idle" ELSE "queued")
    /\ OnlyWaits /\ UNCHANGED wanted

WaitQueued(t) ==
    /\ pc[t] = "queued"
    /\ Go(t, IF queue = <<>> THEN "notReady" ELSE "poll")
    /\ OnlyWaits /\ UNCHANGED wanted

WaitPoll(t) ==
    /\ pc[t] = "poll"
    /\ IF lost THEN Go(t, "idle") /\ OnlyWaits
               ELSE PollLocked(t) /\ Go(t, IF lost' THEN "idle" ELSE "again")
    /\ UNCHANGED wanted

(* The second look at the query and at the queue, and the pause. *)
WaitAgain(t) ==
    /\ pc[t] = "again" /\ holder # t
    /\ Go(t, IF lost THEN "idle"
             ELSE IF query[wanted[t]] # "available" /\ queue = <<>>
             THEN "notReady" ELSE "look")
    /\ OnlyWaits /\ UNCHANGED wanted

(* VK_NOT_READY, or an error for a query never reset. *)
WaitReturns(t) ==
    /\ pc[t] = "notReady" /\ Go(t, "idle")
    /\ OnlyWaits /\ UNCHANGED wanted

Wait(t) == WaitLook(t) \/ WaitQueued(t) \/ WaitPoll(t) \/ WaitAgain(t) \/ WaitReturns(t)

Next ==
    \/ \E t \in Threads :
        \/ \E call \in Calls : Submit(t, call)
        \/ Poll(t) \/ Wait(t)
        \/ \E q \in Queries : GetResults(t, q)
    \/ StartSubmission \/ HostSignal \/ GpuRetires \/ Elapse
    \/ \E q \in Queries : HostReset(q)

Spec == Init /\ [][Next]_vars

(* Threads that wait keep polling, the lock is not held for ever, and the  *)
(* clock goes on.  Nothing is assumed of the GPU or of the application.    *)
FairSpec ==
    /\ Spec
    /\ WF_vars(StartSubmission) /\ WF_vars(Elapse)
    /\ \A t \in Threads : WF_vars(Wait(t))

-----------------------------------------------------------------------------
(* Work of a call that is prepared ahead of other work of it leaves the    *)
(* images both name in the layouts it expects them in.  The code does not  *)
(* ask for this.                                                           *)
Keeps(segment, other) ==
    \A i \in DOMAIN segment.moves \cap DOMAIN other.moves :
        segment.moves[i].new = segment.moves[i].old /\ segment.moves[i].old # Undefined

AllAtOnce(chain, k) == \A i \in 1..k : chain[i].segment.native /\ ~chain[i].segment.gated

Independent(call) ==
    LET chain == Expanded(call)
    IN  \A j, k \in DOMAIN chain :
            j < k /\ AllAtOnce(chain, k) => Keeps(chain[j].segment, chain[k].segment)

(* The layouts a prepared job found are still those of its images when it  *)
(* is launched and when it commits: no work of another job or of the       *)
(* frontend comes between, so no commit of a completed job is refused and  *)
(* costs the device.                                                       *)
SnapshotsHold ==
    \A i \in DOMAIN queue : queue[i].job.prepared => SnapshotHolds(queue[i])

(* A query that reads as available was counted by work that was submitted  *)
(* after the reset it was last given, by the host or by the queue: no      *)
(* result of earlier work shows up behind a reset.                         *)
ResetNotOvertaken ==
    \A q \in Queries : query[q] = "available" => value[q] >= freshFrom[q]

(* What the GPU executes belongs to the job at the head of the queue: its  *)
(* buffers are pending and its command arenas are not given back, whatever *)
(* arena of a job of several is read late or fails to launch with the GPU  *)
(* at work all the same, and whoever is about to launch the next finds the *)
(* GPU done with the last.                                                 *)
CommandsOutliveGpu ==
    gpu # 0 => /\ queue # <<>> /\ Head(queue).serial = gpu
               /\ lost \/ labels < Launched
               /\ holder = Nobody

(* A thread that waits for a query result returns, with a result or an     *)
(* error, also when the GPU never does; unless queued work waits for a     *)
(* value that only the host signals.                                       *)
ResultsWaitEnds ==
    \A t \in Threads : pc[t] # "idle" ~> (pc[t] = "idle" \/ HeadGated)
=============================================================================
