------------------------------- MODULE Queue -------------------------------
(***************************************************************************)
(* The submission queue of the driver: vkQueueSubmit, the queue waits, the *)
(* progress engine every waiting call drives (src/vk_queue.c), the host    *)
(* side of semaphores and events (src/vk_sync.c) and of fences             *)
(* (src/vk_fence.c), used by several threads over one native backend.      *)
(*                                                                         *)
(* Every access to the queue runs under the device lock.  A critical       *)
(* section is split into the steps of the code it runs, because events are *)
(* set and reset without the lock, and because the drain of vkQueueSubmit  *)
(* gives the lock up at every pause.                                       *)
(*                                                                         *)
(* A call that validation refuses returns with nothing changed; where the  *)
(* refusal is decided in the same step that would enter the call, it is    *)
(* simply not a step.  What a command buffer recorded is constant: the     *)
(* segments of every list of buffers (module Segments), the events and the *)
(* secondaries it names.                                                   *)
(***************************************************************************)
EXTENDS Integers, Sequences, FiniteSets

CONSTANTS
    Threads,         \* application threads
    Binaries,        \* binary semaphores
    Timelines,       \* timeline semaphores
    Fences,
    Events,
    Buffers,         \* recorded command buffers
    NoFence,         \* VK_NULL_HANDLE
    NoEvent,
    Nobody,          \* owner of a free lock
    SubmitCalls,     \* the sequences of VkSubmitInfo applications submit
    SemaphoreWaits,  \* the arguments of vkWaitSemaphores
    FenceWaits,      \* the arguments of vkWaitForFences
    HostValues,      \* values vkSignalSemaphore may publish
    Expansion,       \* list of buffers -> its segments (module Segments)
    EventRefs,       \* buffer -> events its operations name
    EventWaitRefs,   \* buffer -> events its operations wait on
    Secondaries,     \* buffer -> secondaries it names
    OneTime,         \* buffers with ONE_TIME_SUBMIT usage
    Simultaneous,    \* buffers with SIMULTANEOUS_USE usage
    MaxValue,        \* UINT64_MAX, the largest timeline value
    MaxSerial,       \* UINT64_MAX, the last serial the counter can reach
    Failures         \* whether the backend and the copies may fail

Semaphores == Binaries \cup Timelines

(* PS5VK_MAX_SUBMITTED_BUFFERS *)
MaxSubmittedBuffers == 32

(* Semaphores named by one record, with their timeline values (0 for a     *)
(* binary semaphore).                                                      *)
Values     == 0..MaxValue
References == UNION {[S -> Values] : S \in SUBSET Semaphores}
TimelineValues == UNION {[S -> Values] : S \in SUBSET Timelines}
NoReferences == [x \in {} |-> 0]

(* The operation of a frontend segment: none, host work, or on an event. *)
FrontendOps == [kind  : {"none", "host", "set", "reset", "wait"},
                event : Events \cup {NoEvent}]

Shapes == [frontend : BOOLEAN, indirect : BOOLEAN,
           buffers : Seq(Buffers), op : FrontendOps]

Infos ==
    [waits : References, signals : References, buffers : DOMAIN Expansion]

(* vkQueueSubmit without a VkSubmitInfo still queues one record. *)
EmptyInfo ==
    [waits |-> NoReferences, signals |-> NoReferences, buffers |-> <<>>]

ASSUME QueueAssumption ==
    /\ Binaries \cap Timelines = {}
    /\ NoFence \notin Fences /\ NoEvent \notin Events /\ Nobody \notin Threads
    /\ IsFiniteSet(Semaphores)
    /\ SubmitCalls \subseteq Seq(Infos)
    /\ SemaphoreWaits \subseteq
           [values : TimelineValues, any : BOOLEAN, finite : BOOLEAN]
    /\ FenceWaits \subseteq
           [fences : SUBSET Fences, any : BOOLEAN, finite : BOOLEAN]
    /\ MaxValue \in Nat /\ HostValues \subseteq Values
    /\ DOMAIN Expansion \subseteq Seq(Buffers) /\ <<>> \in DOMAIN Expansion
    /\ \A list \in DOMAIN Expansion :
           Expansion[list] \in Seq(Shapes) /\ Expansion[list] # <<>>
    /\ EventRefs \in [Buffers -> SUBSET Events]
    /\ EventWaitRefs \in [Buffers -> SUBSET Events]
    /\ Secondaries \in [Buffers -> SUBSET Buffers]
    /\ MaxSerial \in Nat \ {0}
    /\ Failures \in BOOLEAN

VARIABLES
    lock,             \* owner of the device lock
    pc,               \* where each thread is in its call
    call,             \* the call each thread is in
    submission,       \* d->submission, the queued segments
    chain,            \* the segments a vkQueueSubmit is building
    assigned,         \* how many of them have their serial and their job
    nextSerial,       \* queue.next_serial
    completedSerial,  \* queue.completed_serial
    signaled,         \* payload of each binary semaphore
    value,            \* payload of each timeline semaphore
    pending,          \* semaphore->pending, queued references to it
    fenceSignaled,    \* fence->signaled
    fenceSerial,      \* fence->pending_serial, 0 for none
    bufferState,      \* command->state
    bufferPending,    \* command->pending_count
    hostSignaled,     \* event->host_signaled
    deviceSignaled,   \* event->device_signaled
    eventPins,        \* buffers counted in event->pending
    eventWaitPins,    \* buffers counted in event->pending_waits
    jobs,             \* state of the native job of each serial
    lost              \* d->lost

threadVars == <<lock, pc, call>>
queueVars  == <<submission, chain, assigned, nextSerial, completedSerial>>
semVars    == <<signaled, value, pending>>
fenceVars  == <<fenceSignaled, fenceSerial>>
bufferVars == <<bufferState, bufferPending>>
pinVars    == <<eventPins, eventWaitPins>>
eventVars  == <<hostSignaled, deviceSignaled>>
deviceVars == <<jobs, lost>>

vars == <<threadVars, queueVars, semVars, fenceVars, bufferVars, pinVars,
          eventVars, deviceVars>>

Calls == [op     : {"none", "submit", "submitted", "waitIdle", "signal",
                    "waitSemaphores", "waitFences", "setEvent", "resetEvent"},
          infos  : Seq(Infos),
          fence  : Fences \cup {NoFence},
          values : TimelineValues,
          fences : SUBSET Fences,
          any    : BOOLEAN,
          finite : BOOLEAN,
          event  : Events \cup {NoEvent}]

NoCall == [op |-> "none", infos |-> <<>>, fence |-> NoFence,
           values |-> NoReferences, fences |-> {}, any |-> FALSE,
           finite |-> FALSE, event |-> NoEvent]

Segments == [serial : 0..MaxSerial, fence : Fences \cup {NoFence},
             waits : References, signals : References,
             buffers : Seq(Buffers), op : FrontendOps,
             frontend : BOOLEAN, deferred : BOOLEAN,
             consumed : BOOLEAN, job : BOOLEAN]

(* A native job is "none" until prepared and "released" at the end; it is  *)
(* "corrupt" once the queue used it against the backend's contract.        *)
JobStates == {"none", "prepared", "running", "done", "released", "corrupt"}

(* Where a thread is: outside any call; waiting for the lock to begin      *)
(* ("enter", "publish"), to drive the queue ("progress") or to look at the *)
(* result ("check", "again"); about to update an event, without the lock   *)
(* ("event"); or holding the lock, in poll_locked ("poll"),                *)
(* start_submission ("start"), after it ("polled") or building records.    *)
Places == {"idle", "enter", "publish", "progress", "check", "again", "event",
           "poll", "start", "polled", "build"}

ThreadTypes ==
    /\ lock \in Threads \cup {Nobody}
    /\ pc \in [Threads -> Places]
    /\ call \in [Threads -> Calls]

QueueTypes ==
    /\ submission \in Seq(Segments)
    /\ chain \in Seq(Segments)
    /\ assigned \in Nat
    /\ nextSerial \in 1..MaxSerial
    /\ completedSerial \in 0..MaxSerial

SemaphoreTypes ==
    /\ signaled \in [Binaries -> BOOLEAN]
    /\ value \in [Timelines -> Values]
    /\ pending \in [Semaphores -> Int]

FenceTypes ==
    /\ fenceSignaled \in [Fences -> BOOLEAN]
    /\ fenceSerial \in [Fences -> 0..MaxSerial]

BufferTypes ==
    /\ bufferState \in [Buffers -> {"executable", "pending", "invalid"}]
    /\ bufferPending \in [Buffers -> Int]

PinTypes ==
    /\ eventPins \in [Events -> SUBSET Buffers]
    /\ eventWaitPins \in [Events -> SUBSET Buffers]

EventTypes ==
    /\ hostSignaled \in [Events -> BOOLEAN]
    /\ deviceSignaled \in [Events -> BOOLEAN]

DeviceTypes ==
    /\ jobs \in [1..MaxSerial -> JobStates]
    /\ lost \in BOOLEAN

TypeOK ==
    /\ ThreadTypes /\ QueueTypes /\ SemaphoreTypes /\ FenceTypes
    /\ BufferTypes /\ PinTypes /\ EventTypes /\ DeviceTypes

Init ==
    /\ lock = Nobody
    /\ pc = [t \in Threads |-> "idle"]
    /\ call = [t \in Threads |-> NoCall]
    /\ submission = <<>> /\ chain = <<>> /\ assigned = 0
    /\ nextSerial = 1 /\ completedSerial = 0
    /\ signaled = [b \in Binaries |-> FALSE]
    /\ value = [x \in Timelines |-> 0]
    /\ pending = [x \in Semaphores |-> 0]
    /\ fenceSignaled = [f \in Fences |-> FALSE]
    /\ fenceSerial = [f \in Fences |-> 0]
    /\ bufferState = [b \in Buffers |-> "executable"]
    /\ bufferPending = [b \in Buffers |-> 0]
    /\ hostSignaled = [e \in Events |-> FALSE]
    /\ deviceSignaled = [e \in Events |-> FALSE]
    /\ eventPins = [e \in Events |-> {}]
    /\ eventWaitPins = [e \in Events |-> {}]
    /\ jobs = [n \in 1..MaxSerial |-> "none"]
    /\ lost = FALSE
-----------------------------------------------------------------------------
(* Threads, calls and the lock. *)

Goto(t, where) == pc' = [pc EXCEPT ![t] = where]

Return(t) ==
    /\ Goto(t, "idle")
    /\ call' = [call EXCEPT ![t] = NoCall]

Enter(t, where, arguments) ==
    /\ pc[t] = "idle"
    /\ Goto(t, where)
    /\ call' = [call EXCEPT ![t] = arguments]

Acquire(t) == lock = Nobody /\ lock' = t
Release(t) == lock' = Nobody

(* Queue calls are externally synchronised by the application. *)
InQueueCall(t) == call[t].op \in {"submit", "submitted", "waitIdle"}
QueueIsFree == \A t \in Threads : ~InQueueCall(t)
-----------------------------------------------------------------------------
(* The queued segments and the semaphores they name. *)

QueueHead == submission[1]

TimelineUnsatisfied(s) ==
    \E x \in DOMAIN s.waits \cap Timelines : value[x] < s.waits[x]

(* head_waits_on_timeline *)
HeadWaitsOnTimeline ==
    submission # <<>> /\ ~QueueHead.consumed /\ TimelineUnsatisfied(QueueHead)

(* Slip: the payload of a binary semaphore as it is now, not as the queued *)
(* records will leave it.                                                  *)
SignaledNow(records, b) == signaled[b]

(* find_state for a binary semaphore: what its payload will be once the    *)
(* given records, queued or about to be, have executed.                    *)
SignaledAfter(records, b) ==
    LET waitsAfter(j) == \E k \in j..Len(records) :
                             /\ b \in DOMAIN records[k].waits
                             /\ ~records[k].consumed
    IN  \/ signaled[b] /\ ~waitsAfter(1)
        \/ \E j \in 1..Len(records) :
               b \in DOMAIN records[j].signals /\ ~waitsAfter(j + 1)

(* find_state for a timeline semaphore: v exceeds its payload and every    *)
(* value the given records will signal.                                    *)
ExceedsAllSignals(records, x, v) ==
    /\ v > value[x]
    /\ \A k \in 1..Len(records) :
           x \in DOMAIN records[k].signals => v > records[k].signals[x]

(* How often the records name semaphore x: its share of x->pending. *)
ReferencesIn(records, x) ==
    Cardinality({k \in 1..Len(records) : x \in DOMAIN records[k].waits}) +
    Cardinality({k \in 1..Len(records) : x \in DOMAIN records[k].signals})

(* How often the records name buffer b: its share of b->pending_count. *)
UsesIn(records, b) ==
    Cardinality({p \in (1..Len(records)) \X (1..MaxSubmittedBuffers) :
                     /\ p[2] <= Len(records[p[1]].buffers)
                     /\ records[p[1]].buffers[p[2]] = b})

(* pin(s, 1) for each of the records, in order. *)
Pin(records) ==
    LET first == {b \in Buffers : UsesIn(records, b) > 0 /\ bufferPending[b] = 0}
    IN  /\ bufferPending' =
               [b \in Buffers |-> bufferPending[b] + UsesIn(records, b)]
        /\ bufferState' =
               [b \in Buffers |-> IF UsesIn(records, b) > 0 THEN "pending"
                                  ELSE bufferState[b]]
        /\ eventPins' = [e \in Events |->
               eventPins[e] \cup {b \in first : e \in EventRefs[b]}]
        /\ eventWaitPins' = [e \in Events |->
               eventWaitPins[e] \cup {b \in first : e \in EventWaitRefs[b]}]

(* Slip: the events of a buffer are released with any of its segments. *)
LastUseAny(s) == {b \in Buffers : UsesIn(<<s>>, b) > 0}

(* The buffers whose pending_count segment s brings back to zero. *)
LastUse(s) ==
    {b \in Buffers : UsesIn(<<s>>, b) > 0 /\ bufferPending[b] = UsesIn(<<s>>, b)}

(* pin(s, 0): events are released only when the buffer no longer pends. *)
Unpin(s) ==
    /\ bufferPending' =
           [b \in Buffers |-> bufferPending[b] - UsesIn(<<s>>, b)]
    /\ bufferState' =
           [b \in Buffers |->
               IF b \notin LastUse(s) THEN bufferState[b]
               ELSE IF b \in OneTime THEN "invalid" ELSE "executable"]
    /\ eventPins' = [e \in Events |-> eventPins[e] \ LastUse(s)]
    /\ eventWaitPins' = [e \in Events |-> eventWaitPins[e] \ LastUse(s)]
-----------------------------------------------------------------------------
(* vkQueueSubmit. *)

SubmitCall(t, infos, f) ==
    /\ QueueIsFree
    /\ Enter(t, "enter", [NoCall EXCEPT !.op = "submit", !.fence = f,
                 !.infos = IF infos = <<>> THEN <<EmptyInfo>> ELSE infos])
    /\ UNCHANGED <<lock, queueVars, semVars, fenceVars, bufferVars, pinVars,
                   eventVars, deviceVars>>

(* What is checked before the queue is drained. *)
Admissible(c) ==
    /\ ~lost
    /\ c.fence # NoFence => ~fenceSignaled[c.fence] /\ fenceSerial[c.fence] = 0
    /\ \A i \in 1..Len(c.infos) : \A k \in 1..Len(c.infos[i].buffers) :
           LET b == c.infos[i].buffers[k]
           IN  bufferState[b] = "pending" => b \in Simultaneous

AdmitSubmit(t) ==
    /\ pc[t] = "enter"
    /\ lock = Nobody
    /\ IF Admissible(call[t])
       THEN Acquire(t) /\ Goto(t, "poll") /\ UNCHANGED call
       ELSE Return(t) /\ UNCHANGED lock
    /\ UNCHANGED <<queueVars, semVars, fenceVars, bufferVars, pinVars,
                   eventVars, deviceVars>>

(* Slip: the drain of vkQueueSubmit only ends on an empty queue. *)
DrainedWhenEmpty == submission = <<>>

(* drain_locked with stop_at_timeline_wait. *)
Drained == submission = <<>> \/ HeadWaitsOnTimeline

(* One turn of drain_locked in vkQueueSubmit: fail, go on to build the     *)
(* records, or give the lock up for a pause.                               *)
DrainSubmit(t) ==
    /\ pc[t] = "polled" /\ call[t].op = "submit"
    /\ IF lost THEN Return(t) /\ Release(t)
       ELSE IF Drained THEN Goto(t, "build") /\ UNCHANGED <<lock, call>>
       ELSE Goto(t, "progress") /\ Release(t) /\ UNCHANGED call
    /\ UNCHANGED <<queueVars, semVars, fenceVars, bufferVars, pinVars,
                   eventVars, deviceVars>>

Usable(b) ==
    \/ bufferState[b] = "executable"
    \/ bufferState[b] = "pending" /\ b \in Simultaneous

(* command_valid, as far as it reads state the queue changes. *)
CommandValid(b) ==
    /\ Usable(b)
    /\ \A c \in Secondaries[b] :
           Usable(c) /\ (c \notin Simultaneous => bufferPending[c] = 0)

BuffersValid(buffers) ==
    \A k \in 1..Len(buffers) :
        /\ CommandValid(buffers[k])
        /\ buffers[k] \notin Simultaneous =>
               /\ UsesIn(chain, buffers[k]) = 0
               /\ \A j \in 1..(k - 1) : buffers[j] # buffers[k]

ReferencesValid(info) ==
    LET records == submission \o chain
    IN  /\ \A b \in DOMAIN info.waits \cap Binaries : SignaledAfter(records, b)
        /\ \A b \in DOMAIN info.signals \cap Binaries :
               b \in DOMAIN info.waits \/ ~SignaledAfter(records, b)
        /\ \A x \in DOMAIN info.signals \cap Timelines :
               ExceedsAllSignals(records, x, info.signals[x])

(* expand_records: waits go to the first segment, signals to the last. *)
RecordSegments(info) ==
    LET shapes == Expansion[info.buffers]
    IN  [k \in 1..Len(shapes) |->
            [serial   |-> 0,
             fence    |-> NoFence,
             waits    |-> IF k = 1 THEN info.waits ELSE NoReferences,
             signals  |-> IF k = Len(shapes) THEN info.signals
                          ELSE NoReferences,
             buffers  |-> shapes[k].buffers,
             op       |-> shapes[k].op,
             frontend |-> shapes[k].frontend,
             deferred |-> shapes[k].indirect,
             consumed |-> FALSE,
             job      |-> FALSE]]

(* The next VkSubmitInfo: validated against everything queued before it,   *)
(* then appended to the chain; a refusal discards the whole chain.         *)
BuildRecord(t) ==
    /\ pc[t] = "build" /\ call[t].infos # <<>>
    /\ LET info == call[t].infos[1]
       IN  IF ReferencesValid(info) /\ BuffersValid(info.buffers)
           THEN /\ chain' = chain \o RecordSegments(info)
                /\ call' = [call EXCEPT ![t].infos = Tail(@)]
                /\ UNCHANGED <<lock, pc>>
           ELSE /\ chain' = <<>>
                /\ Return(t) /\ Release(t)
    /\ UNCHANGED <<submission, assigned, nextSerial, completedSerial, semVars,
                   fenceVars, bufferVars, pinVars, eventVars, deviceVars>>

(* Slips: the serial counter may pass its last value; the first segment    *)
(* already takes the second serial; the fence goes on the first segment.   *)
SerialsLeftUnchecked(n) == TRUE
SerialAtOffByOne(k) == nextSerial + k
FenceAtFirst(k, f) == IF k = 1 THEN f ELSE NoFence

SerialsLeft(n) == n <= MaxSerial - nextSerial
SerialAt(k) == nextSerial + k - 1
FenceAt(k, f) == IF k = Len(chain) THEN f ELSE NoFence

(* Slips: a queue that already waits, or frontend work earlier in the same *)
(* submission, is not a reason to prepare later.                           *)
BehindTimelineWaitHere(k) == \E j \in 1..k : TimelineUnsatisfied(chain[j])
SeenFrontendNever(k) == FALSE

BehindTimelineWait(k) ==
    submission # <<>> \/ \E j \in 1..k : TimelineUnsatisfied(chain[j])
SeenFrontend(k) == \E j \in 1..(k - 1) : chain[j].frontend

(* deferred_prepare: the native job is built when the segment reaches the  *)
(* queue head, not before.                                                 *)
DeferredAt(k) ==
    \/ chain[k].deferred
    \/ ~chain[k].frontend /\ (SeenFrontend(k) \/ BehindTimelineWait(k))

PreparedAt(k) ==
    chain[k].buffers # <<>> /\ ~chain[k].frontend /\ ~DeferredAt(k)

(* The jobs prepared for the chain so far. *)
PreparedInChain(n) == \E k \in 1..assigned : n = SerialAt(k) /\ PreparedAt(k)

(* Slip: a refused submission keeps the jobs prepared for it. *)
DiscardedNever(job) == job

(* Backend contract: prepare a fresh job, launch it once, release it once  *)
(* the backend reported it complete, or before it was ever launched.       *)
Prepared(job)  == IF job = "none" THEN "prepared" ELSE "corrupt"
Discarded(job) == IF job = "prepared" THEN "none" ELSE "corrupt"
Launched(job)  == IF job = "prepared" THEN "running" ELSE "corrupt"
Released(job)  == IF job = "done" THEN "released" ELSE "corrupt"

(* The next segment of the chain gets its serial and, if it may be         *)
(* prepared already, its native job.                                       *)
PrepareJob(t) ==
    /\ pc[t] = "build" /\ call[t].infos = <<>>
    /\ SerialsLeft(Len(chain)) /\ assigned < Len(chain)
    /\ assigned' = assigned + 1
    /\ jobs' = [n \in 1..MaxSerial |->
           IF n = SerialAt(assigned + 1) /\ PreparedAt(assigned + 1)
           THEN Prepared(jobs[n]) ELSE jobs[n]]
    /\ UNCHANGED <<threadVars, submission, chain, nextSerial, completedSerial,
                   semVars, fenceVars, bufferVars, pinVars, eventVars, lost>>

(* The end of queue_submit_locked, once the loop has passed every segment: *)
(* references are counted, buffers pinned and the chain appended.          *)
CommitSubmit(t) ==
    /\ pc[t] = "build" /\ call[t].infos = <<>>
    /\ SerialsLeft(Len(chain)) /\ assigned = Len(chain)
    /\ submission' = submission \o
           [k \in 1..Len(chain) |->
               [chain[k] EXCEPT !.serial   = SerialAt(k),
                                !.fence    = FenceAt(k, call[t].fence),
                                !.deferred = DeferredAt(k),
                                !.job      = PreparedAt(k)]]
    /\ pending' =
           [x \in Semaphores |-> pending[x] + ReferencesIn(chain, x)]
    /\ Pin(chain)
    /\ nextSerial' = nextSerial + Len(chain)
    /\ fenceSerial' = [f \in Fences |->
           IF f = call[t].fence THEN SerialAt(Len(chain)) ELSE fenceSerial[f]]
    /\ chain' = <<>> /\ assigned' = 0
    /\ call' = [call EXCEPT ![t].op = "submitted"]
    /\ Goto(t, "start")
    /\ UNCHANGED <<lock, completedSerial, signaled, value, fenceSignaled,
                   eventVars, deviceVars>>

(* The serials run out, an allocation fails, or the job of the next        *)
(* segment cannot be prepared: discard_chain releases the jobs prepared    *)
(* for the segments before it.                                             *)
RefuseSubmit(t) ==
    /\ pc[t] = "build"
    /\ \/ call[t].infos = <<>> /\ ~SerialsLeft(Len(chain))
       \/ Failures /\ assigned = 0
       \/ Failures /\ assigned < Len(chain) /\ PreparedAt(assigned + 1)
    /\ jobs' = [n \in 1..MaxSerial |->
           IF PreparedInChain(n) THEN Discarded(jobs[n]) ELSE jobs[n]]
    /\ chain' = <<>> /\ assigned' = 0
    /\ Return(t) /\ Release(t)
    /\ UNCHANGED <<submission, nextSerial, completedSerial, semVars, fenceVars,
                   bufferVars, pinVars, eventVars, lost>>
-----------------------------------------------------------------------------
(* The progress engine: poll_locked and start_submission. *)

(* A call that drives the queue takes the lock to poll it. *)
Progress(t) ==
    /\ pc[t] = "progress"
    /\ Acquire(t)
    /\ Goto(t, "poll")
    /\ UNCHANGED <<call, queueVars, semVars, fenceVars, bufferVars, pinVars,
                   eventVars, deviceVars>>

(* Slip: a head that was launched already is started again. *)
NeedsStartAlways(s) == TRUE

(* The head has no launched job to poll. *)
NeedsStart(s) == s.frontend \/ ~s.consumed \/ (s.buffers # <<>> /\ ~s.job)

(* Slip: progress goes on after the device was lost. *)
NothingToPollUnlessQueued == submission = <<>>

NothingToPoll == lost \/ submission = <<>>

PollNothing(t) ==
    /\ pc[t] = "poll"
    /\ NothingToPoll
    /\ Goto(t, "polled")
    /\ UNCHANGED <<lock, call, queueVars, semVars, fenceVars, bufferVars,
                   pinVars, eventVars, deviceVars>>

PollStart(t) ==
    /\ pc[t] = "poll"
    /\ ~NothingToPoll
    /\ NeedsStart(QueueHead)
    /\ Goto(t, "start")
    /\ UNCHANGED <<lock, call, queueVars, semVars, fenceVars, bufferVars,
                   pinVars, eventVars, deviceVars>>

(* The job still runs. *)
PollPending(t) ==
    /\ pc[t] = "poll"
    /\ ~NothingToPoll
    /\ ~NeedsStart(QueueHead)
    /\ jobs[QueueHead.serial] = "running"
    /\ Goto(t, "polled")
    /\ UNCHANGED <<lock, call, queueVars, semVars, fenceVars, bufferVars,
                   pinVars, eventVars, deviceVars>>

(* The poll fails, reports another serial, or visibility cannot be         *)
(* restored.                                                               *)
PollFailed(t) ==
    /\ pc[t] = "poll"
    /\ ~NothingToPoll
    /\ ~NeedsStart(QueueHead)
    /\ Failures
    /\ lost' = TRUE
    /\ Goto(t, "polled")
    /\ UNCHANGED <<lock, call, queueVars, semVars, fenceVars, bufferVars,
                   pinVars, eventVars, jobs>>

(* retire_signals: a timeline payload only moves forward. *)
RetireSignals(s) ==
    /\ signaled' = [b \in Binaries |-> signaled[b] \/ b \in DOMAIN s.signals]
    /\ value' = [x \in Timelines |->
           IF x \in DOMAIN s.signals /\ s.signals[x] > value[x]
           THEN s.signals[x] ELSE value[x]]

(* The head leaves the queue: its completion, signals and fence are        *)
(* published and its references to semaphores given back.                  *)
Retire ==
    /\ completedSerial' = QueueHead.serial
    /\ RetireSignals(QueueHead)
    /\ pending' =
           [x \in Semaphores |-> pending[x] - ReferencesIn(<<QueueHead>>, x)]
    /\ fenceSerial' =
           [f \in Fences |-> IF f = QueueHead.fence THEN 0 ELSE fenceSerial[f]]
    /\ fenceSignaled' = [f \in Fences |-> f = QueueHead.fence \/ fenceSignaled[f]]
    /\ submission' = Tail(submission)
    /\ UNCHANGED <<chain, assigned, nextSerial>>

(* The backend reported exactly the head's serial. *)
PollComplete(t) ==
    /\ pc[t] = "poll"
    /\ ~NothingToPoll
    /\ ~NeedsStart(QueueHead)
    /\ jobs[QueueHead.serial] = "done"
    /\ jobs' = [jobs EXCEPT ![QueueHead.serial] = Released(@)]
    /\ Unpin(QueueHead)
    /\ Retire
    /\ Goto(t, "start")
    /\ UNCHANGED <<lock, call, eventVars, lost>>

BlockedOnEvent(s) ==
    /\ s.consumed /\ s.frontend /\ s.op.kind = "wait"
    /\ ~hostSignaled[s.op.event] /\ ~deviceSignaled[s.op.event]

(* start_submission has nothing more to start. *)
StartDone(t) ==
    /\ pc[t] = "start"
    /\ \/ submission = <<>>
       \/ HeadWaitsOnTimeline
       \/ submission # <<>> /\ BlockedOnEvent(QueueHead)
    /\ Goto(t, "polled")
    /\ UNCHANGED <<lock, call, queueVars, semVars, fenceVars, bufferVars,
                   pinVars, eventVars, deviceVars>>

(* The waits of the head are consumed, once.  A binary semaphore that is   *)
(* not signaled by then loses the device.                                  *)
ConsumeWaits(t) ==
    /\ pc[t] = "start"
    /\ submission # <<>> /\ ~QueueHead.consumed /\ ~TimelineUnsatisfied(QueueHead)
    /\ signaled' =
           [b \in Binaries |-> signaled[b] /\ b \notin DOMAIN QueueHead.waits]
    /\ IF \E b \in DOMAIN QueueHead.waits \cap Binaries : ~signaled[b]
       THEN lost' = TRUE /\ Goto(t, "polled") /\ UNCHANGED submission
       ELSE /\ submission' = [submission EXCEPT ![1].consumed = TRUE]
            /\ UNCHANGED <<lost, pc>>
    /\ UNCHANGED <<lock, call, chain, assigned, nextSerial, completedSerial,
                   value, pending, fenceVars, bufferVars, pinVars, eventVars, jobs>>

(* A frontend head executes on the host and retires. *)
ExecuteFrontend(t) ==
    /\ pc[t] = "start"
    /\ submission # <<>> /\ QueueHead.consumed /\ QueueHead.frontend
    /\ ~BlockedOnEvent(QueueHead)
    /\ hostSignaled' = [e \in Events |->
           hostSignaled[e] /\ ~(QueueHead.op.kind = "reset" /\ QueueHead.op.event = e)]
    /\ deviceSignaled' = [e \in Events |->
           /\ deviceSignaled[e] \/ (QueueHead.op.kind = "set" /\ QueueHead.op.event = e)
           /\ ~(QueueHead.op.kind = "reset" /\ QueueHead.op.event = e)]
    /\ Unpin(QueueHead)
    /\ Retire
    /\ UNCHANGED <<lock, pc, call, deviceVars>>

(* A copy, query or image operation fails at the queue head. *)
FrontendFailed(t) ==
    /\ pc[t] = "start"
    /\ submission # <<>> /\ QueueHead.consumed /\ QueueHead.frontend
    /\ QueueHead.op.kind = "host"
    /\ Failures
    /\ lost' = TRUE
    /\ Goto(t, "polled")
    /\ UNCHANGED <<lock, call, queueVars, semVars, fenceVars, bufferVars,
                   pinVars, eventVars, jobs>>

(* A record without command buffers retires without backend work. *)
RetireEmpty(t) ==
    /\ pc[t] = "start"
    /\ submission # <<>> /\ QueueHead.consumed /\ ~QueueHead.frontend
    /\ QueueHead.buffers = <<>>
    /\ Retire
    /\ UNCHANGED <<lock, pc, call, bufferVars, pinVars, eventVars, deviceVars>>

ReadyToLaunch ==
    submission # <<>> /\ QueueHead.consumed /\ ~QueueHead.frontend /\ QueueHead.buffers # <<>>

(* The head's job is prepared now unless it was at submission, and         *)
(* launched.                                                               *)
LaunchHead(t) ==
    /\ pc[t] = "start"
    /\ ReadyToLaunch
    /\ QueueHead.job \/ QueueHead.deferred
    /\ submission' = [submission EXCEPT ![1].job = TRUE]
    /\ jobs' = [jobs EXCEPT ![QueueHead.serial] =
           Launched(IF QueueHead.job THEN @ ELSE Prepared(@))]
    /\ Goto(t, "polled")
    /\ UNCHANGED <<lock, call, chain, assigned, nextSerial, completedSerial,
                   semVars, fenceVars, bufferVars, pinVars, eventVars, lost>>

(* Preparing fails, or is not allowed any more; or, with the job prepared, *)
(* writing host memory back or launching fails.                            *)
LaunchFailed(t) ==
    /\ pc[t] = "start"
    /\ ReadyToLaunch
    /\ Failures \/ ~(QueueHead.job \/ QueueHead.deferred)
    /\ \/ ~QueueHead.job /\ UNCHANGED <<submission, jobs>>
       \/ /\ QueueHead.job \/ QueueHead.deferred
          /\ submission' = [submission EXCEPT ![1].job = TRUE]
          /\ jobs' = [jobs EXCEPT ![QueueHead.serial] =
                 IF QueueHead.job THEN @ ELSE Prepared(@)]
    /\ lost' = TRUE
    /\ Goto(t, "polled")
    /\ UNCHANGED <<lock, call, chain, assigned, nextSerial, completedSerial,
                   semVars, fenceVars, bufferVars, pinVars, eventVars>>

(* The GPU finishes the running job. *)
Complete(n) ==
    /\ jobs[n] = "running"
    /\ jobs' = [jobs EXCEPT ![n] = "done"]
    /\ UNCHANGED <<threadVars, queueVars, semVars, fenceVars, bufferVars,
                   pinVars, eventVars, lost>>
-----------------------------------------------------------------------------
(* The return of vkQueueSubmit once its records are queued. *)
SubmitReturns(t) ==
    /\ pc[t] = "polled" /\ call[t].op = "submitted"
    /\ Return(t) /\ Release(t)
    /\ UNCHANGED <<queueVars, semVars, fenceVars, bufferVars, pinVars,
                   eventVars, deviceVars>>

(* vkQueueWaitIdle, vkDeviceWaitIdle. *)
WaitIdleCall(t) ==
    /\ QueueIsFree /\ ~lost
    /\ Enter(t, "progress", [NoCall EXCEPT !.op = "waitIdle"])
    /\ UNCHANGED <<lock, queueVars, semVars, fenceVars, bufferVars, pinVars,
                   eventVars, deviceVars>>

(* One turn of drain_locked in vkQueueWaitIdle. *)
DrainWaitIdle(t) ==
    /\ pc[t] = "polled" /\ call[t].op = "waitIdle"
    /\ Release(t)
    /\ IF lost \/ submission = <<>> THEN Return(t)
       ELSE Goto(t, "progress") /\ UNCHANGED call
    /\ UNCHANGED <<queueVars, semVars, fenceVars, bufferVars, pinVars,
                   eventVars, deviceVars>>
-----------------------------------------------------------------------------
(* Host operations on semaphores (src/vk_sync.c). *)

(* Slips: the value need not exceed the payload, or may overtake a signal  *)
(* still queued.                                                           *)
MayOvertakeQueued(x, v) == v > value[x]
MayGoBack(x, v) ==
    \A k \in 1..Len(submission) :
        x \in DOMAIN submission[k].signals => submission[k].signals[x] > v

MayPublish(x, v) ==
    /\ v > value[x]
    /\ \A k \in 1..Len(submission) :
           x \in DOMAIN submission[k].signals => submission[k].signals[x] > v

(* vkSignalSemaphore looks at d->lost before it takes the lock. *)
SignalCall(t, x, v) ==
    /\ ~lost
    /\ Enter(t, "publish", [NoCall EXCEPT !.op = "signal",
                                          !.values = [y \in {x} |-> v]])
    /\ UNCHANGED <<lock, queueVars, semVars, fenceVars, bufferVars, pinVars,
                   eventVars, deviceVars>>

Publish(values) ==
    value' = [x \in Timelines |->
                 IF x \in DOMAIN values THEN values[x] ELSE value[x]]

(* Slip: the signal returns without starting the work it releases. *)
SignalAndReturn(t) ==
    /\ pc[t] = "publish"
    /\ lock = Nobody
    /\ IF \A x \in DOMAIN call[t].values : MayPublish(x, call[t].values[x])
       THEN Publish(call[t].values) ELSE UNCHANGED value
    /\ Return(t)
    /\ UNCHANGED <<lock, queueVars, signaled, pending, fenceVars, bufferVars,
                   pinVars, eventVars, deviceVars>>

(* It publishes the value under the lock, gives the lock up, and drives    *)
(* the queue once; a refused value returns at once.                        *)
SignalSemaphore(t) ==
    /\ pc[t] = "publish"
    /\ lock = Nobody
    /\ IF \A x \in DOMAIN call[t].values : MayPublish(x, call[t].values[x])
       THEN Publish(call[t].values) /\ Goto(t, "progress") /\ UNCHANGED call
       ELSE Return(t) /\ UNCHANGED value
    /\ UNCHANGED <<lock, queueVars, signaled, pending, fenceVars, bufferVars,
                   pinVars, eventVars, deviceVars>>

SignalReturns(t) ==
    /\ pc[t] = "polled" /\ call[t].op = "signal"
    /\ Return(t) /\ Release(t)
    /\ UNCHANGED <<queueVars, semVars, fenceVars, bufferVars, pinVars,
                   eventVars, deviceVars>>

(* vkWaitSemaphores; vkGetSemaphoreCounterValue drives the queue like a    *)
(* finite wait that times out.                                             *)
WaitSemaphoresCall(t, wait) ==
    /\ ~lost
    /\ Enter(t, "progress", [NoCall EXCEPT !.op = "waitSemaphores",
           !.values = wait.values, !.any = wait.any, !.finite = wait.finite])
    /\ UNCHANGED <<lock, queueVars, semVars, fenceVars, bufferVars, pinVars,
                   eventVars, deviceVars>>
-----------------------------------------------------------------------------
(* Fences (src/vk_fence.c). *)

FenceReady(f) == fenceSignaled[f] /\ fenceSerial[f] = 0

(* satisfied, and its counterpart for semaphores. *)
Satisfied(c) ==
    LET ready == IF c.op = "waitFences" THEN {f \in c.fences : FenceReady(f)}
                 ELSE {x \in DOMAIN c.values : value[x] >= c.values[x]}
        all   == IF c.op = "waitFences" THEN c.fences ELSE DOMAIN c.values
    IN  IF c.any THEN ready # {} ELSE ready = all

(* vkWaitForFences; vkGetFenceStatus drives the queue like a finite wait   *)
(* that times out.  Fences that are ready already need no call.            *)
WaitFencesCall(t, wait) ==
    LET c == [NoCall EXCEPT !.op = "waitFences", !.fences = wait.fences,
                            !.any = wait.any, !.finite = wait.finite]
    IN  /\ ~lost
        /\ lock = Nobody
        /\ ~Satisfied(c)
        /\ Enter(t, "again", c)
        /\ UNCHANGED <<lock, queueVars, semVars, fenceVars, bufferVars,
                       pinVars, eventVars, deviceVars>>

(* Slip: the queue is left to whoever else drives it. *)
MustDriveNever(c) == FALSE

(* A fence wait drives the queue only while one of its fences is pending. *)
MustDrive(c) == \E f \in c.fences : fenceSerial[f] # 0

WaitFencesAgain(t) ==
    /\ pc[t] = "again"
    /\ lock = Nobody
    /\ Goto(t, IF MustDrive(call[t]) THEN "progress" ELSE "check")
    /\ UNCHANGED <<lock, call, queueVars, semVars, fenceVars, bufferVars,
                   pinVars, eventVars, deviceVars>>

WaitPolled(t) ==
    /\ pc[t] = "polled" /\ call[t].op \in {"waitSemaphores", "waitFences"}
    /\ Release(t)
    /\ IF lost THEN Return(t) ELSE Goto(t, "check") /\ UNCHANGED call
    /\ UNCHANGED <<queueVars, semVars, fenceVars, bufferVars, pinVars,
                   eventVars, deviceVars>>

(* The wait is over: it succeeds, or a finite timeout has elapsed. *)
WaitReturns(t) ==
    /\ pc[t] = "check"
    /\ lock = Nobody
    /\ Satisfied(call[t]) \/ call[t].finite
    /\ Return(t)
    /\ UNCHANGED <<lock, queueVars, semVars, fenceVars, bufferVars, pinVars,
                   eventVars, deviceVars>>

WaitContinues(t) ==
    /\ pc[t] = "check"
    /\ lock = Nobody
    /\ ~Satisfied(call[t])
    /\ Goto(t, IF call[t].op = "waitFences" THEN "again" ELSE "progress")
    /\ UNCHANGED <<lock, call, queueVars, semVars, fenceVars, bufferVars,
                   pinVars, eventVars, deviceVars>>

(* vkResetFences, without the lock; the application synchronises access to *)
(* a fence it resets or submits.                                           *)
ResetFence(f) ==
    /\ fenceSerial[f] = 0 /\ fenceSignaled[f]
    /\ fenceSignaled' = [fenceSignaled EXCEPT ![f] = FALSE]
    /\ UNCHANGED <<threadVars, queueVars, semVars, fenceSerial, bufferVars,
                   pinVars, eventVars, deviceVars>>
-----------------------------------------------------------------------------
(* Host events: neither call takes the lock, so the check that no pending  *)
(* buffer waits on the event and the update are two steps.                 *)

EventCall(t, op, e) ==
    /\ ~lost
    /\ eventWaitPins[e] = {}
    /\ Enter(t, "event", [NoCall EXCEPT !.op = op, !.event = e])
    /\ UNCHANGED <<lock, queueVars, semVars, fenceVars, bufferVars, pinVars,
                   eventVars, deviceVars>>

SetEvent(t) ==
    /\ pc[t] = "event" /\ call[t].op = "setEvent"
    /\ hostSignaled' = [hostSignaled EXCEPT ![call[t].event] = TRUE]
    /\ Return(t)
    /\ UNCHANGED <<lock, queueVars, semVars, fenceVars, bufferVars, pinVars,
                   deviceSignaled, deviceVars>>

ResetEvent(t) ==
    /\ pc[t] = "event" /\ call[t].op = "resetEvent"
    /\ hostSignaled' = [hostSignaled EXCEPT ![call[t].event] = FALSE]
    /\ deviceSignaled' = [deviceSignaled EXCEPT ![call[t].event] = FALSE]
    /\ Return(t)
    /\ UNCHANGED <<lock, queueVars, semVars, fenceVars, bufferVars, pinVars,
                   deviceVars>>

(* vkBeginCommandBuffer .. vkEndCommandBuffer on a consumed buffer; the    *)
(* primaries that name it become invalid.  An application does not         *)
(* re-record a secondary of a primary that is still pending.               *)
RecordBuffer(b) ==
    /\ bufferState[b] = "invalid"
    /\ \A c \in Buffers : b \in Secondaries[c] => bufferPending[c] = 0
    /\ bufferState' = [c \in Buffers |->
           IF c = b THEN "executable"
           ELSE IF b \in Secondaries[c] THEN "invalid" ELSE bufferState[c]]
    /\ UNCHANGED <<threadVars, queueVars, semVars, fenceVars, bufferPending,
                   pinVars, eventVars, deviceVars>>
-----------------------------------------------------------------------------
NewCall(t) ==
    \/ \E infos \in SubmitCalls, f \in Fences \cup {NoFence} :
           SubmitCall(t, infos, f)
    \/ WaitIdleCall(t)
    \/ \E x \in Timelines, v \in HostValues : SignalCall(t, x, v)
    \/ \E wait \in SemaphoreWaits : WaitSemaphoresCall(t, wait)
    \/ \E wait \in FenceWaits : WaitFencesCall(t, wait)
    \/ \E op \in {"setEvent", "resetEvent"}, e \in Events : EventCall(t, op, e)

(* Steps that wait for the lock, and steps that hold it or need none. *)
TakesLock(t) ==
    \/ AdmitSubmit(t)
    \/ SignalSemaphore(t)
    \/ Progress(t)
    \/ WaitFencesAgain(t)
    \/ WaitReturns(t)
    \/ WaitContinues(t)

HoldsLock(t) ==
    \/ DrainSubmit(t) \/ BuildRecord(t) \/ PrepareJob(t) \/ CommitSubmit(t)
    \/ RefuseSubmit(t)
    \/ PollNothing(t) \/ PollStart(t) \/ PollPending(t) \/ PollFailed(t)
    \/ PollComplete(t)
    \/ StartDone(t) \/ ConsumeWaits(t) \/ ExecuteFrontend(t)
    \/ FrontendFailed(t) \/ RetireEmpty(t) \/ LaunchHead(t) \/ LaunchFailed(t)
    \/ SubmitReturns(t) \/ DrainWaitIdle(t) \/ SignalReturns(t) \/ WaitPolled(t)

Unlocked(t) == SetEvent(t) \/ ResetEvent(t)

Next ==
    \/ \E t \in Threads :
           NewCall(t) \/ TakesLock(t) \/ HoldsLock(t) \/ Unlocked(t)
    \/ \E n \in 1..MaxSerial : Complete(n)
    \/ \E f \in Fences : ResetFence(f)
    \/ \E b \in Buffers : RecordBuffer(b)

Spec == Init /\ [][Next]_vars

(* A thread inside a call keeps running and, asking again and again, gets  *)
(* the lock; the GPU finishes what it runs.  Applications owe no call.     *)
Fairness ==
    /\ \A t \in Threads :
           SF_vars(TakesLock(t)) /\ WF_vars(HoldsLock(t)) /\ WF_vars(Unlocked(t))
    /\ \A n \in 1..MaxSerial : WF_vars(Complete(n))

FairSpec == Spec /\ Fairness
-----------------------------------------------------------------------------
(* Safety. *)

(* Records whose timeline signals strictly increase and lie above the      *)
(* payload.                                                                *)
SignalsRise(records) ==
    \A i \in 1..Len(records) :
        \A x \in DOMAIN records[i].signals \cap Timelines :
            /\ records[i].signals[x] > value[x]
            /\ \A j \in 1..(i - 1) : x \in DOMAIN records[j].signals =>
                   records[j].signals[x] < records[i].signals[x]

(* The timeline signals still queued strictly increase in queue order and  *)
(* all lie above the payload: no host signal, submission or retirement     *)
(* lets one overtake another, so retiring a record always moves its        *)
(* timelines forward to exactly the value it promised (retire_signals).    *)
SignalsAhead == SignalsRise(submission)

(* Record r waits for or signals binary semaphore b when it executes. *)
RefersTo(r, b) ==
    b \in DOMAIN r.signals \/ (b \in DOMAIN r.waits /\ ~r.consumed)

(* What the i-th record finds in b: the nearest record in front of it that *)
(* refers to b signals it, or, if there is none, b is signaled already.    *)
FindsSignaled(i, b) ==
    IF \E j \in 1..(i - 1) : RefersTo(submission[j], b)
    THEN \E j \in 1..(i - 1) :
             /\ b \in DOMAIN submission[j].signals
             /\ \A k \in (j + 1)..(i - 1) : ~RefersTo(submission[k], b)
    ELSE signaled[b]

(* Every queued binary wait will find its semaphore signaled and every     *)
(* queued binary signal will find it unsignaled, whatever the records in   *)
(* front of it do: a submission that was accepted never loses the device   *)
(* for want of a semaphore (find_state against start_submission).          *)
BinariesReplay ==
    ~lost => \A i \in 1..Len(submission) : \A b \in Binaries :
        LET waits == b \in DOMAIN submission[i].waits /\ ~submission[i].consumed
        IN  /\ waits => FindsSignaled(i, b)
            /\ b \in DOMAIN submission[i].signals =>
                   waits \/ ~FindsSignaled(i, b)

(* Queued segments carry consecutive serials from the last completed one   *)
(* to the next one handed out, so the serial a backend reports names the   *)
(* head and nothing else (poll_locked: completed != s->serial).            *)
SerialsInOrder ==
    /\ \A i \in 1..Len(submission) : submission[i].serial = completedSerial + i
    /\ nextSerial = completedSerial + Len(submission) + 1

(* A fence is pending exactly when the queue holds the segment that will   *)
(* signal it, under that segment's serial, and no two segments share it;   *)
(* a pending fence is never signaled.                                      *)
FencesMatchQueue ==
    \A f \in Fences :
        /\ fenceSerial[f] = 0 =>
               \A i \in 1..Len(submission) : submission[i].fence # f
        /\ fenceSerial[f] # 0 =>
               /\ ~fenceSignaled[f]
               /\ \E i \in 1..Len(submission) :
                      /\ submission[i].fence = f
                      /\ submission[i].serial = fenceSerial[f]
                      /\ \A j \in 1..Len(submission) :
                             submission[j].fence = f => j = i

(* Lifetime counts equal what the queue references: an object destruction  *)
(* or reset is refused exactly while queued work names the object, however *)
(* many segments a buffer was split into and in whatever order they retire.*)
PinsMatchQueue ==
    /\ \A x \in Semaphores : pending[x] = ReferencesIn(submission, x)
    /\ \A b \in Buffers :
           /\ bufferPending[b] = UsesIn(submission, b)
           /\ bufferState[b] = "pending" <=> bufferPending[b] > 0
    /\ \A e \in Events :
           /\ eventPins[e] = {b \in Buffers : e \in EventRefs[b] /\
                                              bufferPending[b] > 0}
           /\ eventWaitPins[e] = {b \in Buffers : e \in EventWaitRefs[b] /\
                                                  bufferPending[b] > 0}

(* A native job is built before its segment runs only if nothing that is   *)
(* still to happen could change what it reads: no frontend work ahead of   *)
(* it, no timeline value still to be published, no indirect parameters.    *)
PreparedInTime ==
    \A i \in 1..Len(submission) :
        (submission[i].job /\ ~(i = 1 /\ submission[i].consumed)) =>
            /\ ~submission[i].deferred
            /\ \A j \in 1..i : ~submission[j].frontend /\
                                ~TimelineUnsatisfied(submission[j])

(* The backend is used within its contract: one batch in flight, and it is *)
(* the head's; every live job belongs to a segment, queued or of the chain *)
(* a submission prepares, and no job outlives its segment, so a submission *)
(* that is refused half-way keeps none; each job is prepared, launched and *)
(* released once.                                                          *)
BackendContract ==
    /\ \A n \in 1..MaxSerial :
           /\ jobs[n] # "corrupt"
           /\ jobs[n] \in {"prepared", "running", "done"} <=>
                  \/ \E i \in 1..Len(submission) :
                         submission[i].serial = n /\ submission[i].job
                  \/ PreparedInChain(n)
           /\ jobs[n] \in {"running", "done"} =>
                  submission # <<>> /\ n = QueueHead.serial /\ QueueHead.consumed

(* The queue never stalls on work it could start: once no call is under    *)
(* way under the lock and no signal is between publishing its value and    *)
(* driving the queue, the head is running, or waits for a timeline value   *)
(* or an event (vkSignalSemaphore: "leaving the released records to the    *)
(* next wait would never run them").                                       *)
NothingStalls ==
    ( /\ lock = Nobody /\ ~lost
      /\ ~ \E t \in Threads : pc[t] = "progress" /\ call[t].op = "signal" )
    => \/ submission = <<>>
       \/ HeadWaitsOnTimeline
       \/ QueueHead.consumed /\ QueueHead.frontend /\ QueueHead.op.kind = "wait"
       \/ QueueHead.consumed /\ QueueHead.job /\ jobs[QueueHead.serial] \in {"running", "done"}
-----------------------------------------------------------------------------
(* Action properties. *)

(* The payload of a timeline semaphore never decreases, whoever writes it. *)
PayloadsOnlyGrow == [][\A x \in Timelines : value'[x] >= value[x]]_value

(* After the device is lost the queue reports nothing as complete: no      *)
(* serial, no fence and no semaphore of queued work, in any later call.  A *)
(* payload moves only for a host signal that was already under way, since  *)
(* vkSignalSemaphore tests d->lost before it has the lock.                 *)
LostPublishesNothing ==
    [][lost => /\ lost'
               /\ completedSerial' = completedSerial
               /\ fenceSerial' = fenceSerial /\ signaled' = signaled
               /\ \A x \in Timelines : value'[x] # value[x] =>
                      \E t \in Threads :
                          /\ pc[t] = "publish" /\ x \in DOMAIN call[t].values
                          /\ value'[x] = call[t].values[x]]_vars
-----------------------------------------------------------------------------
(* Liveness, under FairSpec. *)

(* vkQueueSubmit always returns, even with the queue blocked on a timeline *)
(* value only the same thread will publish later (drain_locked: "waiting   *)
(* there would never end").  It relies on no call of any other thread.     *)
SubmitsReturn ==
    \A t \in Threads :
        (call[t].op \in {"submit", "submitted"}) ~> (call[t].op = "none")

(* A thread that waits on a pending fence drives the queue by itself until *)
(* the fence is signaled, the device is lost, or the queue waits for a     *)
(* timeline value that only a host signal can publish.                     *)
WaitersDriveTheQueue ==
    \A t \in Threads, f \in Fences :
        (call[t].op = "waitFences" /\ f \in call[t].fences /\ fenceSerial[f] # 0)
            ~> (fenceSerial[f] = 0 \/ lost \/ HeadWaitsOnTimeline)
-----------------------------------------------------------------------------
(* Refinement. *)

Promise == INSTANCE QueueSpec WITH
    queue   <- [k \in 1..Len(submission) |->
                   [waits   |-> submission[k].waits,
                    signals |-> submission[k].signals,
                    fence   |-> submission[k].fence,
                    started |-> submission[k].consumed]],
    fence   <- [f \in Fences |->
                   IF fenceSerial[f] # 0 THEN "pending"
                   ELSE IF fenceSignaled[f] THEN "signaled" ELSE "unsignaled"],
    MayFail <- Failures

(* For all the interleavings of threads, drains and progress calls, an     *)
(* application sees an atomic first-in first-out queue: submissions are    *)
(* accepted whole or not at all, records start and retire in order, and    *)
(* unless the backend fails the device is never lost.                      *)
ImplementsPromise == Promise!Spec
=============================================================================
