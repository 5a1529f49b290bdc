---------------------------- MODULE QueueProofs ----------------------------
(***************************************************************************)
(* Theorems of module Queue, for any number of threads, semaphores, fences *)
(* and buffers and any recordings, with a backend that may fail or not:    *)
(*                                                                         *)
(*   TypeCorrect            Spec => []TypeOK                               *)
(*   SerialsStayInOrder     Spec => []SerialsInOrder                       *)
(*   PayloadsNeverShrink    Spec => PayloadsOnlyGrow                       *)
(*   SignalsStayAhead       Spec => []SignalsAhead                         *)
(*   FencesStayMatched      Spec => []FencesMatchQueue                     *)
(*   PreparedWhenFixed      Spec => []PreparedInTime                       *)
(*   BackendWithinContract  Spec => []BackendContract                      *)
(*   QueueNeverStalls       Spec => []NothingStalls                        *)
(*   LostStaysSilent        Spec => LostPublishesNothing                   *)
(*   PinsStayMatched        Spec => []PinsMatchQueue                       *)
(*   ReplaysStayValid       Spec => []BinariesReplay                       *)
(*   QueueKeepsPromise      Spec => ImplementsPromise                      *)
(*                                                                         *)
(* Part 1.  StepKinds reduces the steps of Next to the few ways they treat *)
(* the queue: quiet, building a chain, marking the head, retiring it,      *)
(* committing a chain, a host signal and a fence reset.  Four invariants   *)
(* strengthen the first five theorems:                                     *)
(*   Locking     the lock's owner is the one thread in a critical section, *)
(*               and only while it builds is there a chain;                *)
(*   QueueCalls  at most one queue call is under way, and it builds;       *)
(*   FenceAdmitted and SignalsPromised                                     *)
(*               what vkQueueSubmit checked before it gave the lock up, or *)
(*               before the chain was queued, still holds at the commit.   *)
(*                                                                         *)
(* Part 2, native jobs and progress.  BackendContract is not inductive:    *)
(* that the head is launched once rests on where the threads are.          *)
(* Startable says that a thread in start_submission finds a head that does *)
(* not run, and one that builds records a queue that is drained;           *)
(* JobsFollow, that a job is as far as its segment, and Assigning, that    *)
(* jobs ahead of the queue belong to the chain of the thread that builds.  *)
(* NothingStalls holds only with nobody in the queue; Settled is what a    *)
(* thread leaves behind.                                                   *)
(*                                                                         *)
(* Part 3, lifetime counts.  What a queue references is counted by         *)
(* position, so the counts of a queue are the sums of those of its parts.  *)
(*                                                                         *)
(* Part 4, the promise.  Queue and QueueSpec describe binary semaphores in *)
(* different ways: the code looks, when it validates a submission, for the *)
(* last record that waits for the semaphore or signals it; the promise     *)
(* counts waits and signals.  The two are related for the positions W of   *)
(* the records that wait for one semaphore and S of those that signal it;  *)
(* then every step of Queue keeps them related, and each step is mapped to *)
(* a step of QueueSpec, or to none.                                        *)
(***************************************************************************)
EXTENDS Queue, FiniteSetTheorems, SequenceTheorems, FunctionTheorems, TLAPS

(* The number of positions of a sequence that satisfy something is a       *)
(* natural number.                                                         *)
LEMMA PositionsFinite ==
    ASSUME NEW n \in Nat, NEW S \in SUBSET (1..n)
    PROVE  IsFiniteSet(S) /\ Cardinality(S) \in Nat
<1>1. IsFiniteSet(1..n)
  BY FS_Interval
<1>2. IsFiniteSet(S)
  BY <1>1, FS_Subset
<1> QED
  BY <1>2, FS_CardinalityType

(* Uses of a buffer and references to a semaphore are natural numbers.     *)
LEMMA CountsAreNaturals ==
    ASSUME NEW records, Len(records) \in Nat
    PROVE  /\ \A x : ReferencesIn(records, x) \in Nat
           /\ \A b : UsesIn(records, b) \in Nat
<1>1. ASSUME NEW x PROVE ReferencesIn(records, x) \in Nat
  <2> DEFINE W == {k \in 1..Len(records) : x \in DOMAIN records[k].waits}
             G == {k \in 1..Len(records) : x \in DOMAIN records[k].signals}
  <2>1. W \in SUBSET (1..Len(records)) /\ G \in SUBSET (1..Len(records))
    OBVIOUS
  <2>2. Cardinality(W) \in Nat /\ Cardinality(G) \in Nat
    <3> HIDE DEF W, G
    <3> QED
      BY <2>1, PositionsFinite
  <2>3. Cardinality(W) + Cardinality(G) \in Nat
    <3> HIDE DEF W, G
    <3> QED
      BY <2>2
  <2> QED
    BY <2>3 DEF ReferencesIn
<1>2. ASSUME NEW b PROVE UsesIn(records, b) \in Nat
  <2> DEFINE P == (1..Len(records)) \X (1..MaxSubmittedBuffers)
             U == {p \in P : /\ p[2] <= Len(records[p[1]].buffers)
                             /\ records[p[1]].buffers[p[2]] = b}
  <2>1. IsFiniteSet(P)
    <3>1. IsFiniteSet(1..Len(records))
      BY PositionsFinite
    <3>2. IsFiniteSet(1..MaxSubmittedBuffers)
      BY PositionsFinite DEF MaxSubmittedBuffers
    <3> QED
      BY <3>1, <3>2, FS_Product
  <2>2. IsFiniteSet(U)
    BY <2>1, FS_Subset
  <2> QED
    BY <2>2, FS_CardinalityType DEF UsesIn
<1> QED
  BY <1>1, <1>2


(* The helpers below say what stays typed when an action leaves a group of *)
(* variables alone.                                                        *)
LEMMA UnchangedTypes ==
    ASSUME TypeOK
    PROVE  /\ UNCHANGED threadVars => ThreadTypes'
           /\ UNCHANGED queueVars  => QueueTypes'
           /\ UNCHANGED semVars    => SemaphoreTypes'
           /\ UNCHANGED fenceVars  => FenceTypes'
           /\ UNCHANGED bufferVars => BufferTypes'
           /\ UNCHANGED pinVars    => PinTypes'
           /\ UNCHANGED eventVars  => EventTypes'
           /\ UNCHANGED deviceVars => DeviceTypes'
<1>1. UNCHANGED threadVars => ThreadTypes'
  BY DEF TypeOK, ThreadTypes, threadVars
<1>2. UNCHANGED queueVars  => QueueTypes'
  BY DEF TypeOK, QueueTypes, queueVars
<1>3. UNCHANGED semVars    => SemaphoreTypes'
  BY DEF TypeOK, SemaphoreTypes, semVars
<1>4. UNCHANGED fenceVars  => FenceTypes'
  BY DEF TypeOK, FenceTypes, fenceVars
<1>5. UNCHANGED bufferVars => BufferTypes'
  BY DEF TypeOK, BufferTypes, bufferVars
<1>6. UNCHANGED pinVars    => PinTypes'
  BY DEF TypeOK, PinTypes, pinVars
<1>7. UNCHANGED eventVars  => EventTypes'
  BY DEF TypeOK, EventTypes, eventVars
<1>8. UNCHANGED deviceVars => DeviceTypes'
  BY DEF TypeOK, DeviceTypes, deviceVars
<1> QED
  BY <1>1, <1>2, <1>3, <1>4, <1>5, <1>6, <1>7, <1>8

(* No reference is a set of references, of timelines too; the values of    *)
(* references are timeline values.                                         *)
LEMMA ReferenceTypes ==
    /\ NoReferences \in References
    /\ NoReferences \in TimelineValues
    /\ \A r \in References :
           DOMAIN r \subseteq Semaphores /\ \A x \in DOMAIN r : r[x] \in Values
    /\ \A r \in TimelineValues :
           DOMAIN r \subseteq Timelines /\ \A x \in DOMAIN r : r[x] \in Values
<1>1. NoReferences \in [{} -> Values]
  BY DEF NoReferences
<1>2. {} \in SUBSET Semaphores /\ {} \in SUBSET Timelines
  OBVIOUS
<1>3. NoReferences \in References /\ NoReferences \in TimelineValues
  BY <1>1, <1>2 DEF References, TimelineValues
<1>4. ASSUME NEW r \in References
      PROVE  DOMAIN r \subseteq Semaphores /\ \A x \in DOMAIN r : r[x] \in Values
  <2>1. PICK S \in SUBSET Semaphores : r \in [S -> Values]
    BY <1>4 DEF References
  <2> QED
    BY <2>1
<1>5. ASSUME NEW r \in TimelineValues
      PROVE  DOMAIN r \subseteq Timelines /\ \A x \in DOMAIN r : r[x] \in Values
  <2>1. PICK S \in SUBSET Timelines : r \in [S -> Values]
    BY <1>5 DEF TimelineValues
  <2> QED
    BY <2>1
<1> QED
  BY <1>3, <1>4, <1>5

LEMMA NoCallType == NoCall \in Calls
<1>1. <<>> \in Seq(Infos)
  OBVIOUS
<1> QED
  BY <1>1, ReferenceTypes DEF NoCall, Calls

(* Only the thread of the step moves; it keeps its call or ends it.        *)
LEMMA GotoTypes ==
    ASSUME TypeOK, NEW t \in Threads, NEW where \in Places, Goto(t, where)
    PROVE  pc' \in [Threads -> Places]
BY DEF TypeOK, ThreadTypes, Goto

LEMMA ReturnTypes ==
    ASSUME TypeOK, NEW t \in Threads, Return(t)
    PROVE  pc' \in [Threads -> Places] /\ call' \in [Threads -> Calls]
<1>1. pc' \in [Threads -> Places]
  BY GotoTypes DEF Return, Places
<1>2. call' \in [Threads -> Calls]
  BY NoCallType DEF TypeOK, ThreadTypes, Return
<1> QED
  BY <1>1, <1>2

LEMMA EnterTypes ==
    ASSUME TypeOK, NEW t \in Threads, NEW where \in Places,
           NEW c \in Calls, Enter(t, where, c)
    PROVE  pc' \in [Threads -> Places] /\ call' \in [Threads -> Calls]
<1>1. pc' \in [Threads -> Places]
  BY GotoTypes DEF Enter
<1>2. call' \in [Threads -> Calls]
  BY DEF TypeOK, ThreadTypes, Enter
<1> QED
  BY <1>1, <1>2

(* A step that changes only threads keeps the types if it keeps theirs.    *)
LEMMA ThreadStep ==
    ASSUME TypeOK, ThreadTypes',
           UNCHANGED <<queueVars, semVars, fenceVars, bufferVars, pinVars,
                       eventVars, deviceVars>>
    PROVE  TypeOK'
BY UnchangedTypes DEF TypeOK

(* The calls an application may make carry well-typed arguments.           *)
LEMMA CallTypes ==
    ASSUME TypeOK, NEW t \in Threads, NewCall(t)
    PROVE  TypeOK'
<1> USE DEF TypeOK
<1>1. ASSUME NEW infos \in SubmitCalls, NEW f \in Fences \cup {NoFence},
             SubmitCall(t, infos, f)
      PROVE  TypeOK'
  <2> DEFINE c == [NoCall EXCEPT !.op = "submit", !.fence = f,
                       !.infos = IF infos = <<>> THEN <<EmptyInfo>> ELSE infos]
  <2>1. <<EmptyInfo>> \in Seq(Infos)
    BY QueueAssumption, ReferenceTypes DEF EmptyInfo, Infos
  <2>2. c \in Calls
    BY <2>1, NoCallType, QueueAssumption DEF Calls
  <2>3. Enter(t, "enter", c)
    BY <1>1 DEF SubmitCall
  <2>4. ThreadTypes'
    BY <2>2, <2>3, EnterTypes, <1>1 DEF SubmitCall, ThreadTypes, Places
  <2> QED
    BY <2>4, <1>1, ThreadStep DEF SubmitCall
<1>2. CASE WaitIdleCall(t)
  <2> DEFINE c == [NoCall EXCEPT !.op = "waitIdle"]
  <2>1. c \in Calls
    BY NoCallType DEF Calls
  <2>2. ThreadTypes'
    BY <2>1, EnterTypes, <1>2 DEF WaitIdleCall, ThreadTypes, Places
  <2> QED
    BY <2>2, <1>2, ThreadStep DEF WaitIdleCall
<1>3. ASSUME NEW x \in Timelines, NEW v \in HostValues, SignalCall(t, x, v)
      PROVE  TypeOK'
  <2> DEFINE r == [y \in {x} |-> v]
             c == [NoCall EXCEPT !.op = "signal", !.values = r]
  <2>1. r \in TimelineValues
    <3>1. {x} \in SUBSET Timelines /\ r \in [{x} -> Values]
      BY QueueAssumption
    <3> QED
      BY <3>1 DEF TimelineValues
  <2>2. c \in Calls
    BY <2>1, NoCallType DEF Calls
  <2>3. ThreadTypes'
    BY <2>2, EnterTypes, <1>3 DEF SignalCall, ThreadTypes, Places
  <2> QED
    BY <2>3, <1>3, ThreadStep DEF SignalCall
<1>4. ASSUME NEW wait \in SemaphoreWaits, WaitSemaphoresCall(t, wait)
      PROVE  TypeOK'
  <2> DEFINE c == [NoCall EXCEPT !.op = "waitSemaphores",
           !.values = wait.values, !.any = wait.any, !.finite = wait.finite]
  <2>1. c \in Calls
    BY NoCallType, QueueAssumption DEF Calls
  <2>2. ThreadTypes'
    BY <2>1, EnterTypes, <1>4 DEF WaitSemaphoresCall, ThreadTypes, Places
  <2> QED
    BY <2>2, <1>4, ThreadStep DEF WaitSemaphoresCall
<1>5. ASSUME NEW wait \in FenceWaits, WaitFencesCall(t, wait)
      PROVE  TypeOK'
  <2> DEFINE c == [NoCall EXCEPT !.op = "waitFences", !.fences = wait.fences,
                            !.any = wait.any, !.finite = wait.finite]
  <2>1. c \in Calls
    BY NoCallType, QueueAssumption DEF Calls
  <2>2. ThreadTypes'
    BY <2>1, EnterTypes, <1>5 DEF WaitFencesCall, ThreadTypes, Places
  <2> QED
    BY <2>2, <1>5, ThreadStep DEF WaitFencesCall
<1>6. ASSUME NEW op \in {"setEvent", "resetEvent"}, NEW e \in Events,
             EventCall(t, op, e)
      PROVE  TypeOK'
  <2> DEFINE c == [NoCall EXCEPT !.op = op, !.event = e]
  <2>1. c \in Calls
    BY NoCallType DEF Calls
  <2>2. ThreadTypes'
    BY <2>1, EnterTypes, <1>6 DEF EventCall, ThreadTypes, Places
  <2> QED
    BY <2>2, <1>6, ThreadStep DEF EventCall
<1> QED
  BY <1>1, <1>2, <1>3, <1>4, <1>5, <1>6 DEF NewCall

(* Steps that only move a thread from one place to another or end its call. *)
LEMMA MoveTypes ==
    ASSUME TypeOK, NEW t \in Threads,
           \/ AdmitSubmit(t) \/ DrainSubmit(t) \/ Progress(t)
           \/ PollNothing(t) \/ PollStart(t) \/ PollPending(t) \/ StartDone(t)
           \/ SubmitReturns(t) \/ DrainWaitIdle(t) \/ SignalReturns(t)
           \/ WaitFencesAgain(t) \/ WaitPolled(t) \/ WaitReturns(t)
           \/ WaitContinues(t)
    PROVE  TypeOK'
<1>1. CASE AdmitSubmit(t)
  BY <1>1, GotoTypes, ReturnTypes, ThreadStep
  DEF AdmitSubmit, Acquire, ThreadTypes, TypeOK, Places
<1>2. CASE DrainSubmit(t)
  BY <1>2, GotoTypes, ReturnTypes, ThreadStep
  DEF DrainSubmit, Release, ThreadTypes, TypeOK, Places
<1>3. CASE Progress(t)
  BY <1>3, GotoTypes, ThreadStep
  DEF Progress, Acquire, ThreadTypes, TypeOK, Places
<1>4. CASE PollNothing(t) \/ PollStart(t) \/ PollPending(t) \/ StartDone(t)
  BY <1>4, GotoTypes, ThreadStep
  DEF PollNothing, PollStart, PollPending, StartDone, ThreadTypes, TypeOK, Places
<1>5. CASE SubmitReturns(t) \/ SignalReturns(t)
  BY <1>5, ReturnTypes, ThreadStep
  DEF SubmitReturns, SignalReturns, Release, ThreadTypes, TypeOK
<1>6. CASE DrainWaitIdle(t)
  BY <1>6, GotoTypes, ReturnTypes, ThreadStep
  DEF DrainWaitIdle, Release, ThreadTypes, TypeOK, Places
<1>7. CASE WaitFencesAgain(t)
  BY <1>7, GotoTypes, ThreadStep
  DEF WaitFencesAgain, ThreadTypes, TypeOK, Places
<1>8. CASE WaitPolled(t)
  BY <1>8, GotoTypes, ReturnTypes, ThreadStep
  DEF WaitPolled, Release, ThreadTypes, TypeOK, Places
<1>9. CASE WaitReturns(t)
  BY <1>9, ReturnTypes, ThreadStep DEF WaitReturns, ThreadTypes, TypeOK
<1>10. CASE WaitContinues(t)
  BY <1>10, GotoTypes, ThreadStep
  DEF WaitContinues, ThreadTypes, TypeOK, Places
<1> QED
  BY <1>1, <1>2, <1>3, <1>4, <1>5, <1>6, <1>7, <1>8, <1>9, <1>10

(* The head of the queue, and what remains behind it, are well typed.      *)
LEMMA HeadTypes ==
    ASSUME TypeOK, submission # <<>>
    PROVE  /\ QueueHead \in Segments
           /\ Tail(submission) \in Seq(Segments)
           /\ Len(<<QueueHead>>) \in Nat
BY DEF TypeOK, QueueTypes, QueueHead

(* Retiring the head keeps the types of the queue, semaphores and fences.  *)
LEMMA RetireTypes ==
    ASSUME TypeOK, submission # <<>>, Retire
    PROVE  QueueTypes' /\ SemaphoreTypes' /\ FenceTypes'
<1>1. QueueHead \in Segments
  BY HeadTypes
<1>2. QueueTypes'
  BY <1>1, HeadTypes DEF Retire, TypeOK, QueueTypes, Segments
<1>3. FenceTypes'
  <2>1. fenceSignaled' \in [Fences -> BOOLEAN]
    BY DEF Retire, TypeOK, FenceTypes
  <2>2. fenceSerial' \in [Fences -> 0..MaxSerial]
    BY QueueAssumption DEF Retire, TypeOK, FenceTypes
  <2> QED
    BY <2>1, <2>2 DEF FenceTypes
<1>4. SemaphoreTypes'
  <2>1. QueueHead.signals \in References
    BY <1>1 DEF Segments
  <2>2. value' \in [Timelines -> Values]
    BY <2>1, ReferenceTypes DEF Retire, RetireSignals, TypeOK, SemaphoreTypes
  <2>3. signaled' \in [Binaries -> BOOLEAN]
    BY DEF Retire, RetireSignals, TypeOK, SemaphoreTypes
  <2>4. \A x : ReferencesIn(<<QueueHead>>, x) \in Nat
    BY HeadTypes, CountsAreNaturals
  <2>5. pending' \in [Semaphores -> Int]
    <3>1. pending \in [Semaphores -> Int]
      BY DEF TypeOK, SemaphoreTypes
    <3>2. pending' = [x \in Semaphores |->
                         pending[x] - ReferencesIn(<<QueueHead>>, x)]
      BY DEF Retire
    <3> QED
      BY <2>4, <3>1, <3>2
  <2> QED
    BY <2>2, <2>3, <2>5 DEF SemaphoreTypes
<1> QED
  BY <1>2, <1>3, <1>4

(* Marking the head as consumed, or as having a job, keeps the queue typed. *)
LEMMA MarkedHeadTypes ==
    ASSUME TypeOK, submission # <<>>
    PROVE  /\ [submission EXCEPT ![1].consumed = TRUE] \in Seq(Segments)
           /\ [submission EXCEPT ![1].job = TRUE] \in Seq(Segments)
<1> DEFINE consumed == [submission[1] EXCEPT !.consumed = TRUE]
           job      == [submission[1] EXCEPT !.job = TRUE]
<1>1. submission \in Seq(Segments) /\ 1 \in 1..Len(submission)
  BY DEF TypeOK, QueueTypes
<1>2. submission[1] \in Segments
  BY <1>1, ElementOfSeq
<1>3. consumed \in Segments /\ job \in Segments
  BY <1>2 DEF Segments
<1>4. /\ [submission EXCEPT ![1] = consumed] \in Seq(Segments)
      /\ [submission EXCEPT ![1] = job] \in Seq(Segments)
  BY <1>1, <1>3, ExceptSeq
<1> QED
  BY <1>4

(* Pinning and unpinning keep the types of buffers and of event pins.      *)
LEMMA PinningTypes ==
    ASSUME TypeOK
    PROVE  /\ Pin(chain) => BufferTypes' /\ PinTypes'
           /\ submission # <<>> /\ Unpin(QueueHead) => BufferTypes' /\ PinTypes'
<1>1. Len(chain) \in Nat
  BY DEF TypeOK, QueueTypes
<1>2. \A b : UsesIn(chain, b) \in Nat
  BY <1>1, CountsAreNaturals
<1>3. Pin(chain) => BufferTypes' /\ PinTypes'
  <2>1. Pin(chain) => BufferTypes'
    BY <1>2 DEF Pin, TypeOK, BufferTypes
  <2>2. Pin(chain) => PinTypes'
    BY DEF Pin, TypeOK, PinTypes
  <2> QED
    BY <2>1, <2>2
<1>4. ASSUME submission # <<>>, Unpin(QueueHead) PROVE BufferTypes' /\ PinTypes'
  <2>1. \A b : UsesIn(<<QueueHead>>, b) \in Nat
    BY <1>4, HeadTypes, CountsAreNaturals
  <2>2. BufferTypes'
    BY <1>4, <2>1 DEF Unpin, TypeOK, BufferTypes
  <2>3. PinTypes'
    BY <1>4 DEF Unpin, TypeOK, PinTypes
  <2> QED
    BY <2>2, <2>3
<1> QED
  BY <1>3, <1>4

(* A step of the progress engine keeps the types.                          *)
LEMMA EngineTypes ==
    ASSUME TypeOK, NEW t \in Threads,
           \/ PollFailed(t) \/ PollComplete(t) \/ ConsumeWaits(t)
           \/ ExecuteFrontend(t) \/ FrontendFailed(t) \/ RetireEmpty(t)
           \/ LaunchHead(t) \/ LaunchFailed(t)
    PROVE  TypeOK'
<1>1. CASE PollFailed(t) \/ FrontendFailed(t)
  <2>1. ThreadTypes'
    BY <1>1, GotoTypes
    DEF PollFailed, FrontendFailed, ThreadTypes, TypeOK, Places
  <2>2. DeviceTypes'
    BY <1>1 DEF PollFailed, FrontendFailed, DeviceTypes, TypeOK
  <2> QED
    BY <1>1, <2>1, <2>2, UnchangedTypes DEF PollFailed, FrontendFailed, TypeOK
<1>2. CASE PollComplete(t)
  <2>1. submission # <<>>
    BY <1>2 DEF PollComplete, NothingToPoll
  <2>2. ThreadTypes'
    BY <1>2, GotoTypes DEF PollComplete, ThreadTypes, TypeOK, Places
  <2>3. DeviceTypes'
    BY <1>2 DEF PollComplete, DeviceTypes, TypeOK, Released, JobStates
  <2> QED
    BY <1>2, <2>1, <2>2, <2>3, RetireTypes, PinningTypes, UnchangedTypes
    DEF PollComplete, TypeOK
<1>3. CASE ConsumeWaits(t)
  <2>1. submission # <<>>
    BY <1>3 DEF ConsumeWaits
  <2>2. ThreadTypes'
    BY <1>3, GotoTypes DEF ConsumeWaits, ThreadTypes, TypeOK, Places
  <2>3. SemaphoreTypes' /\ DeviceTypes'
    BY <1>3 DEF ConsumeWaits, SemaphoreTypes, DeviceTypes, TypeOK
  <2>4. QueueTypes'
    BY <1>3, <2>1, MarkedHeadTypes DEF ConsumeWaits, QueueTypes, TypeOK
  <2> QED
    BY <1>3, <2>2, <2>3, <2>4, UnchangedTypes DEF ConsumeWaits, TypeOK
<1>4. CASE ExecuteFrontend(t)
  <2>1. submission # <<>> /\ ThreadTypes'
    BY <1>4 DEF ExecuteFrontend, ThreadTypes, TypeOK
  <2>2. EventTypes'
    BY <1>4 DEF ExecuteFrontend, EventTypes, TypeOK
  <2> QED
    BY <1>4, <2>1, <2>2, RetireTypes, PinningTypes, UnchangedTypes
    DEF ExecuteFrontend, TypeOK
<1>5. CASE RetireEmpty(t)
  <2>1. submission # <<>> /\ ThreadTypes'
    BY <1>5 DEF RetireEmpty, ThreadTypes, TypeOK
  <2> QED
    BY <1>5, <2>1, RetireTypes, UnchangedTypes DEF RetireEmpty, TypeOK
<1>6. CASE LaunchHead(t) \/ LaunchFailed(t)
  <2>1. submission # <<>>
    BY <1>6 DEF LaunchHead, LaunchFailed, ReadyToLaunch
  <2>2. ThreadTypes'
    BY <1>6, GotoTypes DEF LaunchHead, LaunchFailed, ThreadTypes, TypeOK, Places
  <2>3. QueueTypes'
    BY <1>6, <2>1, MarkedHeadTypes DEF LaunchHead, LaunchFailed, QueueTypes, TypeOK
  <2>4. DeviceTypes'
    BY <1>6 DEF LaunchHead, LaunchFailed, DeviceTypes, TypeOK, Launched,
                Prepared, JobStates
  <2> QED
    BY <1>6, <2>2, <2>3, <2>4, UnchangedTypes DEF LaunchHead, LaunchFailed, TypeOK
<1> QED
  BY <1>1, <1>2, <1>3, <1>4, <1>5, <1>6

(* The segments of a record are well typed.                                *)
LEMMA RecordSegmentsTypes ==
    ASSUME NEW info \in Infos
    PROVE  RecordSegments(info) \in Seq(Segments)
<1> DEFINE shapes == Expansion[info.buffers]
           segment(k) ==
            [serial   |-> 0,
             fence    |-> NoFence,
             waits    |-> IF k = 1 THEN info.waits ELSE NoReferences,
             signals  |-> IF k = Len(shapes) THEN info.signals
                          ELSE NoReferences,
             buffers  |-> shapes[k].buffers,
             op       |-> shapes[k].op,
             frontend |-> shapes[k].frontend,
             deferred |-> shapes[k].indirect,
             consumed |-> FALSE,
             job      |-> FALSE]
<1>1. shapes \in Seq(Shapes)
  BY QueueAssumption DEF Infos
<1>2. Len(shapes) \in Nat
  BY <1>1
<1>3. ASSUME NEW k \in 1..Len(shapes) PROVE segment(k) \in Segments
  <2>1. shapes[k] \in Shapes
    BY <1>1, ElementOfSeq
  <2>2. info.waits \in References /\ info.signals \in References
    BY DEF Infos
  <2>3. 0 \in 0..MaxSerial
    BY QueueAssumption
  <2> QED
    BY <2>1, <2>2, <2>3, ReferenceTypes DEF Shapes, Segments
<1>4. [k \in 1..Len(shapes) |-> segment(k)] \in Seq(Segments)
  BY <1>2, <1>3
<1> QED
  BY <1>4 DEF RecordSegments

(* A step of vkQueueSubmit on its chain keeps the types.                   *)
LEMMA BuildTypes ==
    ASSUME TypeOK, NEW t \in Threads,
           BuildRecord(t) \/ PrepareJob(t) \/ RefuseSubmit(t)
    PROVE  TypeOK'
<1>1. CASE BuildRecord(t)
  <2>1. call[t] \in Calls /\ call[t].infos \in Seq(Infos) /\ call[t].infos # <<>>
    BY <1>1 DEF BuildRecord, TypeOK, ThreadTypes, Calls
  <2>2. call[t].infos[1] \in Infos /\ Tail(call[t].infos) \in Seq(Infos)
    BY <2>1
  <2>3. [call[t] EXCEPT !.infos = Tail(call[t].infos)] \in Calls
    BY <2>1, <2>2 DEF Calls
  <2>4. [call EXCEPT ![t].infos = Tail(@)] \in [Threads -> Calls]
    BY <2>3 DEF TypeOK, ThreadTypes
  <2>5. ThreadTypes'
    BY <1>1, <2>4, ReturnTypes
    DEF BuildRecord, Release, ThreadTypes, TypeOK
  <2>6. chain' \in Seq(Segments)
    <3>1. \/ chain' = chain \o RecordSegments(call[t].infos[1])
          \/ chain' = <<>>
      BY <1>1 DEF BuildRecord
    <3>2. /\ chain \in Seq(Segments)
          /\ RecordSegments(call[t].infos[1]) \in Seq(Segments)
      BY <2>2, RecordSegmentsTypes DEF QueueTypes, TypeOK
    <3>3. chain \o RecordSegments(call[t].infos[1]) \in Seq(Segments)
      BY <3>2, ConcatProperties
    <3>4. <<>> \in Seq(Segments)
      OBVIOUS
    <3> QED
      BY <3>1, <3>3, <3>4
  <2>7. QueueTypes'
    BY <1>1, <2>6 DEF BuildRecord, QueueTypes, TypeOK
  <2> QED
    BY <1>1, <2>5, <2>7, UnchangedTypes DEF BuildRecord, TypeOK
<1>2. CASE RefuseSubmit(t)
  <2>1. ThreadTypes'
    BY <1>2, ReturnTypes DEF RefuseSubmit, Release, ThreadTypes, TypeOK
  <2>2. QueueTypes'
    BY <1>2 DEF RefuseSubmit, QueueTypes, TypeOK
  <2>3. DeviceTypes'
    BY <1>2 DEF RefuseSubmit, DeviceTypes, TypeOK, Discarded, JobStates
  <2> QED
    BY <1>2, <2>1, <2>2, <2>3, UnchangedTypes DEF RefuseSubmit, TypeOK
<1>3. CASE PrepareJob(t)
  <2>1. QueueTypes'
    BY <1>3 DEF PrepareJob, QueueTypes, TypeOK
  <2>2. DeviceTypes'
    BY <1>3 DEF PrepareJob, DeviceTypes, TypeOK, Prepared, JobStates
  <2> QED
    BY <1>3, <2>1, <2>2, UnchangedTypes DEF PrepareJob, TypeOK
<1> QED
  BY <1>1, <1>2, <1>3

(* The segments a commit appends, with serials the counter still has.      *)
LEMMA CommitTypes ==
    ASSUME TypeOK, NEW t \in Threads, CommitSubmit(t)
    PROVE  TypeOK'
<1> DEFINE committed(k) ==
               [chain[k] EXCEPT !.serial   = SerialAt(k),
                                !.fence    = FenceAt(k, call[t].fence),
                                !.deferred = DeferredAt(k),
                                !.job      = PreparedAt(k)]
           n == Len(chain)
<1>1. /\ chain \in Seq(Segments) /\ n \in Nat
      /\ nextSerial \in 1..MaxSerial /\ MaxSerial \in Nat
      /\ call[t] \in Calls
  BY QueueAssumption DEF TypeOK, QueueTypes, ThreadTypes
<1>2. n <= MaxSerial - nextSerial
  BY DEF CommitSubmit, SerialsLeft
<1>3. \A k \in 0..n : SerialAt(k) \in 0..MaxSerial
  BY <1>1, <1>2 DEF SerialAt
<1>4. ASSUME NEW k \in 1..n PROVE committed(k) \in Segments
  <2>1. chain[k] \in Segments
    BY <1>1, ElementOfSeq
  <2>2. SerialAt(k) \in 0..MaxSerial
    BY <1>1, <1>3
  <2>3. FenceAt(k, call[t].fence) \in Fences \cup {NoFence}
    BY <1>1 DEF FenceAt, Calls
  <2>4. PreparedAt(k) \in BOOLEAN
    BY DEF PreparedAt
  <2>5. DeferredAt(k) \in BOOLEAN
    BY <2>1 DEF DeferredAt, Segments
  <2> QED
    BY <2>1, <2>2, <2>3, <2>4, <2>5 DEF Segments
<1>5. [k \in 1..n |-> committed(k)] \in Seq(Segments)
  <2> HIDE DEF committed
  <2> QED
    BY <1>1, <1>4
<1>6. submission' \in Seq(Segments)
  <2>1. submission' = submission \o [k \in 1..n |-> committed(k)]
    BY DEF CommitSubmit
  <2> QED
    BY <1>5, <2>1, ConcatProperties DEF TypeOK, QueueTypes
<1>7. QueueTypes'
  <2>1. nextSerial' = nextSerial + n /\ chain' = <<>> /\ assigned' = 0
        /\ completedSerial' = completedSerial
    BY DEF CommitSubmit
  <2> QED
    BY <1>1, <1>2, <1>6, <2>1 DEF QueueTypes, TypeOK
<1>8. ThreadTypes'
  <2>1. [call[t] EXCEPT !.op = "submitted"] \in Calls
    BY <1>1 DEF Calls
  <2> QED
    BY <2>1, GotoTypes DEF CommitSubmit, ThreadTypes, TypeOK, Places
<1>9. SemaphoreTypes'
  <2>1. \A x : ReferencesIn(chain, x) \in Nat
    BY <1>1, CountsAreNaturals
  <2>2. pending' = [x \in Semaphores |-> pending[x] + ReferencesIn(chain, x)]
        /\ UNCHANGED <<signaled, value>>
    BY DEF CommitSubmit
  <2> QED
    BY <2>1, <2>2 DEF SemaphoreTypes, TypeOK
<1>10. FenceTypes'
  <2>1. SerialAt(n) \in 0..MaxSerial
    BY <1>1, <1>3
  <2> QED
    BY <2>1 DEF CommitSubmit, FenceTypes, TypeOK
<1>11. BufferTypes' /\ PinTypes'
  BY PinningTypes DEF CommitSubmit
<1>12. DeviceTypes'
  BY UnchangedTypes DEF CommitSubmit
<1>13. EventTypes'
  BY UnchangedTypes DEF CommitSubmit
<1> QED
  BY <1>7, <1>8, <1>9, <1>10, <1>11, <1>12, <1>13 DEF TypeOK

(* Host operations on semaphores, fences and events, recording, and the    *)
(* GPU keep the types.                                                     *)
LEMMA HostTypes ==
    ASSUME TypeOK,
           \/ \E t \in Threads : SignalSemaphore(t) \/ SetEvent(t) \/ ResetEvent(t)
           \/ \E n \in 1..MaxSerial : Complete(n)
           \/ \E f \in Fences : ResetFence(f)
           \/ \E b \in Buffers : RecordBuffer(b)
    PROVE  TypeOK'
<1>1. ASSUME NEW t \in Threads, SignalSemaphore(t) PROVE TypeOK'
  <2>1. ThreadTypes'
    BY <1>1, GotoTypes, ReturnTypes DEF SignalSemaphore, ThreadTypes, TypeOK, Places
  <2>2. call[t].values \in TimelineValues
    BY DEF TypeOK, ThreadTypes, Calls
  <2>3. Publish(call[t].values) => value' \in [Timelines -> Values]
    BY <2>2, ReferenceTypes DEF Publish, TypeOK, SemaphoreTypes
  <2>4. SemaphoreTypes'
    BY <1>1, <2>3 DEF SignalSemaphore, TypeOK, SemaphoreTypes
  <2> QED
    BY <1>1, <2>1, <2>4, UnchangedTypes DEF SignalSemaphore, TypeOK
<1>2. ASSUME NEW t \in Threads, SetEvent(t) \/ ResetEvent(t) PROVE TypeOK'
  <2>1. ThreadTypes'
    BY <1>2, ReturnTypes DEF SetEvent, ResetEvent, ThreadTypes, TypeOK
  <2>2. EventTypes'
    BY <1>2 DEF SetEvent, ResetEvent, EventTypes, TypeOK
  <2> QED
    BY <1>2, <2>1, <2>2, UnchangedTypes DEF SetEvent, ResetEvent, TypeOK
<1>3. ASSUME NEW n \in 1..MaxSerial, Complete(n) PROVE TypeOK'
  <2>1. DeviceTypes'
    BY <1>3 DEF Complete, DeviceTypes, TypeOK, JobStates
  <2> QED
    BY <1>3, <2>1, UnchangedTypes DEF Complete, TypeOK
<1>4. ASSUME NEW f \in Fences, ResetFence(f) PROVE TypeOK'
  <2>1. FenceTypes'
    BY <1>4 DEF ResetFence, FenceTypes, TypeOK
  <2> QED
    BY <1>4, <2>1, UnchangedTypes DEF ResetFence, TypeOK
<1>5. ASSUME NEW b \in Buffers, RecordBuffer(b) PROVE TypeOK'
  <2>1. BufferTypes'
    BY <1>5 DEF RecordBuffer, BufferTypes, TypeOK
  <2> QED
    BY <1>5, <2>1, UnchangedTypes DEF RecordBuffer, TypeOK
<1> QED
  BY <1>1, <1>2, <1>3, <1>4, <1>5

LEMMA TypeStep == TypeOK /\ [Next]_vars => TypeOK'
<1> SUFFICES ASSUME TypeOK, [Next]_vars PROVE TypeOK'
  OBVIOUS
<1>1. ASSUME NEW t \in Threads,
             NewCall(t) \/ TakesLock(t) \/ HoldsLock(t) \/ Unlocked(t)
      PROVE  TypeOK'
  BY <1>1, CallTypes, MoveTypes, EngineTypes, BuildTypes, CommitTypes, HostTypes
  DEF TakesLock, HoldsLock, Unlocked
<1>2. CASE UNCHANGED vars
  BY <1>2, UnchangedTypes DEF vars, TypeOK
<1> QED
  BY <1>1, <1>2, HostTypes DEF Next

LEMMA TypeInit == Init => TypeOK
<1> SUFFICES ASSUME Init PROVE TypeOK
  OBVIOUS
<1> USE QueueAssumption DEF Init
<1>1. ThreadTypes
  BY NoCallType DEF ThreadTypes, Places
<1>2. QueueTypes
  BY DEF QueueTypes
<1>3. SemaphoreTypes
  BY DEF SemaphoreTypes, Values
<1>4. FenceTypes /\ BufferTypes /\ PinTypes
  BY DEF FenceTypes, BufferTypes, PinTypes
<1>5. EventTypes /\ DeviceTypes
  BY DEF EventTypes, DeviceTypes, JobStates
<1> QED
  BY <1>1, <1>2, <1>3, <1>4, <1>5 DEF TypeOK

(* Every variable keeps the type its field has in the code: no serial      *)
(* passes the last one, no payload leaves its range.                       *)
THEOREM TypeCorrect == Spec => []TypeOK
<1> QED
  BY TypeInit, TypeStep, PTL DEF Spec
-----------------------------------------------------------------------------
(* What a step may do to the queue, the timelines and the fences: every    *)
(* action is one of seven kinds of step.                                   *)

Marks(s) ==
    \/ s = [submission EXCEPT ![1].consumed = TRUE]
    \/ s = [submission EXCEPT ![1].job = TRUE]

QuietStep ==
    UNCHANGED <<submission, chain, nextSerial, completedSerial, value, fenceVars>>
BuildStep ==
    /\ UNCHANGED <<submission, nextSerial, completedSerial, value, fenceVars>>
    /\ \E t \in Threads : BuildRecord(t) \/ RefuseSubmit(t)
MarkStep ==
    /\ submission # <<>> /\ Marks(submission')
    /\ UNCHANGED <<chain, nextSerial, completedSerial, value, fenceVars>>
RetireStep ==
    /\ submission # <<>> /\ Retire
    /\ \E t \in Threads : pc[t] \in {"poll", "start"}
ResetStep ==
    /\ UNCHANGED <<queueVars, value, fenceSerial>>
    /\ \E f \in Fences : ResetFence(f)

LEMMA StepKinds ==
    ASSUME [Next]_vars
    PROVE  \/ QuietStep \/ BuildStep \/ MarkStep \/ RetireStep \/ ResetStep
           \/ \E t \in Threads : CommitSubmit(t) \/ SignalSemaphore(t)
<1> USE DEF queueVars, semVars, fenceVars
<1>1. ASSUME NEW t \in Threads, NewCall(t) PROVE QuietStep
  BY <1>1 DEF NewCall, SubmitCall, WaitIdleCall, SignalCall, WaitSemaphoresCall,
              WaitFencesCall, EventCall, QuietStep
<1>2. ASSUME NEW t \in Threads, TakesLock(t)
      PROVE  QuietStep \/ SignalSemaphore(t)
  BY <1>2 DEF TakesLock, AdmitSubmit, Progress, WaitFencesAgain, WaitReturns,
              WaitContinues, QuietStep
<1>3. ASSUME NEW t \in Threads, HoldsLock(t)
      PROVE  QuietStep \/ BuildStep \/ MarkStep \/ RetireStep \/ CommitSubmit(t)
  <2>1. CASE DrainSubmit(t) \/ SubmitReturns(t) \/ DrainWaitIdle(t)
             \/ SignalReturns(t) \/ WaitPolled(t) \/ PrepareJob(t)
    BY <2>1 DEF DrainSubmit, SubmitReturns, DrainWaitIdle, SignalReturns,
                WaitPolled, PrepareJob, QuietStep
  <2>2. CASE BuildRecord(t) \/ RefuseSubmit(t)
    BY <2>2 DEF BuildRecord, RefuseSubmit, BuildStep
  <2>3. CASE PollNothing(t) \/ PollStart(t) \/ PollPending(t) \/ PollFailed(t)
             \/ StartDone(t) \/ FrontendFailed(t)
    BY <2>3 DEF PollNothing, PollStart, PollPending, PollFailed, StartDone,
                FrontendFailed, QuietStep
  <2>4. CASE PollComplete(t) \/ ExecuteFrontend(t) \/ RetireEmpty(t)
    BY <2>4 DEF PollComplete, ExecuteFrontend, RetireEmpty, NothingToPoll,
                RetireStep
  <2>5. CASE ConsumeWaits(t)
    BY <2>5 DEF ConsumeWaits, MarkStep, QuietStep, Marks
  <2>6. CASE LaunchHead(t) \/ LaunchFailed(t)
    BY <2>6 DEF LaunchHead, LaunchFailed, ReadyToLaunch, MarkStep, QuietStep, Marks
  <2> QED
    BY <1>3, <2>1, <2>2, <2>3, <2>4, <2>5, <2>6 DEF HoldsLock
<1>4. ASSUME NEW t \in Threads, Unlocked(t) PROVE QuietStep
  BY <1>4 DEF Unlocked, SetEvent, ResetEvent, QuietStep
<1>5. ASSUME NEW n \in 1..MaxSerial, Complete(n) PROVE QuietStep
  BY <1>5 DEF Complete, QuietStep
<1>6. ASSUME NEW f \in Fences, ResetFence(f) PROVE ResetStep
  BY <1>6 DEF ResetFence, ResetStep
<1>7. ASSUME NEW b \in Buffers, RecordBuffer(b) PROVE QuietStep
  BY <1>7 DEF RecordBuffer, QuietStep
<1>8. CASE UNCHANGED vars
  BY <1>8 DEF vars, QuietStep
<1> QED
  BY <1>1, <1>2, <1>3, <1>4, <1>5, <1>6, <1>7, <1>8 DEF Next

(* Marking the head changes neither the length of the queue nor any serial, *)
(* reference or fence of a record.                                         *)
LEMMA MarkedRecords ==
    ASSUME TypeOK, submission # <<>>, Marks(submission')
    PROVE  /\ Len(submission') = Len(submission)
           /\ \A i \in 1..Len(submission) :
                  /\ submission'[i].serial  = submission[i].serial
                  /\ submission'[i].signals = submission[i].signals
                  /\ submission'[i].fence   = submission[i].fence
<1>1. submission \in Seq(Segments) /\ Len(submission) \in Nat
      /\ 1 \in 1..Len(submission)
  BY DEF TypeOK, QueueTypes
<1>2. \A i \in 1..Len(submission) : submission[i] \in Segments
  BY <1>1, ElementOfSeq
<1>3. CASE submission' = [submission EXCEPT ![1].consumed = TRUE]
  BY <1>1, <1>2, <1>3 DEF Segments
<1>4. CASE submission' = [submission EXCEPT ![1].job = TRUE]
  BY <1>1, <1>2, <1>4 DEF Segments
<1> QED
  BY <1>3, <1>4 DEF Marks

(* Retiring the head shifts the records behind it.                         *)
LEMMA RetiredRecords ==
    ASSUME TypeOK, submission # <<>>, Retire
    PROVE  /\ Len(submission) \in Nat \ {0}
           /\ Len(submission') = Len(submission) - 1
           /\ \A i \in 1..Len(submission') : submission'[i] = submission[i + 1]
BY HeadTailProperties, EmptySeq DEF TypeOK, QueueTypes, Retire

(* A commit leaves the queued records where they are and puts those of the *)
(* chain behind them, with a serial and, the last one, the fence.          *)
LEMMA CommittedRecords ==
    ASSUME TypeOK, NEW t \in Threads, CommitSubmit(t)
    PROVE  /\ Len(submission) \in Nat /\ Len(chain) \in Nat
           /\ Len(submission') = Len(submission) + Len(chain)
           /\ \A i \in 1..Len(submission) : submission'[i] = submission[i]
           /\ \A k \in 1..Len(chain) :
                  /\ submission'[Len(submission) + k].serial  = SerialAt(k)
                  /\ submission'[Len(submission) + k].signals = chain[k].signals
                  /\ submission'[Len(submission) + k].fence =
                         FenceAt(k, call[t].fence)
<1> DEFINE committed(k) ==
               [chain[k] EXCEPT !.serial   = SerialAt(k),
                                !.fence    = FenceAt(k, call[t].fence),
                                !.deferred = DeferredAt(k),
                                !.job      = PreparedAt(k)]
           n == Len(chain)
           added == [k \in 1..n |-> committed(k)]
<1>1. /\ submission \in Seq(Segments) /\ Len(submission) \in Nat
      /\ chain \in Seq(Segments) /\ n \in Nat
  BY DEF TypeOK, QueueTypes
<1>2. submission' = submission \o added
  BY DEF CommitSubmit
<1>3. ASSUME NEW k \in 1..n
      PROVE  /\ committed(k).serial  = SerialAt(k)
             /\ committed(k).signals = chain[k].signals
             /\ committed(k).fence   = FenceAt(k, call[t].fence)
  <2>1. chain[k] \in Segments
    BY <1>1, ElementOfSeq
  <2> QED
    BY <2>1 DEF Segments
<1>4. /\ Len(submission') = Len(submission) + n
      /\ \A i \in 1..Len(submission) : submission'[i] = submission[i]
      /\ \A k \in 1..n : submission'[Len(submission) + k] = committed(k)
  <2> HIDE DEF committed
  <2>1. added \in Seq({committed(k) : k \in 1..n}) /\ Len(added) = n
    BY <1>1
  <2> QED
    BY <1>1, <1>2, <2>1
<1> QED
  BY <1>1, <1>3, <1>4
-----------------------------------------------------------------------------
(* Serials. *)

LEMMA SerialsStep ==
    ASSUME TypeOK, SerialsInOrder, [Next]_vars
    PROVE  SerialsInOrder'
<1>1. /\ Len(submission) \in Nat /\ Len(chain) \in Nat
      /\ nextSerial \in Nat /\ completedSerial \in Nat
      /\ \A i \in 1..Len(submission) : submission[i].serial = completedSerial + i
      /\ nextSerial = completedSerial + Len(submission) + 1
  BY QueueAssumption DEF TypeOK, QueueTypes, SerialsInOrder
<1>2. CASE QuietStep \/ BuildStep \/ ResetStep
           \/ \E t \in Threads : SignalSemaphore(t)
  BY <1>2 DEF QuietStep, BuildStep, ResetStep, SignalSemaphore, queueVars,
              SerialsInOrder
<1>3. CASE MarkStep
  BY <1>1, <1>3, MarkedRecords DEF MarkStep, SerialsInOrder
<1>4. CASE RetireStep
  <2>1. /\ Len(submission) \in Nat \ {0}
        /\ Len(submission') = Len(submission) - 1
        /\ \A i \in 1..Len(submission') : submission'[i] = submission[i + 1]
    BY <1>4, RetiredRecords DEF RetireStep
  <2>2. completedSerial' = completedSerial + 1 /\ nextSerial' = nextSerial
    BY <1>1, <1>4, <2>1 DEF RetireStep, Retire, QueueHead
  <2>3. ASSUME NEW i \in 1..Len(submission')
        PROVE  submission'[i].serial = completedSerial' + i
    <3>1. i \in Nat /\ i + 1 \in 1..Len(submission)
      BY <1>1, <2>1
    <3>2. submission[i + 1].serial = completedSerial + (i + 1)
      BY <1>1, <3>1
    <3>3. submission'[i] = submission[i + 1]
      BY <2>1
    <3>4. completedSerial + (i + 1) = completedSerial' + i
      BY <1>1, <2>2, <3>1
    <3> QED
      BY <3>2, <3>3, <3>4
  <2>4. nextSerial' = completedSerial' + Len(submission') + 1
    BY <1>1, <2>1, <2>2
  <2> QED
    BY <2>3, <2>4 DEF SerialsInOrder
<1>5. ASSUME NEW t \in Threads, CommitSubmit(t) PROVE SerialsInOrder'
  <2>1. /\ Len(submission') = Len(submission) + Len(chain)
        /\ \A i \in 1..Len(submission) : submission'[i] = submission[i]
        /\ \A k \in 1..Len(chain) :
               submission'[Len(submission) + k].serial = SerialAt(k)
    BY <1>5, CommittedRecords
  <2>2. completedSerial' = completedSerial /\ nextSerial' = nextSerial + Len(chain)
    BY <1>5 DEF CommitSubmit
  <2>3. ASSUME NEW i \in 1..Len(submission')
        PROVE  submission'[i].serial = completedSerial' + i
    <3>1. i \in Nat /\ i <= Len(submission) + Len(chain)
      BY <1>1, <2>1
    <3>2. CASE i <= Len(submission)
      <4>1. i \in 1..Len(submission)
        BY <1>1, <3>1, <3>2
      <4> QED
        BY <1>1, <2>1, <2>2, <4>1
    <3>3. CASE i > Len(submission)
      <4> DEFINE k == i - Len(submission)
      <4>1. k \in 1..Len(chain) /\ i = Len(submission) + k
        BY <1>1, <3>1, <3>3
      <4>2. submission'[i].serial = nextSerial + k - 1
        BY <2>1, <4>1 DEF SerialAt
      <4> QED
        BY <1>1, <2>2, <4>1, <4>2
    <3> QED
      BY <1>1, <3>1, <3>2, <3>3
  <2>4. nextSerial' = completedSerial' + Len(submission') + 1
    BY <1>1, <2>1, <2>2
  <2> QED
    BY <2>3, <2>4 DEF SerialsInOrder
<1> QED
  BY <1>2, <1>3, <1>4, <1>5, StepKinds

(* The serial a backend reports names the head of the queue and nothing    *)
(* else, for any number of threads, segments and failures.                 *)
THEOREM SerialsStayInOrder == Spec => []SerialsInOrder
<1>1. Init => SerialsInOrder
  BY DEF Init, SerialsInOrder
<1>2. TypeOK /\ SerialsInOrder /\ [Next]_vars => SerialsInOrder'
  BY SerialsStep
<1> QED
  BY <1>1, <1>2, TypeCorrect, PTL DEF Spec
-----------------------------------------------------------------------------
(* Timeline payloads. *)

(* Whoever writes it, a payload is replaced by a larger one.               *)
LEMMA PayloadsGrowStep ==
    ASSUME TypeOK, [Next]_vars
    PROVE  \A x \in Timelines : value'[x] >= value[x]
<1>1. \A x \in Timelines : value[x] \in Int
  BY QueueAssumption DEF TypeOK, SemaphoreTypes, Values
<1>2. CASE QuietStep \/ BuildStep \/ MarkStep \/ ResetStep
  BY <1>1, <1>2 DEF QuietStep, BuildStep, MarkStep, ResetStep
<1>3. CASE RetireStep
  <2>1. QueueHead.signals \in References
    BY <1>3, HeadTypes DEF RetireStep, Segments
  <2>2. \A x \in DOMAIN QueueHead.signals : QueueHead.signals[x] \in Int
    BY <2>1, ReferenceTypes, QueueAssumption DEF Values
  <2> QED
    BY <1>1, <1>3, <2>2 DEF RetireStep, Retire, RetireSignals
<1>4. ASSUME NEW t \in Threads, SignalSemaphore(t)
      PROVE  \A x \in Timelines : value'[x] >= value[x]
  <2>1. call[t].values \in TimelineValues
    BY DEF TypeOK, ThreadTypes, Calls
  <2>2. \A x \in DOMAIN call[t].values : call[t].values[x] \in Int
    BY <2>1, ReferenceTypes, QueueAssumption DEF Values
  <2> QED
    BY <1>1, <1>4, <2>2 DEF SignalSemaphore, MayPublish, Publish
<1>5. ASSUME NEW t \in Threads, CommitSubmit(t)
      PROVE  \A x \in Timelines : value'[x] >= value[x]
  <2>1. value' = value
    BY <1>5 DEF CommitSubmit
  <2> QED
    BY <1>1, <2>1
<1> QED
  BY <1>2, <1>3, <1>4, <1>5, StepKinds

(* The payload of a timeline semaphore never decreases.                    *)
THEOREM PayloadsNeverShrink == Spec => PayloadsOnlyGrow
<1>1. TypeOK /\ [Next]_vars => [\A x \in Timelines : value'[x] >= value[x]]_value
  BY PayloadsGrowStep
<1> QED
  BY <1>1, TypeCorrect, PTL DEF Spec, PayloadsOnlyGrow
-----------------------------------------------------------------------------
(* The lock: a thread inside the queue owns it, and a chain exists only    *)
(* while its thread builds it.                                             *)

Inside == {"poll", "start", "polled", "build"}

MutualExclusion == \A t \in Threads : pc[t] \in Inside => lock = t

ChainIsBuilt == chain # <<>> => \E t \in Threads : pc[t] = "build"

Locking == MutualExclusion /\ ChainIsBuilt

(* Steps of a thread outside the queue, and of none.                       *)
LEMMA OutsideLocking ==
    ASSUME TypeOK, MutualExclusion, NEW t \in Threads,
           NewCall(t) \/ TakesLock(t) \/ Unlocked(t)
    PROVE  MutualExclusion'
<1> USE DEF TypeOK, ThreadTypes, Inside, MutualExclusion
<1>1. CASE NewCall(t)
  <2>1. lock' = lock /\ pc[t] = "idle"
        /\ \E w \in Places \ Inside : pc' = [pc EXCEPT ![t] = w]
    BY <1>1 DEF NewCall, SubmitCall, WaitIdleCall, SignalCall, EventCall,
                WaitSemaphoresCall, WaitFencesCall, Enter, Goto, Places
  <2> QED
    BY <2>1
<1>2. CASE AdmitSubmit(t) \/ Progress(t)
  BY <1>2, QueueAssumption DEF AdmitSubmit, Progress, Acquire, Return, Goto
<1>3. CASE SignalSemaphore(t) \/ WaitFencesAgain(t) \/ WaitReturns(t)
           \/ WaitContinues(t)
  BY <1>3, QueueAssumption DEF SignalSemaphore, WaitFencesAgain, WaitReturns,
     WaitContinues, Return, Goto
<1>4. CASE SetEvent(t) \/ ResetEvent(t)
  BY <1>4 DEF SetEvent, ResetEvent, Return, Goto
<1> QED
  BY <1>1, <1>2, <1>3, <1>4 DEF TakesLock, Unlocked

(* Steps of the thread that owns the lock.                                 *)
LEMMA InsideLocking ==
    ASSUME TypeOK, MutualExclusion, NEW t \in Threads, HoldsLock(t)
    PROVE  MutualExclusion' /\ pc[t] \in Inside /\ lock = t
<1> USE DEF TypeOK, ThreadTypes, Inside, MutualExclusion
<1>1. CASE DrainSubmit(t) \/ SubmitReturns(t) \/ DrainWaitIdle(t)
           \/ SignalReturns(t) \/ WaitPolled(t)
  BY <1>1, QueueAssumption DEF DrainSubmit, SubmitReturns, DrainWaitIdle,
     SignalReturns, WaitPolled, Return, Release, Goto
<1>2. CASE BuildRecord(t) \/ PrepareJob(t) \/ RefuseSubmit(t)
  BY <1>2, QueueAssumption
  DEF BuildRecord, PrepareJob, RefuseSubmit, Return, Release, Goto, threadVars
<1>3. CASE CommitSubmit(t)
  <2>1. pc[t] = "build" /\ lock' = lock /\ pc' = [pc EXCEPT ![t] = "start"]
    BY <1>3 DEF CommitSubmit, Goto
  <2> QED
    BY <2>1
<1>4. CASE PollNothing(t) \/ PollStart(t) \/ PollPending(t) \/ PollFailed(t)
           \/ StartDone(t) \/ FrontendFailed(t)
  BY <1>4 DEF PollNothing, PollStart, PollPending, PollFailed, StartDone,
     FrontendFailed, Goto
<1>5. CASE PollComplete(t) \/ ExecuteFrontend(t) \/ RetireEmpty(t)
  BY <1>5 DEF PollComplete, ExecuteFrontend, RetireEmpty, Goto
<1>6. CASE ConsumeWaits(t) \/ LaunchHead(t) \/ LaunchFailed(t)
  BY <1>6 DEF ConsumeWaits, LaunchHead, LaunchFailed, Goto
<1> QED
  BY <1>1, <1>2, <1>3, <1>4, <1>5, <1>6 DEF HoldsLock

LEMMA ExclusionStep ==
    ASSUME TypeOK, MutualExclusion, [Next]_vars
    PROVE  MutualExclusion'
<1>1. ASSUME \/ \E n \in 1..MaxSerial : Complete(n)
             \/ \E f \in Fences : ResetFence(f)
             \/ \E b \in Buffers : RecordBuffer(b)
             \/ UNCHANGED vars
      PROVE  MutualExclusion'
  BY <1>1 DEF Complete, ResetFence, RecordBuffer, vars, threadVars, MutualExclusion
<1> QED
  BY <1>1, OutsideLocking, InsideLocking DEF Next

(* The chain is empty whenever a thread leaves "build".                    *)
LEMMA ChainStep ==
    ASSUME TypeOK, Locking, [Next]_vars
    PROVE  ChainIsBuilt'
<1> USE DEF ChainIsBuilt
<1>1. ASSUME NEW u \in Threads, pc[u] = "build", chain' = chain,
             NEW t \in Threads, pc[t] # "build", NEW w,
             pc' = [pc EXCEPT ![t] = w]
      PROVE  pc'[u] = "build"
  BY <1>1 DEF TypeOK, ThreadTypes
<1>2. ASSUME NEW t \in Threads, HoldsLock(t), chain' # <<>>
      PROVE  \E u \in Threads : pc'[u] = "build"
  <2>1. pc[t] \in Inside /\ lock = t
    BY <1>2, InsideLocking DEF Locking
  <2>2. CASE pc[t] = "build"
    <3>1. BuildRecord(t) \/ PrepareJob(t)
      BY <1>2, <2>2 DEF HoldsLock, DrainSubmit, SubmitReturns, DrainWaitIdle,
         SignalReturns, WaitPolled, RefuseSubmit, CommitSubmit, PollNothing,
         PollStart, PollPending, PollFailed, StartDone, FrontendFailed,
         PollComplete, ExecuteFrontend, RetireEmpty, ConsumeWaits, LaunchHead,
         LaunchFailed
    <3> QED
      BY <1>2, <2>2, <3>1 DEF BuildRecord, PrepareJob, threadVars
  <2>3. CASE pc[t] # "build"
    <3>1. chain = <<>>
      BY <2>1, <2>3 DEF Locking, MutualExclusion, Inside
    <3>2. chain' = chain
      BY <1>2, <2>3 DEF HoldsLock, DrainSubmit, BuildRecord, CommitSubmit,
         PrepareJob, RefuseSubmit, SubmitReturns, DrainWaitIdle, SignalReturns, WaitPolled,
         PollNothing, PollStart, PollPending, PollFailed, StartDone,
         FrontendFailed, PollComplete, ExecuteFrontend, RetireEmpty, Retire,
         ConsumeWaits, LaunchHead, LaunchFailed, queueVars
    <3> QED
      BY <1>2, <3>1, <3>2
  <2> QED
    BY <2>2, <2>3
<1>3. ASSUME NEW t \in Threads, NewCall(t) \/ TakesLock(t) \/ Unlocked(t)
      PROVE  chain' = chain /\ pc[t] # "build"
             /\ \E w : pc' = [pc EXCEPT ![t] = w]
  <2>1. CASE NewCall(t)
    BY <2>1 DEF NewCall, SubmitCall, WaitIdleCall, SignalCall, EventCall,
                WaitSemaphoresCall, WaitFencesCall, Enter, Goto, queueVars
  <2>2. CASE TakesLock(t)
    BY <2>2 DEF TakesLock, AdmitSubmit, SignalSemaphore, Progress,
       WaitFencesAgain, WaitReturns, WaitContinues, Return, Goto, queueVars
  <2>3. CASE Unlocked(t)
    BY <2>3 DEF Unlocked, SetEvent, ResetEvent, Return, Goto, queueVars
  <2> QED
    BY <1>3, <2>1, <2>2, <2>3
<1>4. ASSUME \/ \E n \in 1..MaxSerial : Complete(n)
             \/ \E f \in Fences : ResetFence(f)
             \/ \E b \in Buffers : RecordBuffer(b)
             \/ UNCHANGED vars
      PROVE  chain' = chain /\ pc' = pc
  BY <1>4 DEF Complete, ResetFence, RecordBuffer, vars, threadVars, queueVars
<1> QED
  BY <1>1, <1>2, <1>3, <1>4 DEF Next, Locking

LEMMA LockingInvariant == Spec => []Locking
<1>1. Init => Locking
  BY DEF Init, Locking, MutualExclusion, ChainIsBuilt, Inside
<1>2. TypeOK /\ Locking /\ [Next]_vars => Locking'
  BY ExclusionStep, ChainStep DEF Locking
<1> QED
  BY <1>1, <1>2, TypeCorrect, PTL DEF Spec
-----------------------------------------------------------------------------
(* Timeline signals.  The invariant covers the chain under construction:   *)
(* its records are validated before they are queued.                       *)

ChainFollows ==
    \A i \in 1..Len(submission), k \in 1..Len(chain) :
        \A x \in DOMAIN submission[i].signals
                     \cap DOMAIN chain[k].signals \cap Timelines :
            submission[i].signals[x] < chain[k].signals[x]

SignalsPromised == SignalsRise(submission) /\ SignalsRise(chain) /\ ChainFollows

LEMMA SignalValues ==
    ASSUME TypeOK
    PROVE  /\ Len(submission) \in Nat /\ Len(chain) \in Nat
           /\ \A x \in Timelines : value[x] \in Int
           /\ \A i \in 1..Len(submission) : \A x \in DOMAIN submission[i].signals :
                  submission[i].signals[x] \in Int
           /\ \A k \in 1..Len(chain) : \A x \in DOMAIN chain[k].signals :
                  chain[k].signals[x] \in Int
<1>1. submission \in Seq(Segments) /\ chain \in Seq(Segments)
  BY DEF TypeOK, QueueTypes
<1>2. \A r \in References : \A x \in DOMAIN r : r[x] \in Int
  BY ReferenceTypes, QueueAssumption DEF Values
<1>3. ASSUME NEW i \in 1..Len(submission)
      PROVE  submission[i].signals \in References
  <2>1. submission[i] \in Segments
    BY <1>1, ElementOfSeq
  <2> QED
    BY <2>1 DEF Segments
<1>4. ASSUME NEW k \in 1..Len(chain) PROVE chain[k].signals \in References
  <2>1. chain[k] \in Segments
    BY <1>1, ElementOfSeq
  <2> QED
    BY <2>1 DEF Segments
<1>5. \A x \in Timelines : value[x] \in Int
  BY QueueAssumption DEF TypeOK, SemaphoreTypes, Values
<1> QED
  BY <1>1, <1>2, <1>3, <1>4, <1>5

(* No chain exists while the queue retires a record or the lock is free.   *)
LEMMA ChainEmpty ==
    ASSUME Locking,
           \/ \E t \in Threads : pc[t] \in {"poll", "start"}
           \/ lock = Nobody
    PROVE  chain = <<>>
BY QueueAssumption DEF Locking, MutualExclusion, ChainIsBuilt, Inside

LEMMA PromiseOnMark ==
    ASSUME TypeOK, SignalsPromised, MarkStep
    PROVE  SignalsPromised'
<1>1. /\ Len(submission') = Len(submission) /\ chain' = chain /\ value' = value
      /\ \A i \in 1..Len(submission) : submission'[i].signals = submission[i].signals
  BY MarkedRecords DEF MarkStep
<1>2. SignalsRise(submission)'
  <2>1. ASSUME NEW i \in 1..Len(submission),
               NEW x \in DOMAIN submission[i].signals \cap Timelines
        PROVE  /\ submission'[i].signals[x] > value'[x]
               /\ \A j \in 1..(i - 1) : x \in DOMAIN submission'[j].signals =>
                      submission'[j].signals[x] < submission'[i].signals[x]
    <3>1. \A j \in 1..(i - 1) : j \in 1..Len(submission)
      BY SignalValues
    <3> QED
      BY <1>1, <3>1 DEF SignalsPromised, SignalsRise
  <2> QED
    BY <1>1, <2>1 DEF SignalsRise
<1>3. SignalsRise(chain)'
  BY <1>1 DEF SignalsPromised, SignalsRise
<1>4. ChainFollows'
  BY <1>1 DEF SignalsPromised, ChainFollows
<1> QED
  BY <1>2, <1>3, <1>4 DEF SignalsPromised

LEMMA PromiseOnRetire ==
    ASSUME TypeOK, Locking, SignalsPromised, RetireStep
    PROVE  SignalsPromised'
<1>1. chain' = <<>>
  BY ChainEmpty DEF RetireStep, Retire
<1>2. /\ Len(submission) \in Nat \ {0}
      /\ Len(submission') = Len(submission) - 1
      /\ \A i \in 1..Len(submission') : submission'[i] = submission[i + 1]
  BY RetiredRecords DEF RetireStep
<1>3. ASSUME NEW i \in 1..Len(submission'),
             NEW x \in DOMAIN submission'[i].signals \cap Timelines
      PROVE  /\ submission'[i].signals[x] > value'[x]
             /\ \A j \in 1..(i - 1) : x \in DOMAIN submission'[j].signals =>
                    submission'[j].signals[x] < submission'[i].signals[x]
  <2>1. i \in Nat /\ i + 1 \in 1..Len(submission) /\ 1 \in 1..Len(submission)
        /\ 1 \in 1..((i + 1) - 1)
    BY <1>2
  <2>2. submission'[i] = submission[i + 1]
    BY <1>2
  <2>3. /\ submission[i + 1].signals[x] > value[x]
        /\ \A j \in 1..((i + 1) - 1) : x \in DOMAIN submission[j].signals =>
               submission[j].signals[x] < submission[i + 1].signals[x]
    BY <2>1, <2>2 DEF SignalsPromised, SignalsRise
  <2>4. value'[x] = IF x \in DOMAIN submission[1].signals /\
                       submission[1].signals[x] > value[x]
                    THEN submission[1].signals[x] ELSE value[x]
    BY DEF RetireStep, Retire, RetireSignals, QueueHead
  <2>5. submission'[i].signals[x] > value'[x]
    <3>1. CASE x \in DOMAIN submission[1].signals
      BY <2>1, <2>2, <2>3, <2>4, <3>1, SignalValues
    <3>2. CASE x \notin DOMAIN submission[1].signals
      BY <2>2, <2>3, <2>4, <3>2
    <3> QED
      BY <3>1, <3>2
  <2>6. ASSUME NEW j \in 1..(i - 1), x \in DOMAIN submission'[j].signals
        PROVE  submission'[j].signals[x] < submission'[i].signals[x]
    <3>1. j \in 1..Len(submission') /\ j + 1 \in 1..((i + 1) - 1)
      BY <1>2, <2>1
    <3>2. submission'[j] = submission[j + 1]
      BY <1>2, <3>1
    <3> QED
      BY <2>2, <2>3, <2>6, <3>1, <3>2
  <2> QED
    BY <2>5, <2>6
<1>4. SignalsRise(submission)'
  BY <1>3 DEF SignalsRise
<1> QED
  BY <1>1, <1>4 DEF SignalsPromised, SignalsRise, ChainFollows

LEMMA PromiseOnSignal ==
    ASSUME TypeOK, Locking, SignalsPromised,
           NEW t \in Threads, SignalSemaphore(t)
    PROVE  SignalsPromised'
<1>1. chain = <<>> /\ chain' = <<>> /\ submission' = submission
  BY ChainEmpty DEF SignalSemaphore, queueVars
<1>2. ASSUME NEW i \in 1..Len(submission),
             NEW x \in DOMAIN submission[i].signals \cap Timelines
      PROVE  submission[i].signals[x] > value'[x]
  <2>1. submission[i].signals[x] > value[x]
    BY DEF SignalsPromised, SignalsRise
  <2>2. CASE value' = value
    BY <2>1, <2>2
  <2>3. CASE Publish(call[t].values) /\
             \A y \in DOMAIN call[t].values : MayPublish(y, call[t].values[y])
    <3>1. value'[x] = IF x \in DOMAIN call[t].values THEN call[t].values[x]
                      ELSE value[x]
      BY <2>3 DEF Publish
    <3>2. x \in DOMAIN call[t].values =>
              submission[i].signals[x] > call[t].values[x]
      BY <2>3 DEF MayPublish
    <3> QED
      BY <2>1, <3>1, <3>2
  <2> QED
    BY <2>2, <2>3 DEF SignalSemaphore
<1>3. SignalsRise(submission)'
  BY <1>1, <1>2 DEF SignalsPromised, SignalsRise
<1> QED
  BY <1>1, <1>3 DEF SignalsPromised, SignalsRise, ChainFollows

(* Only the last segment of a record signals, and what it signals exceeds  *)
(* everything queued or built before it.                                   *)
LEMMA RecordSignals ==
    ASSUME TypeOK, NEW info \in Infos, ReferencesValid(info)
    PROVE  LET segments == RecordSegments(info)
           IN  /\ Len(segments) \in Nat \ {0}
               /\ segments \in Seq(Segments)
               /\ \A k \in 1..Len(segments) :
                      \A x \in DOMAIN segments[k].signals :
                          /\ k = Len(segments)
                          /\ segments[k].signals[x] = info.signals[x]
                          /\ x \in DOMAIN info.signals
<1> DEFINE segments == RecordSegments(info)
           shapes == Expansion[info.buffers]
<1>1. shapes \in Seq(Shapes) /\ shapes # <<>>
  BY QueueAssumption DEF Infos
<1>2. segments \in Seq(Segments)
  BY RecordSegmentsTypes
<1>3. Len(segments) = Len(shapes)
  BY <1>1, <1>2 DEF RecordSegments
<1>4. Len(segments) \in Nat \ {0}
  BY <1>1, <1>3
<1>5. ASSUME NEW k \in 1..Len(segments), NEW x \in DOMAIN segments[k].signals
      PROVE  /\ k = Len(segments)
             /\ segments[k].signals[x] = info.signals[x]
             /\ x \in DOMAIN info.signals
  <2>1. segments[k].signals =
            IF k = Len(shapes) THEN info.signals ELSE NoReferences
    BY <1>1, <1>3 DEF RecordSegments
  <2>2. DOMAIN NoReferences = {}
    BY DEF NoReferences
  <2> QED
    BY <1>3, <2>1, <2>2
<1> QED
  BY <1>2, <1>4, <1>5

(* What ReferencesValid says of the values it accepts.                     *)
LEMMA AcceptedSignals ==
    ASSUME TypeOK, NEW info \in Infos, ReferencesValid(info),
           NEW x \in DOMAIN info.signals \cap Timelines
    PROVE  /\ info.signals[x] > value[x]
           /\ \A i \in 1..Len(submission) : x \in DOMAIN submission[i].signals =>
                  info.signals[x] > submission[i].signals[x]
           /\ \A k \in 1..Len(chain) : x \in DOMAIN chain[k].signals =>
                  info.signals[x] > chain[k].signals[x]
<1> DEFINE records == submission \o chain
<1>1. ExceedsAllSignals(records, x, info.signals[x])
  BY DEF ReferencesValid
<1>2. /\ submission \in Seq(Segments) /\ chain \in Seq(Segments)
      /\ Len(submission) \in Nat /\ Len(chain) \in Nat
  BY DEF TypeOK, QueueTypes
<1>3. /\ Len(records) = Len(submission) + Len(chain)
      /\ \A i \in 1..Len(submission) : records[i] = submission[i]
      /\ \A k \in 1..Len(chain) : records[Len(submission) + k] = chain[k]
  BY <1>2
<1>4. \A i \in 1..Len(records) : x \in DOMAIN records[i].signals =>
          info.signals[x] > records[i].signals[x]
  BY <1>1 DEF ExceedsAllSignals
<1>5. ASSUME NEW i \in 1..Len(submission), x \in DOMAIN submission[i].signals
      PROVE  info.signals[x] > submission[i].signals[x]
  <2>1. i \in 1..Len(records)
    BY <1>2, <1>3
  <2> QED
    BY <1>3, <1>4, <1>5, <2>1
<1>6. ASSUME NEW k \in 1..Len(chain), x \in DOMAIN chain[k].signals
      PROVE  info.signals[x] > chain[k].signals[x]
  <2>1. Len(submission) + k \in 1..Len(records)
    BY <1>2, <1>3
  <2> QED
    BY <1>3, <1>4, <1>6, <2>1
<1> QED
  BY <1>1, <1>5, <1>6 DEF ExceedsAllSignals

LEMMA PromiseOnBuild ==
    ASSUME TypeOK, SignalsPromised, BuildStep
    PROVE  SignalsPromised'
<1>1. submission' = submission /\ value' = value
  BY DEF BuildStep
<1>2. SignalsRise(submission)'
  BY <1>1 DEF SignalsPromised, SignalsRise
<1>3. CASE chain' = <<>>
  BY <1>2, <1>3 DEF SignalsPromised, SignalsRise, ChainFollows
<1>4. ASSUME NEW t \in Threads, BuildRecord(t), chain' # <<>>
      PROVE  SignalsPromised'
  <2> DEFINE info == call[t].infos[1]
             segments == RecordSegments(info)
             n == Len(chain)
  <2>1. info \in Infos
    <3>1. call[t].infos \in Seq(Infos) /\ call[t].infos # <<>>
      BY <1>4 DEF BuildRecord, TypeOK, ThreadTypes, Calls
    <3> QED
      BY <3>1
  <2>2. ReferencesValid(info) /\ chain' = chain \o segments
    BY <1>4 DEF BuildRecord
  <2>3. /\ Len(segments) \in Nat \ {0} /\ segments \in Seq(Segments)
        /\ \A k \in 1..Len(segments) : \A x \in DOMAIN segments[k].signals :
               /\ k = Len(segments)
               /\ segments[k].signals[x] = info.signals[x]
               /\ x \in DOMAIN info.signals
    BY <2>1, <2>2, RecordSignals
  <2>4. chain \in Seq(Segments) /\ n \in Nat
    BY DEF TypeOK, QueueTypes
  <2> HIDE DEF segments, info
  <2>5. /\ Len(chain') = n + Len(segments)
        /\ \A k \in 1..n : chain'[k] = chain[k]
        /\ \A k \in 1..Len(segments) : chain'[n + k] = segments[k]
    BY <2>2, <2>3, <2>4
  (* A signal of the new chain is an old one or the record's.              *)
  <2>6. ASSUME NEW k \in 1..Len(chain'), NEW x \in DOMAIN chain'[k].signals
        PROVE  \/ k \in 1..n /\ chain'[k] = chain[k]
               \/ /\ k = Len(chain') /\ k > n
                  /\ x \in DOMAIN info.signals
                  /\ chain'[k].signals[x] = info.signals[x]
    <3>1. CASE k <= n
      BY <2>4, <2>5, <3>1
    <3>2. CASE k > n
      <4> DEFINE m == k - n
      <4>1. m \in 1..Len(segments) /\ k = n + m
        BY <2>3, <2>4, <2>5, <3>2
      <4>2. chain'[k] = segments[m]
        BY <2>5, <4>1
      <4>3. x \in DOMAIN segments[m].signals
        BY <4>2
      <4>4. /\ m = Len(segments) /\ x \in DOMAIN info.signals
            /\ segments[m].signals[x] = info.signals[x]
        <5> HIDE DEF m
        <5> QED
          BY <2>3, <4>1, <4>3
      <4>5. k = Len(chain')
        BY <2>5, <4>1, <4>4
      <4> QED
        BY <3>2, <4>2, <4>4, <4>5
    <3> QED
      BY <2>4, <3>1, <3>2
  <2>7. ASSUME NEW k \in 1..Len(chain'),
               NEW x \in DOMAIN chain'[k].signals \cap Timelines
        PROVE  /\ chain'[k].signals[x] > value[x]
               /\ \A j \in 1..(k - 1) : x \in DOMAIN chain'[j].signals =>
                      chain'[j].signals[x] < chain'[k].signals[x]
               /\ \A i \in 1..Len(submission) : x \in DOMAIN submission[i].signals =>
                      submission[i].signals[x] < chain'[k].signals[x]
    <3>1. CASE k \in 1..n /\ chain'[k] = chain[k]
      <4>1. \A j \in 1..(k - 1) : j \in 1..n /\ chain'[j] = chain[j]
        BY <2>4, <2>5, <3>1
      <4> QED
        BY <3>1, <4>1 DEF SignalsPromised, SignalsRise, ChainFollows
    <3>2. CASE /\ k = Len(chain') /\ k > n
               /\ x \in DOMAIN info.signals
               /\ chain'[k].signals[x] = info.signals[x]
      <4>1. /\ info.signals[x] > value[x]
            /\ \A i \in 1..Len(submission) : x \in DOMAIN submission[i].signals =>
                   info.signals[x] > submission[i].signals[x]
            /\ \A j \in 1..Len(chain) : x \in DOMAIN chain[j].signals =>
                   info.signals[x] > chain[j].signals[x]
        BY <2>1, <2>2, <3>2, AcceptedSignals
      <4>2. ASSUME NEW i \in 1..Len(submission), x \in DOMAIN submission[i].signals
            PROVE  submission[i].signals[x] < chain'[k].signals[x]
        <5>1. info.signals \in References
          BY <2>1 DEF Infos
        <5>2. info.signals[x] \in Int
          BY <3>2, <5>1, ReferenceTypes, QueueAssumption DEF Values
        <5> QED
          BY <3>2, <4>1, <4>2, <5>2, SignalValues
      <4>3. ASSUME NEW j \in 1..(k - 1), x \in DOMAIN chain'[j].signals
            PROVE  chain'[j].signals[x] < chain'[k].signals[x]
        <5>1. j \in 1..Len(chain') /\ j # Len(chain')
          BY <2>3, <2>4, <2>5, <3>2
        <5>2. j \in 1..n /\ chain'[j] = chain[j]
          BY <2>6, <4>3, <5>1
        <5>3. info.signals \in References
          BY <2>1 DEF Infos
        <5>4. info.signals[x] \in Int /\ chain[j].signals[x] \in Int
          BY <3>2, <4>3, <5>2, <5>3, SignalValues, ReferenceTypes, QueueAssumption
          DEF Values
        <5> QED
          BY <3>2, <4>1, <4>3, <5>2, <5>4
      <4> QED
        BY <3>2, <4>1, <4>2, <4>3
    <3> QED
      BY <2>6, <3>1, <3>2
  <2>8. SignalsRise(chain)'
    BY <1>1, <2>7 DEF SignalsRise
  <2>9. ChainFollows'
    BY <1>1, <2>7 DEF ChainFollows
  <2> QED
    BY <1>2, <2>8, <2>9 DEF SignalsPromised
<1> QED
  BY <1>3, <1>4 DEF BuildStep, RefuseSubmit

LEMMA PromiseOnCommit ==
    ASSUME TypeOK, SignalsPromised, NEW t \in Threads, CommitSubmit(t)
    PROVE  SignalsPromised'
<1> DEFINE m == Len(submission)
           n == Len(chain)
<1>1. /\ m \in Nat /\ n \in Nat
      /\ Len(submission') = m + n
      /\ \A i \in 1..m : submission'[i] = submission[i]
      /\ \A k \in 1..n : submission'[m + k].signals = chain[k].signals
  BY CommittedRecords
<1>2. chain' = <<>> /\ value' = value
  BY DEF CommitSubmit
<1>3. ASSUME NEW i \in 1..(m + n), i > m
      PROVE  \E k \in 1..n : i = m + k
  <2>1. i - m \in 1..n /\ i = m + (i - m)
    BY <1>1, <1>3
  <2> QED
    BY <2>1
<1>4. ASSUME NEW i \in 1..(m + n),
             NEW x \in DOMAIN submission'[i].signals \cap Timelines
      PROVE  /\ submission'[i].signals[x] > value[x]
             /\ \A j \in 1..(i - 1) : x \in DOMAIN submission'[j].signals =>
                    submission'[j].signals[x] < submission'[i].signals[x]
  <2>1. CASE i <= m
    <3>1. i \in 1..m /\ \A j \in 1..(i - 1) : j \in 1..m
      BY <1>1, <2>1
    <3> QED
      BY <1>1, <3>1 DEF SignalsPromised, SignalsRise
  <2>2. CASE i > m
    <3>1. PICK k \in 1..n : i = m + k
      BY <1>3, <2>2
    <3>2. submission'[i].signals = chain[k].signals
      BY <1>1, <3>1
    <3>3. /\ chain[k].signals[x] > value[x]
          /\ \A l \in 1..(k - 1) : x \in DOMAIN chain[l].signals =>
                 chain[l].signals[x] < chain[k].signals[x]
          /\ \A l \in 1..m : x \in DOMAIN submission[l].signals =>
                 submission[l].signals[x] < chain[k].signals[x]
      BY <3>2 DEF SignalsPromised, SignalsRise, ChainFollows
    <3>4. ASSUME NEW j \in 1..(i - 1), x \in DOMAIN submission'[j].signals
          PROVE  submission'[j].signals[x] < submission'[i].signals[x]
      <4>1. j \in Nat /\ (j <= m \/ (j > m /\ j \in 1..(m + n)))
        BY <1>1, <3>1
      <4>2. CASE j <= m
        <5>1. j \in 1..m
          BY <1>1, <4>2
        <5> QED
          BY <1>1, <3>2, <3>3, <3>4, <5>1
      <4>3. CASE j > m /\ j \in 1..(m + n)
        <5>1. PICK l \in 1..n : j = m + l
          BY <1>3, <4>3
        <5>2. l \in 1..(k - 1)
          BY <1>1, <3>1, <5>1
        <5>3. submission'[j].signals = chain[l].signals
          BY <1>1, <5>1
        <5> QED
          BY <3>2, <3>3, <3>4, <5>2, <5>3
      <4> QED
        BY <4>1, <4>2, <4>3
    <3> QED
      BY <3>2, <3>3, <3>4
  <2> QED
    BY <1>1, <2>1, <2>2
<1>5. SignalsRise(submission)'
  BY <1>1, <1>2, <1>4 DEF SignalsRise
<1> QED
  BY <1>2, <1>5 DEF SignalsPromised, SignalsRise, ChainFollows

LEMMA PromiseStep ==
    ASSUME TypeOK, Locking, SignalsPromised, [Next]_vars
    PROVE  SignalsPromised'
<1>1. CASE QuietStep \/ ResetStep
  BY <1>1 DEF QuietStep, ResetStep, queueVars, SignalsPromised, SignalsRise,
              ChainFollows
<1> QED
  BY <1>1, StepKinds, PromiseOnMark, PromiseOnRetire, PromiseOnSignal,
     PromiseOnBuild, PromiseOnCommit

(* Timeline signals stay in front of their payloads and in order, for any  *)
(* number of threads, records and values: validation of a submission       *)
(* against what is queued, the check of a host signal and the order of     *)
(* retirement are together enough.                                         *)
THEOREM SignalsStayAhead == Spec => []SignalsAhead
<1>1. Init => SignalsPromised
  BY DEF Init, SignalsPromised, SignalsRise, ChainFollows
<1>2. TypeOK /\ Locking /\ SignalsPromised /\ [Next]_vars => SignalsPromised'
  BY PromiseStep
<1>3. SignalsPromised => SignalsAhead
  BY DEF SignalsPromised, SignalsAhead
<1> QED
  BY <1>1, <1>2, <1>3, TypeCorrect, LockingInvariant, PTL DEF Spec
-----------------------------------------------------------------------------
(* Fences.  What vkQueueSubmit found out about its fence before it drained *)
(* the queue, giving the lock up, is still so when it commits.             *)

OneQueueCall ==
    \A t, u \in Threads : InQueueCall(t) /\ InQueueCall(u) => t = u

BuildsSubmit ==
    \A t \in Threads :
        /\ pc[t] = "build" => call[t].op = "submit"
        /\ call[t].op = "submit" /\ call[t].infos = <<>> =>
               pc[t] = "build" /\ chain # <<>>

QueueCalls == OneQueueCall /\ BuildsSubmit

(* Every thread but t stays where it is, in the call it is in.             *)
Others(t) == \A u \in Threads \ {t} : pc'[u] = pc[u] /\ call'[u] = call[u]

LEMMA NewCallStep ==
    ASSUME TypeOK, NEW t \in Threads, NewCall(t)
    PROVE  /\ Others(t) /\ chain' = chain
           /\ pc'[t] \in Places \ Inside
           /\ call'[t].op = "submit" => call'[t].infos # <<>> /\ pc'[t] = "enter"
           /\ InQueueCall(t)' => QueueIsFree
<1> USE DEF TypeOK, ThreadTypes, Others, Enter, Goto, Places, Inside, queueVars,
            InQueueCall, NoCall
<1>1. ASSUME NEW infos \in SubmitCalls, NEW f \in Fences \cup {NoFence},
             SubmitCall(t, infos, f)
      PROVE  /\ Others(t) /\ chain' = chain
             /\ pc'[t] \in Places \ Inside /\ pc'[t] = "enter"
             /\ call'[t].infos # <<>> /\ QueueIsFree
  BY <1>1 DEF SubmitCall
<1>2. CASE WaitIdleCall(t)
  BY <1>2 DEF WaitIdleCall
<1>3. ASSUME NEW x \in Timelines, NEW v \in HostValues, SignalCall(t, x, v)
      PROVE  /\ Others(t) /\ chain' = chain
             /\ pc'[t] \in Places \ Inside /\ call'[t].op = "signal"
  BY <1>3 DEF SignalCall
<1>4. ASSUME NEW wait \in SemaphoreWaits, WaitSemaphoresCall(t, wait)
      PROVE  /\ Others(t) /\ chain' = chain
             /\ pc'[t] \in Places \ Inside /\ call'[t].op = "waitSemaphores"
  BY <1>4 DEF WaitSemaphoresCall
<1>5. ASSUME NEW wait \in FenceWaits, WaitFencesCall(t, wait)
      PROVE  /\ Others(t) /\ chain' = chain
             /\ pc'[t] \in Places \ Inside /\ call'[t].op = "waitFences"
  BY <1>5 DEF WaitFencesCall
<1>6. ASSUME NEW op \in {"setEvent", "resetEvent"}, NEW e \in Events,
             EventCall(t, op, e)
      PROVE  /\ Others(t) /\ chain' = chain
             /\ pc'[t] \in Places \ Inside /\ call'[t].op = op
  BY <1>6 DEF EventCall
<1> QED
  BY <1>1, <1>2, <1>3, <1>4, <1>5, <1>6 DEF NewCall

(* Every other step of a thread keeps its call, ends it, or takes it one   *)
(* record or one commit further.                                           *)
LEMMA CallStep ==
    ASSUME TypeOK, Locking, NEW t \in Threads,
           TakesLock(t) \/ HoldsLock(t) \/ Unlocked(t)
    PROVE  /\ Others(t)
           /\ \/ BuildRecord(t) \/ CommitSubmit(t) \/ RefuseSubmit(t)
              \/ PrepareJob(t) /\ UNCHANGED <<pc, call, chain>>
              \/ /\ chain' = chain
                 /\ call'[t] = call[t] \/ call'[t] = NoCall
                 /\ pc'[t] = "build" => pc[t] = "polled" /\ call[t].op = "submit"
                                        /\ call'[t] = call[t]
                 /\ pc[t] # "build"
<1> USE DEF TypeOK, ThreadTypes, Others, Return, Goto, queueVars
<1>1. CASE TakesLock(t)
  BY <1>1 DEF TakesLock, AdmitSubmit, SignalSemaphore, Progress,
     WaitFencesAgain, WaitReturns, WaitContinues
<1>2. CASE Unlocked(t)
  BY <1>2 DEF Unlocked, SetEvent, ResetEvent
<1>3. CASE DrainSubmit(t) \/ SubmitReturns(t) \/ DrainWaitIdle(t)
           \/ SignalReturns(t) \/ WaitPolled(t)
  BY <1>3 DEF DrainSubmit, SubmitReturns, DrainWaitIdle, SignalReturns, WaitPolled
<1>4. CASE BuildRecord(t)
  BY <1>4 DEF BuildRecord
<1>5. CASE RefuseSubmit(t) \/ PrepareJob(t)
  BY <1>5 DEF RefuseSubmit, PrepareJob, threadVars
<1>6. CASE CommitSubmit(t)
  <2>1. /\ pc' = [pc EXCEPT ![t] = "start"]
        /\ call' = [call EXCEPT ![t].op = "submitted"]
    BY <1>6 DEF CommitSubmit
  <2> QED
    BY <1>6, <2>1
<1>7. CASE PollNothing(t) \/ PollStart(t) \/ PollPending(t) \/ PollFailed(t)
           \/ StartDone(t) \/ FrontendFailed(t)
  BY <1>7 DEF PollNothing, PollStart, PollPending, PollFailed, StartDone,
     FrontendFailed
<1>8. CASE PollComplete(t) \/ ExecuteFrontend(t) \/ RetireEmpty(t)
  BY <1>8 DEF PollComplete, ExecuteFrontend, RetireEmpty, Retire
<1>9. CASE ConsumeWaits(t) \/ LaunchHead(t) \/ LaunchFailed(t)
  BY <1>9 DEF ConsumeWaits, LaunchHead, LaunchFailed
<1> QED
  BY <1>1, <1>2, <1>3, <1>4, <1>5, <1>6, <1>7, <1>8, <1>9 DEF HoldsLock

(* The steps of no thread.                                                 *)
LEMMA NoThreadStep ==
    ASSUME \/ \E n \in 1..MaxSerial : Complete(n)
           \/ \E f \in Fences : ResetFence(f)
           \/ \E b \in Buffers : RecordBuffer(b)
           \/ UNCHANGED vars
    PROVE  pc' = pc /\ call' = call /\ chain' = chain
BY DEF Complete, ResetFence, RecordBuffer, vars, threadVars, queueVars

(* Building a record adds at least one segment, or refuses the submission. *)
LEMMA BuildKinds ==
    ASSUME TypeOK, NEW t \in Threads, BuildRecord(t)
    PROVE  \/ /\ chain' # <<>> /\ pc'[t] = "build"
              /\ call'[t] = [call[t] EXCEPT !.infos = Tail(call[t].infos)]
           \/ call'[t] = NoCall /\ pc'[t] = "idle"
<1> DEFINE info == call[t].infos[1]
<1>1. call[t] \in Calls /\ call[t].infos \in Seq(Infos) /\ call[t].infos # <<>>
  BY DEF BuildRecord, TypeOK, ThreadTypes, Calls
<1>2. info \in Infos
  BY <1>1
<1>3. CASE ReferencesValid(info) /\ BuffersValid(info.buffers)
  <2>1. /\ chain' = chain \o RecordSegments(info)
        /\ call' = [call EXCEPT ![t].infos = Tail(@)] /\ pc' = pc /\ pc[t] = "build"
    BY <1>3 DEF BuildRecord
  <2>2. Len(RecordSegments(info)) \in Nat \ {0}
        /\ RecordSegments(info) \in Seq(Segments)
    BY <1>2, <1>3, RecordSignals
  <2>3. chain \in Seq(Segments)
    BY DEF TypeOK, QueueTypes
  <2>4. Len(chain') # 0
    BY <2>1, <2>2, <2>3
  <2>5. chain' # <<>>
    BY <2>4
  <2> QED
    BY <2>1, <2>5 DEF TypeOK, ThreadTypes
<1>4. CASE ~(ReferencesValid(info) /\ BuffersValid(info.buffers))
  BY <1>4 DEF BuildRecord, Return, Goto, TypeOK, ThreadTypes
<1> QED
  BY <1>3, <1>4

LEMMA QueueCallsStep ==
    ASSUME TypeOK, Locking, QueueCalls, [Next]_vars
    PROVE  QueueCalls'
<1> USE DEF QueueCalls, OneQueueCall, BuildsSubmit
<1>1. ASSUME NEW t \in Threads, NewCall(t) PROVE QueueCalls'
  <2>1. /\ Others(t) /\ chain' = chain
        /\ pc'[t] \in Places \ Inside
        /\ call'[t].op = "submit" => call'[t].infos # <<>> /\ pc'[t] = "enter"
        /\ InQueueCall(t)' => QueueIsFree
    BY <1>1, NewCallStep
  <2>2. OneQueueCall'
    BY <2>1 DEF Others, InQueueCall, QueueIsFree
  <2>3. BuildsSubmit'
    BY <2>1 DEF Others, Inside
  <2> QED
    BY <2>2, <2>3
<1>2. ASSUME NEW t \in Threads, Others(t),
             call'[t].op = call[t].op \/ call'[t].op \in {"none", "submitted"},
             call'[t].op = "submitted" => InQueueCall(t)
      PROVE  OneQueueCall'
  BY <1>2 DEF Others, InQueueCall
<1>3. ASSUME NEW t \in Threads, Others(t), chain' = chain,
             call'[t] = call[t] \/ call'[t] = NoCall,
             pc'[t] = "build" => call[t].op = "submit" /\ call'[t] = call[t],
             pc[t] # "build"
      PROVE  QueueCalls'
  <2>1. NoCall.op = "none"
    BY DEF NoCall
  <2>2. OneQueueCall'
    BY <1>3, <2>1 DEF Others, InQueueCall
  <2>3. BuildsSubmit'
    BY <1>3, <2>1 DEF Others
  <2> QED
    BY <2>2, <2>3
(* While t builds, no other thread does.                                   *)
<1>4. ASSUME NEW t \in Threads, pc[t] = "build", Others(t),
             NEW u \in Threads \ {t}
      PROVE  /\ pc'[u] # "build"
             /\ ~(call'[u].op = "submit" /\ call'[u].infos = <<>>)
  BY <1>4 DEF Locking, MutualExclusion, Inside, Others
<1>5. ASSUME NEW t \in Threads, BuildRecord(t), Others(t) PROVE QueueCalls'
  <2>1. pc[t] = "build" /\ call[t] \in Calls /\ NoCall.op = "none"
    BY <1>5 DEF BuildRecord, TypeOK, ThreadTypes, NoCall
  <2>2. [call[t] EXCEPT !.infos = Tail(call[t].infos)].op = call[t].op
    BY <2>1 DEF Calls
  <2>3. OneQueueCall'
    BY <1>2, <1>5, <2>1, <2>2, BuildKinds
  <2>4. BuildsSubmit'
    BY <1>4, <1>5, <2>1, <2>2, BuildKinds
  <2> QED
    BY <2>3, <2>4
<1>6. ASSUME NEW t \in Threads, CommitSubmit(t) \/ RefuseSubmit(t), Others(t)
      PROVE  QueueCalls'
  <2>1. /\ pc[t] = "build" /\ call[t].op = "submit"
        /\ pc'[t] # "build" /\ call'[t].op \in {"none", "submitted"}
    <3>1. pc[t] = "build" /\ pc'[t] \in {"start", "idle"}
      BY <1>6 DEF CommitSubmit, RefuseSubmit, Return, Goto, TypeOK, ThreadTypes
    <3>2. CASE CommitSubmit(t)
      <4>1. call' = [call EXCEPT ![t].op = "submitted"]
        BY <3>2 DEF CommitSubmit
      <4> QED
        BY <3>1, <4>1 DEF TypeOK, ThreadTypes, Calls
    <3>3. CASE RefuseSubmit(t)
      BY <3>1, <3>3 DEF RefuseSubmit, Return, NoCall, TypeOK, ThreadTypes
    <3> QED
      BY <1>6, <3>2, <3>3
  <2>2. OneQueueCall'
    BY <1>2, <1>6, <2>1 DEF InQueueCall
  <2>3. BuildsSubmit'
    BY <1>4, <1>6, <2>1
  <2> QED
    BY <2>2, <2>3
<1>7. CASE pc' = pc /\ call' = call /\ chain' = chain
  BY <1>7 DEF InQueueCall
<1>8. ASSUME NEW t \in Threads, TakesLock(t) \/ HoldsLock(t) \/ Unlocked(t)
      PROVE  QueueCalls'
  BY <1>3, <1>5, <1>6, <1>7, <1>8, CallStep
<1> QED
  BY <1>1, <1>7, <1>8, NoThreadStep DEF Next

LEMMA QueueCallsInvariant == Spec => []QueueCalls
<1>1. Init => QueueCalls
  BY DEF Init, QueueCalls, OneQueueCall, BuildsSubmit, InQueueCall, NoCall
<1>2. TypeOK /\ Locking /\ QueueCalls /\ [Next]_vars => QueueCalls'
  BY QueueCallsStep
<1> QED
  BY <1>1, <1>2, TypeCorrect, LockingInvariant, PTL DEF Spec

(* The fence of a submission that was admitted is neither pending nor      *)
(* signaled until the submission commits.                                  *)
FenceAdmitted ==
    \A t \in Threads :
        call[t].op = "submit" /\ pc[t] # "enter" /\ call[t].fence # NoFence =>
            fenceSerial[call[t].fence] = 0 /\ ~fenceSignaled[call[t].fence]

(* A submission under way was under way before, with the same fence, and   *)
(* was admitted or is being admitted.                                      *)
LEMMA SubmitKept ==
    ASSUME TypeOK, Locking, QueueCalls, [Next]_vars, NEW t \in Threads,
           call'[t].op = "submit", pc'[t] # "enter"
    PROVE  /\ call[t].op = "submit" /\ call'[t].fence = call[t].fence
           /\ pc[t] # "enter" \/ Admissible(call[t])
<1>1. CASE NewCall(t)
  BY <1>1, NewCallStep
<1>2. CASE TakesLock(t) \/ HoldsLock(t) \/ Unlocked(t)
  <2>1. pc[t] = "enter" => AdmitSubmit(t)
    BY <1>2, InsideLocking DEF Locking, Inside, TakesLock, Unlocked, SetEvent,
       ResetEvent, SignalSemaphore, Progress, WaitFencesAgain, WaitReturns,
       WaitContinues
  <2>2. NoCall.op = "none"
    BY DEF NoCall
  <2>3. pc[t] = "enter" => Admissible(call[t])
    BY <2>1, <2>2 DEF AdmitSubmit, Return, TypeOK, ThreadTypes
  <2>4. CASE BuildRecord(t)
    <3>1. call'[t] = [call[t] EXCEPT !.infos = Tail(call[t].infos)]
      BY <2>2, <2>4, BuildKinds
    <3>2. call[t] \in Calls
      BY DEF TypeOK, ThreadTypes
    <3> QED
      BY <2>3, <3>1, <3>2 DEF Calls
  <2>5. CASE CommitSubmit(t)
    <3>1. call' = [call EXCEPT ![t].op = "submitted"]
      BY <2>5 DEF CommitSubmit
    <3> QED
      BY <3>1 DEF TypeOK, ThreadTypes, Calls
  <2>6. CASE RefuseSubmit(t)
    BY <2>2, <2>6 DEF RefuseSubmit, Return, TypeOK, ThreadTypes
  <2>7. CASE call'[t] = call[t] \/ call'[t] = NoCall
    BY <2>2, <2>3, <2>7
  <2> QED
    BY <1>2, <2>4, <2>5, <2>6, <2>7, CallStep
<1>3. ASSUME NEW u \in Threads \ {t},
             NewCall(u) \/ TakesLock(u) \/ HoldsLock(u) \/ Unlocked(u)
      PROVE  call'[t] = call[t] /\ pc'[t] = pc[t]
  BY <1>3, NewCallStep, CallStep DEF Others
<1>4. CASE pc' = pc /\ call' = call
  BY <1>4
<1> QED
  BY <1>1, <1>2, <1>3, <1>4, NoThreadStep DEF Next

(* What retiring the head does to the fences, queue in hand.               *)
LEMMA FencesOnRetire ==
    ASSUME TypeOK, FencesMatchQueue, RetireStep
    PROVE  FencesMatchQueue'
<1>1. /\ Len(submission) \in Nat \ {0}
      /\ Len(submission') = Len(submission) - 1
      /\ \A i \in 1..Len(submission') : submission'[i] = submission[i + 1]
  BY RetiredRecords DEF RetireStep
<1>2. \A i \in 1..Len(submission') : i + 1 \in 1..Len(submission) /\ i + 1 # 1
  BY <1>1
<1>3. \A f \in Fences :
          /\ fenceSerial'[f] =
                 IF f = submission[1].fence THEN 0 ELSE fenceSerial[f]
          /\ f # submission[1].fence => fenceSignaled'[f] = fenceSignaled[f]
  BY DEF RetireStep, Retire, QueueHead, TypeOK, FenceTypes
<1>4. ASSUME NEW f \in Fences, f = submission[1].fence
      PROVE  \A i \in 1..Len(submission) : submission[i].fence = f => i = 1
  BY <1>1, <1>4 DEF FencesMatchQueue
<1>5. ASSUME NEW f \in Fences, fenceSerial'[f] = 0
      PROVE  \A i \in 1..Len(submission') : submission'[i].fence # f
  BY <1>1, <1>2, <1>3, <1>4, <1>5 DEF FencesMatchQueue
<1>6. ASSUME NEW f \in Fences, fenceSerial'[f] # 0
      PROVE  /\ ~fenceSignaled'[f]
             /\ \E i \in 1..Len(submission') :
                    /\ submission'[i].fence = f
                    /\ submission'[i].serial = fenceSerial'[f]
                    /\ \A j \in 1..Len(submission') :
                           submission'[j].fence = f => j = i
  <2>1. f # submission[1].fence /\ fenceSerial'[f] = fenceSerial[f]
    BY <1>3, <1>6
  <2>2. ~fenceSignaled'[f]
    BY <1>3, <1>6, <2>1 DEF FencesMatchQueue
  <2>3. PICK i \in 1..Len(submission) :
            /\ submission[i].fence = f
            /\ submission[i].serial = fenceSerial[f]
            /\ \A j \in 1..Len(submission) : submission[j].fence = f => j = i
    BY <1>6, <2>1 DEF FencesMatchQueue
  <2>4. i - 1 \in 1..Len(submission') /\ submission'[i - 1] = submission[i]
    <3>1. i # 1
      BY <2>1, <2>3
    <3>2. i - 1 \in 1..Len(submission') /\ (i - 1) + 1 = i
      BY <1>1, <3>1
    <3> QED
      BY <1>1, <3>2
  <2>5. ASSUME NEW j \in 1..Len(submission'), submission'[j].fence = f
        PROVE  j = i - 1
    <3>1. j + 1 = i
      BY <1>1, <1>2, <2>3, <2>5
    <3> QED
      BY <1>1, <3>1
  <2> QED
    BY <2>1, <2>2, <2>3, <2>4, <2>5
<1> QED
  BY <1>5, <1>6 DEF FencesMatchQueue

(* A commit puts its fence, which nothing carried, on the last segment.    *)
LEMMA FencesOnCommit ==
    ASSUME TypeOK, QueueCalls, FencesMatchQueue, FenceAdmitted,
           NEW t \in Threads, CommitSubmit(t)
    PROVE  FencesMatchQueue'
<1> DEFINE m == Len(submission)
           n == Len(chain)
           g == call[t].fence
<1>1. /\ m \in Nat /\ n \in Nat
      /\ Len(submission') = m + n
      /\ \A i \in 1..m : submission'[i] = submission[i]
      /\ \A k \in 1..n : /\ submission'[m + k].serial = SerialAt(k)
                         /\ submission'[m + k].fence = FenceAt(k, g)
  BY CommittedRecords
<1>2. pc[t] = "build" /\ call[t].op = "submit" /\ chain # <<>>
  BY DEF CommitSubmit, QueueCalls, BuildsSubmit
<1>3. n # 0
  BY <1>2 DEF TypeOK, QueueTypes
<1>4. /\ fenceSignaled' = fenceSignaled
      /\ \A f \in Fences : fenceSerial'[f] =
             IF f = g THEN SerialAt(n) ELSE fenceSerial[f]
  BY DEF CommitSubmit
<1>5. g \in Fences => fenceSerial[g] = 0 /\ ~fenceSignaled[g]
  BY <1>2, QueueAssumption DEF FenceAdmitted
<1>6. ASSUME NEW i \in 1..(m + n)
      PROVE  i \in 1..m \/ \E k \in 1..n : i = m + k
  <2>1. CASE i <= m
    BY <1>1, <2>1
  <2>2. CASE i > m
    <3>1. i - m \in 1..n /\ i = m + (i - m)
      BY <1>1, <2>2
    <3> QED
      BY <3>1
  <2> QED
    BY <1>1, <2>1, <2>2
(* Which records carry a fence after the commit.                           *)
<1>7. ASSUME NEW i \in 1..(m + n), NEW f \in Fences, submission'[i].fence = f
      PROVE  \/ i \in 1..m /\ submission[i].fence = f
             \/ i = m + n /\ f = g
  <2>1. CASE i \in 1..m
    BY <1>1, <1>7, <2>1
  <2>2. ASSUME NEW k \in 1..n, i = m + k PROVE i = m + n /\ f = g
    BY <1>1, <1>7, <2>2, QueueAssumption DEF FenceAt
  <2> QED
    BY <1>6, <2>1, <2>2
<1>8. ASSUME NEW f \in Fences, f # g
      PROVE  /\ fenceSerial'[f] = 0 =>
                    \A i \in 1..(m + n) : submission'[i].fence # f
             /\ fenceSerial'[f] # 0 =>
                    /\ ~fenceSignaled'[f]
                    /\ \E i \in 1..(m + n) :
                           /\ submission'[i].fence = f
                           /\ submission'[i].serial = fenceSerial'[f]
                           /\ \A j \in 1..(m + n) :
                                  submission'[j].fence = f => j = i
  <2>1. fenceSerial'[f] = fenceSerial[f] /\ fenceSignaled'[f] = fenceSignaled[f]
    BY <1>4, <1>8
  <2>2. CASE fenceSerial[f] = 0
    BY <1>7, <1>8, <2>1, <2>2 DEF FencesMatchQueue
  <2>3. CASE fenceSerial[f] # 0
    <3>1. PICK i \in 1..m :
              /\ submission[i].fence = f
              /\ submission[i].serial = fenceSerial[f]
              /\ \A j \in 1..m : submission[j].fence = f => j = i
      BY <2>3 DEF FencesMatchQueue
    <3>2. i \in 1..(m + n) /\ submission'[i] = submission[i]
      BY <1>1
    <3>3. \A j \in 1..(m + n) : submission'[j].fence = f => j = i
      BY <1>7, <1>8, <3>1
    <3>4. ~fenceSignaled'[f]
      BY <2>1, <2>3 DEF FencesMatchQueue
    <3> QED
      BY <2>1, <2>3, <3>1, <3>2, <3>3, <3>4
  <2> QED
    BY <2>2, <2>3
<1>9. ASSUME g \in Fences
      PROVE  /\ fenceSerial'[g] # 0 /\ ~fenceSignaled'[g]
             /\ \E i \in 1..(m + n) :
                    /\ submission'[i].fence = g
                    /\ submission'[i].serial = fenceSerial'[g]
                    /\ \A j \in 1..(m + n) : submission'[j].fence = g => j = i
  <2>1. n \in 1..n /\ m + n \in 1..(m + n)
    BY <1>1, <1>3
  <2>2. submission'[m + n].fence = g /\ submission'[m + n].serial = SerialAt(n)
    BY <1>1, <2>1 DEF FenceAt
  <2>3. SerialAt(n) # 0
    BY <1>1, <1>3, QueueAssumption DEF SerialAt, TypeOK, QueueTypes
  <2>4. \A i \in 1..m : submission[i].fence # g
    BY <1>5, <1>9 DEF FencesMatchQueue
  <2>5. \A j \in 1..(m + n) : submission'[j].fence = g => j = m + n
    BY <1>7, <1>9, <2>4
  <2> QED
    BY <1>4, <1>5, <1>9, <2>1, <2>2, <2>3, <2>5
<1>10. SUFFICES ASSUME NEW f \in Fences
                PROVE  /\ fenceSerial'[f] = 0 =>
                              \A i \in 1..(m + n) : submission'[i].fence # f
                       /\ fenceSerial'[f] # 0 =>
                              /\ ~fenceSignaled'[f]
                              /\ \E i \in 1..(m + n) :
                                     /\ submission'[i].fence = f
                                     /\ submission'[i].serial = fenceSerial'[f]
                                     /\ \A j \in 1..(m + n) :
                                            submission'[j].fence = f => j = i
  <2>1. Len(submission') = m + n
    BY <1>1
  <2> QED
    BY <2>1 DEF FencesMatchQueue
<1> QED
  BY <1>8, <1>9

LEMMA FencesStep ==
    ASSUME TypeOK, QueueCalls, FencesMatchQueue, FenceAdmitted, [Next]_vars
    PROVE  FencesMatchQueue'
<1>1. CASE QuietStep \/ BuildStep \/ \E t \in Threads : SignalSemaphore(t)
  BY <1>1 DEF QuietStep, BuildStep, SignalSemaphore, queueVars, fenceVars,
              FencesMatchQueue
<1>2. CASE MarkStep
  BY <1>2, MarkedRecords DEF MarkStep, fenceVars, FencesMatchQueue
<1>3. CASE ResetStep
  <2>1. /\ submission' = submission /\ fenceSerial' = fenceSerial
        /\ \A f \in Fences : fenceSignaled'[f] => fenceSignaled[f]
    BY <1>3 DEF ResetStep, ResetFence, queueVars, TypeOK, FenceTypes
  <2> QED
    BY <2>1 DEF FencesMatchQueue
<1> QED
  BY <1>1, <1>2, <1>3, FencesOnRetire, FencesOnCommit, StepKinds

LEMMA AdmittedStep ==
    ASSUME TypeOK, Locking, QueueCalls, FencesMatchQueue, FenceAdmitted,
           [Next]_vars
    PROVE  FenceAdmitted'
<1> SUFFICES ASSUME NEW t \in Threads, call'[t].op = "submit",
                    pc'[t] # "enter", call'[t].fence # NoFence
             PROVE  /\ fenceSerial'[call'[t].fence] = 0
                    /\ ~fenceSignaled'[call'[t].fence]
  BY DEF FenceAdmitted
<1> DEFINE f == call[t].fence
<1>1. /\ call[t].op = "submit" /\ call'[t].fence = f
      /\ pc[t] # "enter" \/ Admissible(call[t])
  BY SubmitKept
<1>2. f \in Fences
  BY <1>1 DEF TypeOK, ThreadTypes, Calls
<1>3. fenceSerial[f] = 0 /\ ~fenceSignaled[f]
  BY <1>1, <1>2, QueueAssumption DEF FenceAdmitted, Admissible
<1>4. CASE QuietStep \/ BuildStep \/ MarkStep
  BY <1>1, <1>3, <1>4 DEF QuietStep, BuildStep, MarkStep, fenceVars
<1>5. CASE ResetStep
  BY <1>1, <1>2, <1>3, <1>5 DEF ResetStep, ResetFence, TypeOK, FenceTypes
<1>6. CASE RetireStep
  <2>1. submission[1].fence # f
    BY <1>2, <1>3, <1>6, RetiredRecords DEF RetireStep, FencesMatchQueue
  <2> QED
    BY <1>1, <1>2, <1>3, <1>6, <2>1 DEF RetireStep, Retire, QueueHead
<1>7. ASSUME NEW u \in Threads, CommitSubmit(u) PROVE FALSE
  <2>1. InQueueCall(u) /\ InQueueCall(t)
    BY <1>1, <1>7 DEF CommitSubmit, InQueueCall, QueueCalls, BuildsSubmit
  <2>2. u = t
    BY <2>1 DEF QueueCalls, OneQueueCall
  <2>3. call' = [call EXCEPT ![t].op = "submitted"]
    BY <1>7, <2>2 DEF CommitSubmit
  <2> QED
    BY <2>3 DEF TypeOK, ThreadTypes, Calls
<1>8. ASSUME NEW u \in Threads, SignalSemaphore(u)
      PROVE  fenceSerial' = fenceSerial /\ fenceSignaled' = fenceSignaled
  BY <1>8 DEF SignalSemaphore, fenceVars
<1> QED
  BY <1>1, <1>3, <1>4, <1>5, <1>6, <1>7, <1>8, StepKinds

(* A fence is pending exactly while the queue holds the one record that    *)
(* will signal it, although vkQueueSubmit gives the lock up between the    *)
(* check of the fence and the commit.                                      *)
THEOREM FencesStayMatched == Spec => []FencesMatchQueue
<1> DEFINE FenceInv == FencesMatchQueue /\ FenceAdmitted
<1>1. Init => FenceInv
  BY DEF Init, FencesMatchQueue, FenceAdmitted, NoCall
<1>2. TypeOK /\ Locking /\ QueueCalls /\ FenceInv /\ [Next]_vars => FenceInv'
  BY FencesStep, AdmittedStep
<1> QED
  BY <1>1, <1>2, TypeCorrect, LockingInvariant, QueueCallsInvariant, PTL DEF Spec

-----------------------------------------------------------------------------
(* Part 2: native jobs and progress. *)

(* The job of each serial is as far as the segment of that serial.         *)
JobsFollow ==
    /\ \A i \in 1..Len(submission) :
           /\ submission[i].job =>
                  /\ submission[i].buffers # <<>> /\ ~submission[i].frontend
                  /\ jobs[submission[i].serial] \in {"prepared", "running", "done"}
           /\ ~submission[i].job => jobs[submission[i].serial] = "none"
           /\ jobs[submission[i].serial] \in {"running", "done"} =>
                  i = 1 /\ submission[1].consumed
    /\ \A n \in 1..MaxSerial :
           /\ n <= completedSerial => jobs[n] \in {"none", "released"}
           /\ n >= nextSerial =>
                  jobs[n] = IF PreparedInChain(n) THEN "prepared" ELSE "none"

(* Segments get their serials from the thread that has built all records.  *)
Assigning ==
    /\ assigned <= Len(chain)
    /\ assigned > 0 =>
           /\ SerialsLeft(Len(chain))
           /\ \E t \in Threads : pc[t] = "build" /\ call[t].infos = <<>>

HeadRuns ==
    submission # <<>> /\ jobs[submission[1].serial] \in {"running", "done"}

(* A head that runs is not started again; vkQueueSubmit builds records     *)
(* behind a head whose waits are not consumed; neither on a lost device.   *)
Startable ==
    \A t \in Threads :
        /\ pc[t] = "start" => ~HeadRuns /\ ~lost
        /\ pc[t] = "build" =>
               (submission = <<>> \/ ~submission[1].consumed) /\ ~lost

-----------------------------------------------------------------------------
(* Marking the head changes its mark and nothing else.                     *)
LEMMA QueueFields ==
    ASSUME TypeOK, submission # <<>>
    PROVE  /\ Len(submission) \in Nat \ {0} /\ 1 \in 1..Len(submission)
           /\ \A i \in 1..Len(submission) : submission[i] \in Segments
<1>1. submission \in Seq(Segments)
  BY DEF TypeOK, QueueTypes
<1>2. \A i \in 1..Len(submission) : submission[i] \in Segments
  BY <1>1, ElementOfSeq
<1>3. Len(submission) \in Nat \ {0}
  BY <1>1, EmptySeq
<1> QED  BY <1>2, <1>3

LEMMA ConsumedFields ==
    ASSUME TypeOK, submission # <<>>,
           submission' = [submission EXCEPT ![1].consumed = TRUE]
    PROVE  /\ Len(submission') = Len(submission)
           /\ \A i \in 2..Len(submission) : submission'[i] = submission[i]
           /\ submission'[1] = [submission[1] EXCEPT !.consumed = TRUE]
<1>1. /\ submission \in Seq(Segments) /\ Len(submission) \in Nat
      /\ 1 \in 1..Len(submission)
  BY QueueFields DEF TypeOK, QueueTypes
<1>2. Len(submission') = Len(submission)
  BY <1>1
<1>3. \A i \in 2..Len(submission) : submission'[i] = submission[i]
  BY <1>1
<1>4. submission'[1] = [submission[1] EXCEPT !.consumed = TRUE]
  <2> DEFINE marked == [submission[1] EXCEPT !.consumed = TRUE]
  <2>1. submission' = [submission EXCEPT ![1] = marked]
    OBVIOUS
  <2> HIDE DEF marked
  <2>2. submission'[1] = marked
    BY ONLY <1>1, <2>1
  <2> QED  BY <2>2 DEF marked
<1> QED  BY <1>2, <1>3, <1>4

LEMMA JobFields ==
    ASSUME TypeOK, submission # <<>>,
           submission' = [submission EXCEPT ![1].job = TRUE]
    PROVE  /\ Len(submission') = Len(submission)
           /\ \A i \in 2..Len(submission) : submission'[i] = submission[i]
           /\ submission'[1] = [submission[1] EXCEPT !.job = TRUE]
<1>1. /\ submission \in Seq(Segments) /\ Len(submission) \in Nat
      /\ 1 \in 1..Len(submission)
  BY QueueFields DEF TypeOK, QueueTypes
<1>2. Len(submission') = Len(submission)
  BY <1>1
<1>3. \A i \in 2..Len(submission) : submission'[i] = submission[i]
  BY <1>1
<1>4. submission'[1] = [submission[1] EXCEPT !.job = TRUE]
  <2> DEFINE marked == [submission[1] EXCEPT !.job = TRUE]
  <2>1. submission' = [submission EXCEPT ![1] = marked]
    OBVIOUS
  <2> HIDE DEF marked
  <2>2. submission'[1] = marked
    BY ONLY <1>1, <2>1
  <2> QED  BY <2>2 DEF marked
<1> QED  BY <1>2, <1>3, <1>4

(* Each queued segment has a serial of its own.                            *)
LEMMA SerialsDiffer ==
    ASSUME TypeOK, SerialsInOrder
    PROVE  /\ \A i \in 1..Len(submission) :
                  /\ submission[i].serial \in 1..MaxSerial
                  /\ submission[i].serial < nextSerial
                  /\ submission[i].serial > completedSerial
                  /\ \A j \in 1..Len(submission) :
                         submission[i].serial = submission[j].serial => i = j
           /\ \A n \in 1..MaxSerial :
                  \/ n <= completedSerial \/ n >= nextSerial
                  \/ \E i \in 1..Len(submission) : submission[i].serial = n
<1>1. /\ Len(submission) \in Nat /\ completedSerial \in Nat /\ MaxSerial \in Nat
      /\ nextSerial \in Nat /\ nextSerial <= MaxSerial
      /\ nextSerial = completedSerial + Len(submission) + 1
      /\ \A i \in 1..Len(submission) : submission[i].serial = completedSerial + i
  BY QueueAssumption DEF TypeOK, QueueTypes, SerialsInOrder
<1>2. ASSUME NEW n \in 1..MaxSerial, n > completedSerial, n < nextSerial
      PROVE  \E i \in 1..Len(submission) : submission[i].serial = n
  <2>1. n - completedSerial \in 1..Len(submission)
    BY <1>1, <1>2
  <2>2. submission[n - completedSerial].serial = completedSerial + (n - completedSerial)
    BY <1>1, <2>1
  <2>3. completedSerial + (n - completedSerial) = n
    BY <1>1
  <2> QED  BY <2>1, <2>2, <2>3
<1>3. ASSUME NEW i \in 1..Len(submission)
      PROVE  /\ submission[i].serial \in 1..MaxSerial
             /\ submission[i].serial < nextSerial
             /\ submission[i].serial > completedSerial
  BY <1>1
<1>4. ASSUME NEW i \in 1..Len(submission), NEW j \in 1..Len(submission),
             submission[i].serial = submission[j].serial
      PROVE  i = j
  BY <1>1, <1>4
<1>5. ASSUME NEW n \in 1..MaxSerial
      PROVE  \/ n <= completedSerial \/ n >= nextSerial
             \/ \E i \in 1..Len(submission) : submission[i].serial = n
  BY <1>1, <1>2
<1> QED  BY <1>3, <1>4, <1>5

(* What a commit appends.                                                  *)
LEMMA CommittedFields ==
    ASSUME TypeOK, NEW t \in Threads, CommitSubmit(t)
    PROVE  \A k \in 1..Len(chain) :
               LET s == submission'[Len(submission) + k]
               IN  /\ s.serial = SerialAt(k)
                   /\ s.job = PreparedAt(k) /\ s.deferred = DeferredAt(k)
                   /\ s.buffers = chain[k].buffers
                   /\ s.frontend = chain[k].frontend
                   /\ s.waits = chain[k].waits
                   /\ s.consumed = chain[k].consumed
<1> DEFINE committed(k) ==
               [chain[k] EXCEPT !.serial   = SerialAt(k),
                                !.fence    = FenceAt(k, call[t].fence),
                                !.deferred = DeferredAt(k),
                                !.job      = PreparedAt(k)]
           n == Len(chain)
           added == [k \in 1..n |-> committed(k)]
<1>1. /\ submission \in Seq(Segments) /\ Len(submission) \in Nat
      /\ chain \in Seq(Segments) /\ n \in Nat
  BY DEF TypeOK, QueueTypes
<1>2. submission' = submission \o added
  BY DEF CommitSubmit
<1>3. ASSUME NEW k \in 1..n
      PROVE  /\ committed(k).serial   = SerialAt(k)
             /\ committed(k).job = PreparedAt(k)
             /\ committed(k).deferred = DeferredAt(k)
             /\ committed(k).buffers  = chain[k].buffers
             /\ committed(k).frontend = chain[k].frontend
             /\ committed(k).waits    = chain[k].waits
             /\ committed(k).consumed = chain[k].consumed
  <2>1. chain[k] \in Segments
    BY <1>1, ElementOfSeq
  <2> QED  BY <2>1 DEF Segments
<1>4. \A k \in 1..n : submission'[Len(submission) + k] = committed(k)
  <2> HIDE DEF committed
  <2>1. added \in Seq({committed(k) : k \in 1..n}) /\ Len(added) = n
    BY <1>1
  <2> QED  BY <1>1, <1>2, <2>1
<1> QED  BY <1>3, <1>4

-----------------------------------------------------------------------------
(* The jobs. *)

JobsQuiet == UNCHANGED <<submission, jobs, nextSerial, completedSerial>>

(* The steps that touch a segment or a job.                                *)
LEMMA JobKinds ==
    ASSUME [Next]_vars
    PROVE  \/ JobsQuiet
           \/ \E t \in Threads :
                  \/ PollComplete(t) \/ ConsumeWaits(t) \/ ExecuteFrontend(t)
                  \/ RetireEmpty(t) \/ LaunchHead(t) \/ LaunchFailed(t)
                  \/ PrepareJob(t) \/ CommitSubmit(t) \/ RefuseSubmit(t)
           \/ \E n \in 1..MaxSerial : Complete(n)
<1> USE DEF queueVars, deviceVars, JobsQuiet
<1>1. ASSUME NEW t \in Threads, NewCall(t) PROVE JobsQuiet
  BY <1>1 DEF NewCall, SubmitCall, WaitIdleCall, SignalCall, WaitSemaphoresCall,
              WaitFencesCall, EventCall
<1>2. ASSUME NEW t \in Threads, TakesLock(t) PROVE JobsQuiet
  BY <1>2 DEF TakesLock, AdmitSubmit, SignalSemaphore, Progress, WaitFencesAgain,
              WaitReturns, WaitContinues
<1>3. ASSUME NEW t \in Threads,
             \/ DrainSubmit(t) \/ BuildRecord(t)
             \/ PollNothing(t) \/ PollStart(t) \/ PollPending(t) \/ PollFailed(t)
             \/ StartDone(t) \/ FrontendFailed(t)
             \/ SubmitReturns(t) \/ DrainWaitIdle(t) \/ SignalReturns(t) \/ WaitPolled(t)
      PROVE  JobsQuiet
  BY <1>3 DEF DrainSubmit, BuildRecord, PollNothing, PollStart, PollPending, PollFailed, StartDone, FrontendFailed, SubmitReturns,
              DrainWaitIdle, SignalReturns, WaitPolled
<1>4. ASSUME NEW t \in Threads, Unlocked(t) PROVE JobsQuiet
  BY <1>4 DEF Unlocked, SetEvent, ResetEvent
<1>5. ASSUME NEW f \in Fences, ResetFence(f) PROVE JobsQuiet
  BY <1>5 DEF ResetFence
<1>6. ASSUME NEW b \in Buffers, RecordBuffer(b) PROVE JobsQuiet
  BY <1>6 DEF RecordBuffer
<1>7. CASE UNCHANGED vars
  BY <1>7 DEF vars
<1> QED  BY <1>1, <1>2, <1>3, <1>4, <1>5, <1>6, <1>7 DEF Next, HoldsLock

(* No segment has its serial while the head is worked on, or with the lock *)
(* free.                                                                   *)
LEMMA NoneAssigned ==
    ASSUME TypeOK, Locking, Assigning,
           \/ \E t \in Threads : pc[t] \in {"poll", "start"}
           \/ lock = Nobody
    PROVE  assigned = 0
<1>1. chain = <<>> /\ assigned \in Nat
  BY ChainEmpty DEF TypeOK, QueueTypes
<1> QED  BY <1>1 DEF Assigning

(* Nor while records are built.                                            *)
LEMMA NoneWhileBuilding ==
    ASSUME TypeOK, Locking, Assigning, NEW t \in Threads, BuildRecord(t)
    PROVE  assigned = 0
<1>1. /\ pc[t] = "build" /\ call[t].infos # <<>>
      /\ \A u \in Threads : pc[u] = "build" => u = t
  BY DEF BuildRecord, Locking, MutualExclusion, Inside
<1> QED  BY <1>1 DEF Assigning, TypeOK, QueueTypes

(* The other steps of the lock's owner leave the chain and its serials.    *)
LEMMA OwnerAssigns ==
    ASSUME NEW t \in Threads, HoldsLock(t)
    PROVE  \/ BuildRecord(t) \/ PrepareJob(t) \/ CommitSubmit(t) \/ RefuseSubmit(t)
           \/ /\ UNCHANGED <<chain, assigned, nextSerial>>
              /\ pc[t] \in {"poll", "start", "polled"}
<1> USE DEF queueVars
<1>1. CASE DrainSubmit(t) \/ SubmitReturns(t) \/ DrainWaitIdle(t)
           \/ SignalReturns(t) \/ WaitPolled(t)
  BY <1>1 DEF DrainSubmit, SubmitReturns, DrainWaitIdle, SignalReturns, WaitPolled
<1>2. CASE PollNothing(t) \/ PollStart(t) \/ PollPending(t) \/ PollFailed(t)
           \/ StartDone(t) \/ FrontendFailed(t)
  BY <1>2 DEF PollNothing, PollStart, PollPending, PollFailed, StartDone, FrontendFailed
<1>3. CASE PollComplete(t) \/ ExecuteFrontend(t) \/ RetireEmpty(t)
  BY <1>3 DEF PollComplete, ExecuteFrontend, RetireEmpty, Retire
<1>4. CASE ConsumeWaits(t) \/ LaunchHead(t) \/ LaunchFailed(t)
  BY <1>4 DEF ConsumeWaits, LaunchHead, LaunchFailed
<1> QED  BY <1>1, <1>2, <1>3, <1>4 DEF HoldsLock

LEMMA AssigningStep ==
    ASSUME TypeOK, TypeOK', Locking, Assigning, [Next]_vars
    PROVE  Assigning'
<1>1. /\ chain \in Seq(Segments) /\ chain' \in Seq(Segments)
      /\ Len(chain) \in Nat /\ Len(chain') \in Nat
      /\ assigned \in Nat /\ assigned' \in Nat
  BY DEF TypeOK, QueueTypes
<1>2. CASE assigned' = 0
  BY <1>1, <1>2 DEF Assigning
<1>3. ASSUME NEW t \in Threads, Others(t), pc[t] # "build",
             UNCHANGED <<chain, assigned, nextSerial>>
      PROVE  Assigning'
  BY <1>3 DEF Assigning, SerialsLeft, Others
<1>4. ASSUME NEW t \in Threads, PrepareJob(t) PROVE Assigning'
  <2>1. /\ pc'[t] = "build" /\ call'[t].infos = <<>> /\ assigned' = assigned + 1
        /\ assigned < Len(chain) /\ SerialsLeft(Len(chain))
        /\ UNCHANGED <<chain, nextSerial>>
    BY <1>4 DEF PrepareJob, threadVars
  <2> QED  BY <1>1, <2>1 DEF Assigning, SerialsLeft
<1>5. ASSUME NEW t \in Threads, HoldsLock(t) PROVE Assigning'
  <2>1. Others(t)
    BY <1>5, CallStep
  <2>2. CASE BuildRecord(t)
    <3>1. assigned' = 0
      BY <2>2, NoneWhileBuilding DEF BuildRecord
    <3> QED  BY <1>2, <3>1
  <2>3. CASE CommitSubmit(t) \/ RefuseSubmit(t)
    BY <1>2, <2>3 DEF CommitSubmit, RefuseSubmit
  <2> QED  BY <1>3, <1>4, <1>5, <2>1, <2>2, <2>3, OwnerAssigns
<1>6. ASSUME NEW t \in Threads, NewCall(t) PROVE Assigning'
  <2>1. pc[t] # "build" /\ UNCHANGED <<chain, assigned, nextSerial>>
    BY <1>6 DEF NewCall, SubmitCall, WaitIdleCall, SignalCall, EventCall,
                WaitSemaphoresCall, WaitFencesCall, Enter, queueVars
  <2> QED  BY <1>3, <1>6, <2>1, NewCallStep
<1>7. ASSUME NEW t \in Threads, TakesLock(t) \/ Unlocked(t) PROVE Assigning'
  <2>1. pc[t] # "build" /\ UNCHANGED <<chain, assigned, nextSerial>>
    BY <1>7 DEF TakesLock, AdmitSubmit, SignalSemaphore, Progress,
       WaitFencesAgain, WaitReturns, WaitContinues, Unlocked, SetEvent,
       ResetEvent, queueVars
  <2> QED  BY <1>3, <1>7, <2>1, CallStep
<1>8. CASE \/ \E n \in 1..MaxSerial : Complete(n)
           \/ \E f \in Fences : ResetFence(f)
           \/ \E b \in Buffers : RecordBuffer(b)
           \/ UNCHANGED vars
  <2>1. UNCHANGED <<pc, call, chain, assigned, nextSerial>>
    BY <1>8 DEF Complete, ResetFence, RecordBuffer, vars, threadVars, queueVars
  <2> QED  BY <2>1 DEF Assigning, SerialsLeft
<1> QED  BY <1>5, <1>6, <1>7, <1>8 DEF Next

(* The jobs of the chain are what they were, unless the step is about them.*)
ChainQuiet ==
    \/ UNCHANGED <<chain, assigned, value>>
    \/ assigned = 0 /\ assigned' = 0

LEMMA ChainKinds ==
    ASSUME TypeOK, Locking, Assigning, [Next]_vars
    PROVE  \/ ChainQuiet
           \/ \E t \in Threads : PrepareJob(t) \/ CommitSubmit(t) \/ RefuseSubmit(t)
<1> USE DEF queueVars, semVars, ChainQuiet
<1>1. ASSUME NEW t \in Threads, NewCall(t) PROVE ChainQuiet
  BY <1>1 DEF NewCall, SubmitCall, WaitIdleCall, SignalCall, WaitSemaphoresCall,
              WaitFencesCall, EventCall
<1>2. ASSUME NEW t \in Threads, SignalSemaphore(t) PROVE ChainQuiet
  BY <1>2, NoneAssigned DEF SignalSemaphore
<1>3. ASSUME NEW t \in Threads, TakesLock(t) PROVE ChainQuiet
  BY <1>2, <1>3 DEF TakesLock, AdmitSubmit, Progress, WaitFencesAgain,
              WaitReturns, WaitContinues
<1>4. ASSUME NEW t \in Threads, HoldsLock(t)
      PROVE  ChainQuiet \/ PrepareJob(t) \/ CommitSubmit(t) \/ RefuseSubmit(t)
  <2>1. CASE BuildRecord(t)
    BY <2>1, NoneWhileBuilding DEF BuildRecord
  <2>2. CASE pc[t] \in {"poll", "start"} /\ assigned' = assigned
    BY <2>2, NoneAssigned
  <2>3. CASE pc[t] = "polled"
    BY <1>4, <2>3 DEF HoldsLock, DrainSubmit, SubmitReturns, DrainWaitIdle,
       SignalReturns, WaitPolled, BuildRecord, PrepareJob, CommitSubmit,
       RefuseSubmit, PollNothing, PollStart, PollPending, PollFailed, StartDone,
       FrontendFailed, PollComplete, ExecuteFrontend, RetireEmpty, ConsumeWaits,
       LaunchHead, LaunchFailed
  <2> QED  BY <1>4, <2>1, <2>2, <2>3, OwnerAssigns
<1>5. ASSUME NEW t \in Threads, Unlocked(t) PROVE ChainQuiet
  BY <1>5 DEF Unlocked, SetEvent, ResetEvent
<1>6. CASE \/ \E n \in 1..MaxSerial : Complete(n)
           \/ \E f \in Fences : ResetFence(f)
           \/ \E b \in Buffers : RecordBuffer(b)
           \/ UNCHANGED vars
  BY <1>6 DEF Complete, ResetFence, RecordBuffer, vars
<1> QED  BY <1>1, <1>3, <1>4, <1>5, <1>6 DEF Next

LEMMA NonePrepared == assigned = 0 => \A n : ~PreparedInChain(n)
BY DEF PreparedInChain

LEMMA ChainKept ==
    ASSUME ChainQuiet, UNCHANGED <<submission, nextSerial>>, NEW n
    PROVE  PreparedInChain(n)' = PreparedInChain(n)
<1>1. CASE assigned = 0 /\ assigned' = 0
  BY <1>1 DEF PreparedInChain
<1>2. CASE UNCHANGED <<chain, assigned, value>>
  <2>1. \A k : SerialAt(k)' = SerialAt(k)
    BY DEF SerialAt
  <2>2. \A k : PreparedAt(k)' = PreparedAt(k)
    BY <1>2 DEF PreparedAt, DeferredAt, BehindTimelineWait, SeenFrontend,
                TimelineUnsatisfied
  <2> QED  BY <1>2, <2>1, <2>2 DEF PreparedInChain
<1> QED  BY <1>1, <1>2 DEF ChainQuiet

(* The serials of the chain are its own and still free.                    *)
LEMMA ChainSerials ==
    ASSUME TypeOK, SerialsLeft(Len(chain)), NEW k \in 1..Len(chain)
    PROVE  /\ SerialAt(k) \in 1..MaxSerial /\ SerialAt(k) >= nextSerial
           /\ SerialAt(k) < nextSerial + Len(chain)
           /\ \A j \in 1..Len(chain) : SerialAt(k) = SerialAt(j) => k = j
<1>1. /\ Len(chain) \in Nat /\ nextSerial \in Nat \ {0} /\ MaxSerial \in Nat
      /\ nextSerial + Len(chain) - 1 <= MaxSerial
  BY QueueAssumption DEF TypeOK, QueueTypes, SerialsLeft
<1>2. \A j \in 1..Len(chain) : SerialAt(j) = nextSerial + j - 1
  BY DEF SerialAt
<1> QED  BY <1>1, <1>2

LEMMA JobsInit == Init => JobsFollow /\ Assigning
BY DEF Init, JobsFollow, Assigning, PreparedInChain

(* A step that leaves serials and segments where they are and moves the    *)
(* jobs of the head only.                                                  *)
LEMMA JobsOfHead ==
    ASSUME TypeOK, SerialsInOrder, JobsFollow, submission # <<>>,
           assigned = 0, assigned' = 0,
           UNCHANGED <<nextSerial, completedSerial>>,
           Len(submission') = Len(submission),
           \A i \in 2..Len(submission) : submission'[i] = submission[i],
           submission'[1].serial = submission[1].serial,
           \A n \in 1..MaxSerial : n # submission[1].serial => jobs'[n] = jobs[n],
           submission'[1].job =>
               /\ submission'[1].buffers # <<>> /\ ~submission'[1].frontend
               /\ jobs'[submission[1].serial] \in {"prepared", "running", "done"},
           ~submission'[1].job => jobs'[submission[1].serial] = "none",
           jobs'[submission[1].serial] \in {"running", "done"} =>
               submission'[1].consumed
    PROVE  JobsFollow'
<1>1. Len(submission) \in Nat \ {0} /\ 1 \in 1..Len(submission)
  BY QueueFields
<1>2. \A i \in 2..Len(submission) :
          /\ submission[i].serial # submission[1].serial
          /\ submission[i].serial \in 1..MaxSerial
          /\ i \in 1..Len(submission)
  BY <1>1, SerialsDiffer
<1>3. /\ submission[1].serial < nextSerial
      /\ submission[1].serial > completedSerial
      /\ submission[1].serial \in Nat
      /\ nextSerial \in Nat /\ completedSerial \in Nat
  BY <1>1, SerialsDiffer, QueueAssumption DEF TypeOK, QueueTypes
<1>4. \A n \in 1..MaxSerial : (n <= completedSerial \/ n >= nextSerial) =>
          jobs'[n] = jobs[n]
  BY <1>3
<1>5. ASSUME NEW i \in 1..Len(submission')
      PROVE  /\ submission'[i].job =>
                  /\ submission'[i].buffers # <<>> /\ ~submission'[i].frontend
                  /\ jobs'[submission'[i].serial] \in {"prepared", "running", "done"}
             /\ ~submission'[i].job => jobs'[submission'[i].serial] = "none"
             /\ jobs'[submission'[i].serial] \in {"running", "done"} =>
                  i = 1 /\ submission'[1].consumed
  <2>1. CASE i = 1
    BY <2>1
  <2>2. CASE i # 1
    <3>1. i \in 2..Len(submission)
      BY <1>1, <2>2
    <3>2. submission'[i] = submission[i]
          /\ jobs'[submission[i].serial] = jobs[submission[i].serial]
      BY <1>2, <3>1
    <3>3. i \in 1..Len(submission)
      BY <1>2, <3>1
    <3> QED  BY <2>2, <3>2, <3>3 DEF JobsFollow
  <2> QED  BY <2>1, <2>2
<1>6. \A n : ~PreparedInChain(n) /\ ~PreparedInChain(n)'
  BY NonePrepared DEF PreparedInChain
<1> QED  BY <1>4, <1>5, <1>6 DEF JobsFollow

(* The head leaves the queue, with its job released or never prepared.     *)
LEMMA JobsOnRetire ==
    ASSUME TypeOK, SerialsInOrder, JobsFollow, submission # <<>>, Retire,
           assigned = 0,
           jobs' \in [1..MaxSerial -> JobStates],
           \A n \in 1..MaxSerial : n # submission[1].serial => jobs'[n] = jobs[n],
           jobs'[submission[1].serial] \in {"none", "released"}
    PROVE  JobsFollow' /\ ~HeadRuns'
<1>1. /\ Len(submission) \in Nat \ {0} /\ 1 \in 1..Len(submission)
      /\ Len(submission') = Len(submission) - 1
      /\ \A i \in 1..Len(submission') : submission'[i] = submission[i + 1]
  BY QueueFields, RetiredRecords
<1>2. /\ completedSerial' = submission[1].serial /\ nextSerial' = nextSerial
      /\ submission[1].serial = completedSerial + 1
      /\ completedSerial \in Nat /\ nextSerial \in Nat
  BY <1>1, QueueAssumption DEF Retire, QueueHead, SerialsInOrder, TypeOK, QueueTypes
<1>3. ASSUME NEW i \in 1..Len(submission')
      PROVE  /\ i + 1 \in 1..Len(submission) /\ i + 1 # 1
             /\ submission'[i] = submission[i + 1]
             /\ jobs'[submission'[i].serial] = jobs[submission[i + 1].serial]
  <2>1. i + 1 \in 1..Len(submission) /\ i + 1 # 1 /\ submission'[i] = submission[i + 1]
    BY <1>1
  <2>2. submission[i + 1].serial # submission[1].serial
        /\ submission[i + 1].serial \in 1..MaxSerial
    BY <1>1, <2>1, SerialsDiffer
  <2> QED  BY <2>1, <2>2
<1>4. ASSUME NEW i \in 1..Len(submission')
      PROVE  /\ submission'[i].job =>
                  /\ submission'[i].buffers # <<>> /\ ~submission'[i].frontend
                  /\ jobs'[submission'[i].serial] \in {"prepared", "running", "done"}
             /\ ~submission'[i].job => jobs'[submission'[i].serial] = "none"
             /\ jobs'[submission'[i].serial] \notin {"running", "done"}
  <2>1. /\ i + 1 \in 1..Len(submission) /\ i + 1 # 1
        /\ submission'[i] = submission[i + 1]
        /\ jobs'[submission'[i].serial] = jobs[submission[i + 1].serial]
    BY <1>3
  <2>2. ASSUME NEW k \in 1..Len(submission), k # 1
        PROVE  /\ submission[k].job =>
                    /\ submission[k].buffers # <<>> /\ ~submission[k].frontend
                    /\ jobs[submission[k].serial] \in {"prepared", "running", "done"}
               /\ ~submission[k].job => jobs[submission[k].serial] = "none"
               /\ jobs[submission[k].serial] \notin {"running", "done"}
    BY <2>2 DEF JobsFollow
  <2> QED  BY <2>1, <2>2
<1>5. ASSUME NEW n \in 1..MaxSerial
      PROVE  /\ n <= completedSerial' => jobs'[n] \in {"none", "released"}
             /\ n >= nextSerial' =>
                    jobs'[n] = "none" /\ ~PreparedInChain(n)'
  <2> USE NonePrepared
  <2>0. ~PreparedInChain(n)'
    BY DEF PreparedInChain, Retire
  <2>1. submission[1].serial < nextSerial /\ submission[1].serial \in 1..MaxSerial
    BY <1>1, SerialsDiffer
  <2>2. CASE n = submission[1].serial
    BY <1>2, <2>0, <2>1, <2>2
  <2>3. CASE n # submission[1].serial
    BY <1>2, <2>0, <2>1, <2>3 DEF JobsFollow
  <2> QED  BY <2>2, <2>3
<1>6. JobsFollow'
  BY <1>4, <1>5 DEF JobsFollow
<1>7. ~HeadRuns'
  <2>1. SUFFICES ASSUME submission' # <<>>
                 PROVE  jobs'[submission'[1].serial] \notin {"running", "done"}
    BY DEF HeadRuns
  <2>2. submission' \in Seq(Segments)
    BY HeadTypes DEF Retire
  <2>3. 1 \in 1..Len(submission')
    BY <2>1, <2>2, EmptySeq
  <2> QED  BY <1>4, <2>3
<1> QED  BY <1>6, <1>7

(* A running job is that of the head.                                      *)
LEMMA RunsAtHead ==
    ASSUME TypeOK, SerialsInOrder, JobsFollow,
           NEW n \in 1..MaxSerial, jobs[n] \in {"running", "done"}
    PROVE  /\ submission # <<>> /\ n = submission[1].serial
           /\ submission[1].consumed /\ submission[1].job
<1>1. ~(n <= completedSerial) /\ ~(n >= nextSerial)
  BY DEF JobsFollow
<1>2. PICK i \in 1..Len(submission) : submission[i].serial = n
  BY <1>1, SerialsDiffer
<1>3. i = 1 /\ submission[1].consumed /\ submission[1].job
  BY <1>2 DEF JobsFollow
<1>4. submission # <<>>
  BY <1>2
<1> QED  BY <1>2, <1>3, <1>4

(* The job of the next segment is fresh: its serial was never used.        *)
LEMMA JobsOnPrepare ==
    ASSUME TypeOK, SerialsInOrder, JobsFollow, Assigning,
           NEW t \in Threads, PrepareJob(t)
    PROVE  JobsFollow'
<1> DEFINE k == assigned + 1
<1>1. /\ assigned \in Nat /\ Len(chain) \in Nat /\ k \in 1..Len(chain)
      /\ SerialsLeft(Len(chain)) /\ assigned' = k /\ nextSerial \in Nat
      /\ UNCHANGED <<submission, chain, nextSerial, completedSerial, value>>
      /\ \A n \in 1..MaxSerial :
             jobs'[n] = IF n = SerialAt(k) /\ PreparedAt(k)
                        THEN Prepared(jobs[n]) ELSE jobs[n]
  BY QueueAssumption DEF PrepareJob, TypeOK, QueueTypes, semVars
<1>2. /\ \A j : SerialAt(j)' = SerialAt(j)
      /\ \A j : PreparedAt(j)' = PreparedAt(j)
  BY <1>1 DEF SerialAt, PreparedAt, DeferredAt, BehindTimelineWait, SeenFrontend,
              TimelineUnsatisfied
<1>3. /\ SerialAt(k) \in 1..MaxSerial /\ SerialAt(k) >= nextSerial
      /\ \A j \in 1..Len(chain) : SerialAt(k) = SerialAt(j) => k = j
  BY <1>1, ChainSerials
<1>4. ~PreparedInChain(SerialAt(k)) /\ jobs[SerialAt(k)] = "none"
  <2>1. \A j \in 1..assigned : j \in 1..Len(chain) /\ j # k
    BY <1>1
  <2>2. ~PreparedInChain(SerialAt(k))
    BY <1>3, <2>1 DEF PreparedInChain
  <2> QED  BY <1>3, <2>2 DEF JobsFollow
<1>5. \A n : PreparedInChain(n)' <=>
              PreparedInChain(n) \/ (n = SerialAt(k) /\ PreparedAt(k))
  <2>1. 1..assigned' = (1..assigned) \cup {k}
    BY <1>1
  <2> HIDE DEF k
  <2> QED  BY <1>2, <2>1 DEF PreparedInChain
<1>6. \A n \in 1..MaxSerial :
          jobs'[n] = IF n = SerialAt(k) /\ PreparedAt(k) THEN "prepared" ELSE jobs[n]
  BY <1>1, <1>4 DEF Prepared
<1> HIDE DEF k
<1>7. ASSUME NEW n \in 1..MaxSerial, n < nextSerial PROVE jobs'[n] = jobs[n]
  <2>1. n # SerialAt(k)
    BY <1>1, <1>3, <1>7
  <2> QED  BY <1>6, <2>1
<1>8. ASSUME NEW n \in 1..MaxSerial
      PROVE  /\ n <= completedSerial => jobs'[n] \in {"none", "released"}
             /\ n >= nextSerial =>
                    jobs'[n] = IF PreparedInChain(n)' THEN "prepared" ELSE "none"
  <2>1. n <= completedSerial => n < nextSerial
    BY <1>1, QueueAssumption DEF TypeOK, QueueTypes, SerialsInOrder
  <2>2. n <= completedSerial => jobs'[n] \in {"none", "released"}
    BY <1>7, <2>1 DEF JobsFollow
  <2> QED  BY <1>5, <1>6, <2>2 DEF JobsFollow
<1>9. \A i \in 1..Len(submission) : jobs'[submission[i].serial] = jobs[submission[i].serial]
  BY <1>7, SerialsDiffer
<1> QED  BY <1>1, <1>8, <1>9 DEF JobsFollow

(* A refused submission gives its jobs back, and their serials are free.   *)
LEMMA JobsOnRefuse ==
    ASSUME TypeOK, SerialsInOrder, JobsFollow, Assigning,
           NEW t \in Threads, RefuseSubmit(t)
    PROVE  JobsFollow'
<1>1. /\ UNCHANGED <<submission, nextSerial, completedSerial>> /\ assigned' = 0
      /\ \A n \in 1..MaxSerial :
             jobs'[n] = IF PreparedInChain(n) THEN Discarded(jobs[n]) ELSE jobs[n]
      /\ nextSerial \in Nat /\ Len(chain) \in Nat /\ assigned \in Nat
  BY QueueAssumption DEF RefuseSubmit, TypeOK, QueueTypes
<1>2. ASSUME NEW n \in 1..MaxSerial, n < nextSerial PROVE jobs'[n] = jobs[n]
  <2>1. ASSUME NEW k \in 1..assigned PROVE n # SerialAt(k)
    <3>1. k \in Nat /\ k >= 1
      OBVIOUS
    <3> QED  BY <1>1, <1>2, <3>1 DEF SerialAt
  <2> QED  BY <1>1, <2>1 DEF PreparedInChain
<1>3. ASSUME NEW n \in 1..MaxSerial
      PROVE  /\ n <= completedSerial => jobs'[n] \in {"none", "released"}
             /\ n >= nextSerial => jobs'[n] = "none" /\ ~PreparedInChain(n)'
  <2>1. n <= completedSerial => n < nextSerial
    BY <1>1, QueueAssumption DEF TypeOK, QueueTypes, SerialsInOrder
  <2>2. n <= completedSerial => jobs'[n] \in {"none", "released"}
    BY <1>2, <2>1 DEF JobsFollow
  <2>3. ~PreparedInChain(n)'
    BY <1>1 DEF PreparedInChain
  <2> QED  BY <1>1, <2>2, <2>3 DEF JobsFollow, Discarded
<1>4. \A i \in 1..Len(submission) : jobs'[submission[i].serial] = jobs[submission[i].serial]
  BY <1>2, SerialsDiffer
<1> QED  BY <1>1, <1>3, <1>4 DEF JobsFollow

LEMMA JobsOnCommit ==
    ASSUME TypeOK, SerialsInOrder, JobsFollow, NEW t \in Threads, CommitSubmit(t)
    PROVE  JobsFollow'
<1>1. /\ Len(submission) \in Nat /\ Len(chain) \in Nat
      /\ Len(submission') = Len(submission) + Len(chain)
      /\ \A i \in 1..Len(submission) : submission'[i] = submission[i]
  BY CommittedRecords
<1>2. /\ nextSerial \in Nat \ {0} /\ MaxSerial \in Nat /\ completedSerial \in Nat
      /\ SerialsLeft(Len(chain)) /\ assigned = Len(chain) /\ assigned' = 0
      /\ nextSerial' = nextSerial + Len(chain) /\ completedSerial' = completedSerial
      /\ completedSerial < nextSerial
  <2>1. /\ SerialsLeft(Len(chain)) /\ assigned = Len(chain) /\ assigned' = 0
        /\ nextSerial' = nextSerial + Len(chain) /\ completedSerial' = completedSerial
    BY DEF CommitSubmit
  <2>2. /\ nextSerial \in Nat \ {0} /\ MaxSerial \in Nat /\ completedSerial \in Nat
        /\ nextSerial = completedSerial + Len(submission) + 1
    BY QueueAssumption DEF TypeOK, QueueTypes, SerialsInOrder
  <2> QED  BY <1>1, <2>1, <2>2
<1>3. jobs' = jobs
  BY DEF CommitSubmit, deviceVars
<1>4. ASSUME NEW k \in 1..Len(chain)
      PROVE  /\ SerialAt(k) \in 1..MaxSerial /\ SerialAt(k) >= nextSerial
             /\ SerialAt(k) < nextSerial + Len(chain)
             /\ \A j \in 1..Len(chain) : SerialAt(k) = SerialAt(j) => k = j
  BY <1>2, ChainSerials
<1>5. ASSUME NEW k \in 1..Len(chain)
      PROVE  jobs'[SerialAt(k)] = IF PreparedAt(k) THEN "prepared" ELSE "none"
  <2>1. PreparedInChain(SerialAt(k)) <=> PreparedAt(k)
    BY <1>2, <1>4 DEF PreparedInChain
  <2> QED  BY <1>3, <1>4, <2>1 DEF JobsFollow
<1>6. ASSUME NEW n \in 1..MaxSerial, n >= nextSerial + Len(chain)
      PROVE  jobs[n] = "none"
  <2>1. \A k \in 1..Len(chain) : n # SerialAt(k)
    BY <1>1, <1>2, <1>4, <1>6
  <2>2. ~PreparedInChain(n)
    BY <1>2, <2>1 DEF PreparedInChain
  <2>3. n >= nextSerial
    BY <1>1, <1>2, <1>6
  <2> QED  BY <2>2, <2>3 DEF JobsFollow
<1>7. ASSUME NEW i \in 1..Len(submission')
      PROVE  /\ submission'[i].job =>
                  /\ submission'[i].buffers # <<>> /\ ~submission'[i].frontend
                  /\ jobs'[submission'[i].serial] \in {"prepared", "running", "done"}
             /\ ~submission'[i].job => jobs'[submission'[i].serial] = "none"
             /\ jobs'[submission'[i].serial] \in {"running", "done"} =>
                  i = 1 /\ submission'[1].consumed
  <2>1. CASE i \in 1..Len(submission)
    <3>1. submission[i].serial \in 1..MaxSerial /\ submission[i].serial < nextSerial
      BY <2>1, SerialsDiffer
    <3>2. submission'[i] = submission[i]
          /\ jobs'[submission[i].serial] = jobs[submission[i].serial]
      BY <1>1, <1>3, <2>1, <3>1
    <3>3. i = 1 => submission'[1] = submission[1]
      BY <3>2
    <3> QED  BY <2>1, <3>2, <3>3 DEF JobsFollow
  <2>2. CASE i \notin 1..Len(submission)
    <3>1. i - Len(submission) \in 1..Len(chain)
          /\ i = Len(submission) + (i - Len(submission))
      BY <1>1, <2>2
    <3>2. PICK k \in 1..Len(chain) : i = Len(submission) + k
      BY <3>1
    <3>3. /\ submission'[i].serial = SerialAt(k) /\ submission'[i].job = PreparedAt(k)
          /\ submission'[i].buffers = chain[k].buffers
          /\ submission'[i].frontend = chain[k].frontend
      BY <3>2, CommittedFields
    <3> QED  BY <1>5, <3>3 DEF PreparedAt
  <2> QED  BY <2>1, <2>2
<1>8. ASSUME NEW n \in 1..MaxSerial
      PROVE  /\ n <= completedSerial' => jobs'[n] \in {"none", "released"}
             /\ n >= nextSerial' => jobs'[n] = "none" /\ ~PreparedInChain(n)'
  <2>1. ~PreparedInChain(n)'
    BY <1>2 DEF PreparedInChain
  <2> QED  BY <1>2, <1>3, <1>6, <2>1 DEF JobsFollow
<1> QED  BY <1>7, <1>8 DEF JobsFollow

(* A head that retires in poll_locked had its job reported, one that       *)
(* retires in start_submission never had one.                              *)
LEMMA RetireKinds ==
    ASSUME TypeOK, TypeOK', Locking, SerialsInOrder, JobsFollow, Assigning,
           NEW t \in Threads, PollComplete(t) \/ ExecuteFrontend(t) \/ RetireEmpty(t)
    PROVE  JobsFollow' /\ ~HeadRuns'
<1>1. jobs' \in [1..MaxSerial -> JobStates] /\ jobs \in [1..MaxSerial -> JobStates]
  BY DEF TypeOK, DeviceTypes
<1>2. submission # <<>> /\ Retire /\ assigned = 0
  BY NoneAssigned DEF PollComplete, ExecuteFrontend, RetireEmpty, NothingToPoll
<1>3. 1 \in 1..Len(submission) /\ submission[1].serial \in 1..MaxSerial
  BY <1>2, QueueFields, SerialsDiffer
<1>4. CASE PollComplete(t)
  <2>1. /\ jobs' = [jobs EXCEPT ![submission[1].serial] =
                                    Released(jobs[submission[1].serial])]
        /\ jobs[submission[1].serial] = "done"
    BY <1>4 DEF PollComplete, QueueHead
  <2>2. /\ \A n \in 1..MaxSerial : n # submission[1].serial => jobs'[n] = jobs[n]
        /\ jobs'[submission[1].serial] = "released"
    BY <1>1, <1>3, <2>1 DEF Released
  <2> QED  BY <1>1, <1>2, <2>2, JobsOnRetire
<1>5. CASE ExecuteFrontend(t) \/ RetireEmpty(t)
  <2>1. jobs' = jobs /\ (submission[1].frontend \/ submission[1].buffers = <<>>)
    BY <1>5 DEF ExecuteFrontend, RetireEmpty, QueueHead, deviceVars
  <2>2. jobs[submission[1].serial] = "none"
    BY <1>3, <2>1 DEF JobsFollow
  <2> QED  BY <1>1, <1>2, <2>1, <2>2, JobsOnRetire
<1> QED  BY <1>4, <1>5

LEMMA JobsOnLaunch ==
    ASSUME TypeOK, Locking, SerialsInOrder, JobsFollow, Assigning, Startable,
           NEW t \in Threads, LaunchHead(t) \/ LaunchFailed(t)
    PROVE  JobsFollow'
<1> DEFINE n == submission[1].serial
<1>1. /\ submission # <<>> /\ submission[1].consumed /\ ~submission[1].frontend
      /\ submission[1].buffers # <<>> /\ pc[t] = "start"
      /\ UNCHANGED <<nextSerial, completedSerial>>
      /\ assigned = 0 /\ assigned' = 0
  BY NoneAssigned DEF LaunchHead, LaunchFailed, ReadyToLaunch, QueueHead
<1>2. /\ 1 \in 1..Len(submission) /\ n \in 1..MaxSerial
      /\ submission[1] \in Segments
      /\ jobs \in [1..MaxSerial -> JobStates]
  BY <1>1, QueueFields, SerialsDiffer DEF TypeOK, DeviceTypes
<1>3. jobs[n] = IF submission[1].job THEN "prepared" ELSE "none"
  BY <1>1, <1>2 DEF JobsFollow, Startable, HeadRuns
<1>4. CASE submission' = submission /\ jobs' = jobs
  BY <1>4, <1>1 DEF JobsFollow, PreparedInChain
<1>5. ASSUME submission' = [submission EXCEPT ![1].job = TRUE],
             NEW j \in {"prepared", "running"}, jobs' = [jobs EXCEPT ![n] = j]
      PROVE  JobsFollow'
  <2>1. /\ Len(submission') = Len(submission)
        /\ \A i \in 2..Len(submission) : submission'[i] = submission[i]
        /\ submission'[1] = [submission[1] EXCEPT !.job = TRUE]
    BY <1>1, <1>5, JobFields
  <2>2. /\ submission'[1].serial = n /\ submission'[1].job
        /\ submission'[1].buffers = submission[1].buffers
        /\ submission'[1].frontend = submission[1].frontend
        /\ submission'[1].consumed = submission[1].consumed
    BY ONLY <1>2, <2>1 DEF Segments
  <2>3. /\ \A m \in 1..MaxSerial : m # n => jobs'[m] = jobs[m]
        /\ jobs'[n] = j
    BY <1>2, <1>5
  <2> HIDE DEF n
  <2>4. n = submission[1].serial
    BY DEF n
  <2> QED  BY <1>1, <1>5, <2>1, <2>2, <2>3, <2>4, JobsOfHead
<1>6. CASE LaunchHead(t)
  <2>1. /\ submission' = [submission EXCEPT ![1].job = TRUE]
        /\ jobs' = [jobs EXCEPT ![n] =
               Launched(IF submission[1].job THEN jobs[n] ELSE Prepared(jobs[n]))]
    BY <1>6 DEF LaunchHead, QueueHead
  <2>2. Launched(IF submission[1].job THEN jobs[n] ELSE Prepared(jobs[n])) = "running"
    BY <1>3 DEF Launched, Prepared
  <2> QED  BY <1>5, <2>1, <2>2
<1>7. CASE LaunchFailed(t)
  <2>1. \/ submission' = submission /\ jobs' = jobs
        \/ /\ submission' = [submission EXCEPT ![1].job = TRUE]
           /\ jobs' = [jobs EXCEPT ![n] =
                  IF submission[1].job THEN jobs[n] ELSE Prepared(jobs[n])]
    BY <1>7 DEF LaunchFailed, QueueHead
  <2>2. (IF submission[1].job THEN jobs[n] ELSE Prepared(jobs[n])) = "prepared"
    BY <1>3 DEF Prepared
  <2> QED  BY <1>4, <1>5, <2>1, <2>2
<1> QED  BY <1>6, <1>7

LEMMA JobsStep ==
    ASSUME TypeOK, TypeOK', Locking, SerialsInOrder, JobsFollow, Assigning,
           Startable, [Next]_vars
    PROVE  JobsFollow'
<1>1. CASE JobsQuiet /\ ChainQuiet
  <2>1. \A n : PreparedInChain(n)' = PreparedInChain(n)
    BY <1>1, ChainKept DEF JobsQuiet
  <2> QED  BY <1>1, <2>1 DEF JobsQuiet, JobsFollow
<1>2. ASSUME NEW t \in Threads, ConsumeWaits(t) PROVE JobsFollow'
  <2>1. /\ submission # <<>> /\ UNCHANGED <<nextSerial, completedSerial, jobs>>
        /\ \/ submission' = submission
           \/ submission' = [submission EXCEPT ![1].consumed = TRUE]
        /\ assigned = 0 /\ assigned' = 0
    BY <1>2, NoneAssigned DEF ConsumeWaits
  <2>2. CASE submission' = submission
    BY <2>1, <2>2 DEF JobsFollow, PreparedInChain
  <2>3. CASE submission' = [submission EXCEPT ![1].consumed = TRUE]
    <3>1. /\ Len(submission') = Len(submission)
          /\ \A i \in 2..Len(submission) : submission'[i] = submission[i]
          /\ submission'[1] = [submission[1] EXCEPT !.consumed = TRUE]
      BY <2>1, <2>3, ConsumedFields
    <3>2. 1 \in 1..Len(submission) /\ submission[1] \in Segments
      BY <2>1, QueueFields
    <3>3. /\ submission'[1].serial = submission[1].serial
          /\ submission'[1].job = submission[1].job
          /\ submission'[1].buffers = submission[1].buffers
          /\ submission'[1].frontend = submission[1].frontend
          /\ submission'[1].consumed
      BY ONLY <3>1, <3>2 DEF Segments
    <3>4. /\ submission[1].job =>
               /\ submission[1].buffers # <<>> /\ ~submission[1].frontend
               /\ jobs[submission[1].serial] \in {"prepared", "running", "done"}
          /\ ~submission[1].job => jobs[submission[1].serial] = "none"
      BY <3>2 DEF JobsFollow
    <3> QED  BY <2>1, <3>1, <3>3, <3>4, JobsOfHead
  <2> QED  BY <2>1, <2>2, <2>3
<1>3. ASSUME NEW n \in 1..MaxSerial, Complete(n) PROVE JobsFollow'
  <2>1. /\ jobs[n] = "running" /\ jobs' = [jobs EXCEPT ![n] = "done"]
        /\ UNCHANGED <<submission, nextSerial, completedSerial>>
        /\ jobs \in [1..MaxSerial -> JobStates]
    BY <1>3 DEF Complete, queueVars, TypeOK, DeviceTypes
  <2>2. /\ submission # <<>> /\ n = submission[1].serial
        /\ submission[1].consumed /\ submission[1].job
    BY <2>1, RunsAtHead
  <2>3. /\ submission[1].buffers # <<>> /\ ~submission[1].frontend
    BY <2>2, QueueFields DEF JobsFollow
  <2>4. jobs'[n] = "done" /\ \A m \in 1..MaxSerial : m # n => jobs'[m] = jobs[m]
    BY <2>1
  <2>5. assigned = 0 /\ assigned' = 0
    <3>1. \A t \in Threads : pc[t] # "build"
      BY <2>2 DEF Startable
    <3> QED  BY <1>3, <3>1 DEF Assigning, Complete, queueVars, TypeOK, QueueTypes
  <2> QED  BY <2>1, <2>2, <2>3, <2>4, <2>5, JobsOfHead
<1> QED
  BY <1>1, <1>2, <1>3, JobKinds, ChainKinds, RetireKinds, JobsOnLaunch,
     JobsOnPrepare, JobsOnCommit, JobsOnRefuse

-----------------------------------------------------------------------------
(* Where threads start and build. *)

(* A thread that arrives at start_submission, or at its records, comes     *)
(* from a place that allows it; only it can bring the others out of place, *)
(* and they are not in the queue.                                          *)
LEMMA StartsOnlyFrom ==
    ASSUME TypeOK, NEW t \in Threads, TakesLock(t) \/ NewCall(t) \/ Unlocked(t)
    PROVE  pc'[t] \notin {"start", "build"} /\ JobsQuiet /\ lost' = lost
<1> USE DEF TypeOK, ThreadTypes, Return, Goto, Enter, JobsQuiet, queueVars, deviceVars
<1>1. CASE NewCall(t)
  BY <1>1 DEF NewCall, SubmitCall, WaitIdleCall, SignalCall, WaitSemaphoresCall,
              WaitFencesCall, EventCall
<1>2. CASE TakesLock(t)
  BY <1>2 DEF TakesLock, AdmitSubmit, SignalSemaphore, Progress, WaitFencesAgain,
              WaitReturns, WaitContinues
<1>3. CASE Unlocked(t)
  BY <1>3 DEF Unlocked, SetEvent, ResetEvent
<1> QED  BY <1>1, <1>2, <1>3

(* The head, as the queue reads it.                                        *)
HeadFree == submission = <<>> \/ ~submission[1].consumed

LEMMA HeadFreeRests ==
    ASSUME TypeOK, SerialsInOrder, JobsFollow, HeadFree
    PROVE  ~HeadRuns
<1>1. SUFFICES ASSUME submission # <<>> PROVE ~HeadRuns
  BY DEF HeadRuns
<1>2. 1 \in 1..Len(submission)
  BY <1>1, QueueFields
<1> QED  BY <1>1, <1>2 DEF JobsFollow, HeadFree, HeadRuns

(* The thread that owns the lock.                                          *)
LEMMA StartableOwner ==
    ASSUME TypeOK, TypeOK', Locking, SerialsInOrder, SerialsInOrder', JobsFollow,
           Assigning, Startable, NEW t \in Threads, HoldsLock(t)
    PROVE  /\ pc'[t] = "start" => ~HeadRuns' /\ ~lost'
           /\ pc'[t] = "build" => HeadFree' /\ ~lost'
<1> USE DEF TypeOK, ThreadTypes, Return, Goto
<1>1. CASE DrainSubmit(t)
  <2>1. pc'[t] # "start" /\ (pc'[t] = "build" => ~lost /\ Drained)
        /\ UNCHANGED <<submission, lost>>
    BY <1>1 DEF DrainSubmit, queueVars, deviceVars
  <2> QED  BY <2>1 DEF Drained, HeadWaitsOnTimeline, QueueHead, HeadFree
<1>2. CASE SubmitReturns(t) \/ DrainWaitIdle(t) \/ SignalReturns(t) \/ WaitPolled(t)
  BY <1>2 DEF SubmitReturns, DrainWaitIdle, SignalReturns, WaitPolled
<1>3. CASE BuildRecord(t) \/ PrepareJob(t)
  <2>1. pc[t] = "build" /\ pc'[t] \in {"build", "idle"} /\ UNCHANGED <<submission, lost>>
    BY <1>3 DEF BuildRecord, PrepareJob, threadVars, deviceVars
  <2> QED  BY <2>1 DEF Startable, HeadFree
<1>4. CASE RefuseSubmit(t) \/ PollNothing(t) \/ PollPending(t) \/ PollFailed(t)
           \/ StartDone(t) \/ FrontendFailed(t) \/ LaunchHead(t) \/ LaunchFailed(t)
  BY <1>4 DEF RefuseSubmit, PollNothing, PollPending, PollFailed, StartDone,
              FrontendFailed, LaunchHead, LaunchFailed
<1>5. CASE PollStart(t)
  <2>1. /\ pc'[t] = "start" /\ ~lost /\ submission # <<>> /\ NeedsStart(submission[1])
        /\ UNCHANGED <<submission, jobs, lost>>
    BY <1>5 DEF PollStart, NothingToPoll, QueueHead, queueVars, deviceVars
  <2>2. 1 \in 1..Len(submission)
    BY <2>1, QueueFields
  <2>3. ~HeadRuns
    BY <2>1, <2>2 DEF NeedsStart, HeadRuns, JobsFollow
  <2> QED  BY <2>1, <2>3 DEF HeadRuns
<1>6. CASE PollComplete(t) \/ ExecuteFrontend(t) \/ RetireEmpty(t)
  <2>1. ~HeadRuns'
    BY <1>6, RetireKinds
  <2>2. pc'[t] = "start" /\ lost' = lost /\ ~lost
    BY <1>6 DEF PollComplete, ExecuteFrontend, RetireEmpty, NothingToPoll,
                deviceVars, Startable
  <2> QED  BY <2>1, <2>2
<1>7. CASE ConsumeWaits(t)
  <2>1. pc[t] = "start" /\ jobs' = jobs /\ submission # <<>>
        /\ \/ pc'[t] = "polled"
           \/ /\ pc' = pc /\ lost' = lost
              /\ submission' = [submission EXCEPT ![1].consumed = TRUE]
    BY <1>7 DEF ConsumeWaits
  <2>2. CASE pc'[t] = "polled"
    BY <2>2
  <2>3. CASE /\ pc' = pc /\ lost' = lost
             /\ submission' = [submission EXCEPT ![1].consumed = TRUE]
    <3>1. submission'[1] = [submission[1] EXCEPT !.consumed = TRUE]
      BY <2>1, <2>3, ConsumedFields
    <3>2. submission[1] \in Segments
      BY <2>1, QueueFields
    <3>3. submission'[1].serial = submission[1].serial
      BY ONLY <3>1, <3>2 DEF Segments
    <3> QED  BY <2>1, <2>3, <3>3 DEF HeadRuns, Startable
  <2> QED  BY <2>1, <2>2, <2>3
<1>8. CASE CommitSubmit(t)
  <2>1. pc[t] = "build" /\ pc'[t] = "start" /\ lost' = lost /\ jobs' = jobs
    BY <1>8 DEF CommitSubmit, deviceVars
  <2>2. HeadFree /\ ~lost
    BY <2>1 DEF Startable, HeadFree
  <2>3. ~HeadRuns'
    <3>1. SUFFICES ASSUME submission' # <<>>
                   PROVE  jobs'[submission'[1].serial] \notin {"running", "done"}
      BY DEF HeadRuns
    <3>2. submission'[1].serial \in 1..MaxSerial
      <4>1. /\ submission' \in Seq(Segments) /\ completedSerial' \in Nat
            /\ nextSerial' \in 1..MaxSerial /\ MaxSerial \in Nat
        BY QueueAssumption DEF QueueTypes
      <4>2. 1 \in 1..Len(submission') /\ Len(submission') \in Nat
        BY <3>1, <4>1, EmptySeq
      <4>3. /\ submission'[1].serial = completedSerial' + 1
            /\ nextSerial' = completedSerial' + Len(submission') + 1
        BY <4>2 DEF SerialsInOrder
      <4>4. Len(submission') >= 1
        BY <4>2
      <4>5. completedSerial' + 1 \in 1..MaxSerial
        <5>1. PICK c \in Nat : c = completedSerial'
          BY <4>1
        <5>2. PICK l \in Nat : l = Len(submission')
          BY <4>2
        <5>3. PICK n \in 1..MaxSerial : n = nextSerial'
          BY <4>1
        <5>4. n = c + l + 1 /\ l >= 1
          BY <4>3, <4>4, <5>1, <5>2, <5>3
        <5>5. c + 1 \in 1..MaxSerial
          <6>1. c \in Nat /\ l \in Nat /\ n \in 1..MaxSerial /\ MaxSerial \in Nat
            BY <4>1
          <6> QED  BY ONLY <5>4, <6>1
        <5> QED  BY ONLY <5>1, <5>5
      <4> QED  BY <4>3, <4>5
    <3>3. \A n \in 1..MaxSerial : jobs[n] \notin {"running", "done"}
      BY <2>2, RunsAtHead DEF HeadFree
    <3> QED  BY <2>1, <3>2, <3>3
  <2> QED  BY <2>1, <2>2, <2>3
<1> QED  BY <1>1, <1>2, <1>3, <1>4, <1>5, <1>6, <1>7, <1>8 DEF HoldsLock

LEMMA StartableStep ==
    ASSUME TypeOK, TypeOK', SerialsInOrder, SerialsInOrder', Locking,
           JobsFollow, Assigning, Startable, [Next]_vars
    PROVE  Startable'
<1>1. ASSUME NEW t \in Threads, NewCall(t) \/ TakesLock(t) \/ Unlocked(t)
      PROVE  Startable'
  <2>1. pc'[t] \notin {"start", "build"} /\ JobsQuiet /\ lost' = lost
    BY <1>1, StartsOnlyFrom
  <2>2. Others(t)
    BY <1>1, NewCallStep, CallStep
  <2> QED  BY <2>1, <2>2 DEF JobsQuiet, Others, Startable, HeadRuns
<1>2. ASSUME NEW t \in Threads, HoldsLock(t) PROVE Startable'
  <2>1. \A u \in Threads : pc[u] \in {"start", "build"} => u = t
    BY <1>2, InsideLocking DEF Locking, MutualExclusion, Inside
  <2>2. Others(t)
    BY <1>2, CallStep
  <2>3. /\ pc'[t] = "start" => ~HeadRuns' /\ ~lost'
        /\ pc'[t] = "build" => HeadFree' /\ ~lost'
    BY <1>2, StartableOwner
  <2> QED  BY <2>1, <2>2, <2>3 DEF Others, Startable, HeadFree
<1>3. ASSUME NEW n \in 1..MaxSerial, Complete(n) PROVE Startable'
  <2>1. /\ jobs[n] = "running" /\ pc' = pc /\ lost' = lost /\ submission' = submission
    BY <1>3 DEF Complete, threadVars, queueVars
  <2>2. HeadRuns /\ ~HeadFree
    BY <2>1, RunsAtHead DEF HeadRuns, HeadFree
  <2>3. \A t \in Threads : pc[t] \notin {"start", "build"}
    BY <2>2 DEF Startable, HeadFree
  <2> QED  BY <2>1, <2>3 DEF Startable
<1>4. CASE \/ \E f \in Fences : ResetFence(f)
           \/ \E b \in Buffers : RecordBuffer(b)
           \/ UNCHANGED vars
  BY <1>4 DEF ResetFence, RecordBuffer, vars, threadVars, queueVars, deviceVars,
              Startable, HeadRuns
<1> QED  BY <1>1, <1>2, <1>3, <1>4 DEF Next

LEMMA JobsInvariant == Spec => [](JobsFollow /\ Assigning /\ Startable)
<1>1. Init => JobsFollow /\ Assigning /\ Startable
  BY JobsInit DEF Init, Startable
<1>2. TypeOK /\ TypeOK' /\ SerialsInOrder /\ SerialsInOrder' /\ Locking
      /\ JobsFollow /\ Assigning /\ Startable /\ [Next]_vars
          => JobsFollow' /\ Assigning' /\ Startable'
  BY JobsStep, AssigningStep, StartableStep
<1> QED
  BY <1>1, <1>2, TypeCorrect, SerialsStayInOrder, LockingInvariant, PTL DEF Spec

(* The backend is used within its contract, for any number of threads and  *)
(* submissions and whatever fails: one batch in flight, which is the       *)
(* head's, every job prepared, launched and released once, and none kept   *)
(* by a submission that is refused half-way (discard_chain).               *)
THEOREM BackendWithinContract == Spec => []BackendContract
<1>1. TypeOK /\ SerialsInOrder /\ JobsFollow => BackendContract
  <2>1. SUFFICES ASSUME TypeOK, SerialsInOrder, JobsFollow, NEW n \in 1..MaxSerial
                 PROVE  /\ jobs[n] # "corrupt"
                        /\ jobs[n] \in {"prepared", "running", "done"} <=>
                              \/ \E i \in 1..Len(submission) :
                                     submission[i].serial = n /\ submission[i].job
                              \/ PreparedInChain(n)
                        /\ jobs[n] \in {"running", "done"} =>
                              submission # <<>> /\ n = QueueHead.serial
                              /\ QueueHead.consumed
    BY DEF BackendContract
  <2>2. n < nextSerial => ~PreparedInChain(n)
    <3>1. ASSUME n < nextSerial, NEW k \in 1..assigned PROVE n # SerialAt(k)
      BY <2>1, <3>1, QueueAssumption DEF SerialAt, TypeOK, QueueTypes
    <3> QED  BY <3>1 DEF PreparedInChain
  <2>3. CASE \E i \in 1..Len(submission) : submission[i].serial = n
    <3>1. PICK i \in 1..Len(submission) : submission[i].serial = n
      BY <2>3
    <3>2. n < nextSerial
          /\ \A j \in 1..Len(submission) : submission[j].serial = n => j = i
      BY <2>1, <3>1, SerialsDiffer
    <3> QED  BY <2>1, <2>2, <3>1, <3>2, RunsAtHead DEF JobsFollow, QueueHead
  <2>4. CASE ~ \E i \in 1..Len(submission) : submission[i].serial = n
    <3>1. n <= completedSerial \/ n >= nextSerial
      BY <2>1, <2>4, SerialsDiffer
    <3>2. n <= completedSerial => n < nextSerial
      BY <2>1, QueueAssumption DEF TypeOK, QueueTypes, SerialsInOrder
    <3> QED  BY <2>1, <2>2, <2>4, <3>1, <3>2 DEF JobsFollow
  <2> QED  BY <2>3, <2>4
<1> QED
  BY <1>1, TypeCorrect, SerialsStayInOrder, JobsInvariant, PTL

-----------------------------------------------------------------------------
(* A lost device. *)

SaysNothing ==
    /\ lost' /\ UNCHANGED <<completedSerial, fenceSerial, signaled>>
    /\ \A x \in Timelines : value'[x] # value[x] =>
           \E t \in Threads : /\ pc[t] = "publish" /\ x \in DOMAIN call[t].values
                              /\ value'[x] = call[t].values[x]

LEMMA LostStep ==
    ASSUME TypeOK, Startable, lost, [Next]_vars
    PROVE  SaysNothing
<1> USE DEF queueVars, semVars, fenceVars, deviceVars
<1>1. ASSUME /\ lost' = lost
             /\ UNCHANGED <<completedSerial, fenceSerial, signaled, value>>
      PROVE  SaysNothing
  BY <1>1 DEF SaysNothing
<1>2. ASSUME NEW t \in Threads, NewCall(t) PROVE SaysNothing
  BY <1>1, <1>2 DEF NewCall, SubmitCall, WaitIdleCall, SignalCall,
     WaitSemaphoresCall, WaitFencesCall, EventCall
<1>3. ASSUME NEW t \in Threads, SignalSemaphore(t) PROVE SaysNothing
  <2>1. pc[t] = "publish" /\ lost' = lost
        /\ UNCHANGED <<completedSerial, fenceSerial, signaled>>
        /\ (Publish(call[t].values) \/ value' = value)
    BY <1>3 DEF SignalSemaphore
  <2>2. ASSUME NEW x \in Timelines, value'[x] # value[x]
        PROVE  x \in DOMAIN call[t].values /\ value'[x] = call[t].values[x]
    BY <2>1, <2>2 DEF Publish
  <2> QED  BY <2>1, <2>2 DEF SaysNothing
<1>4. ASSUME NEW t \in Threads, TakesLock(t) PROVE SaysNothing
  <2>1. SignalSemaphore(t) \/ UNCHANGED <<queueVars, semVars, fenceVars, deviceVars>>
    BY <1>4 DEF TakesLock, AdmitSubmit, Progress, WaitFencesAgain, WaitReturns,
       WaitContinues
  <2> QED  BY <1>1, <1>3, <2>1
<1>5. ASSUME NEW t \in Threads, HoldsLock(t) PROVE SaysNothing
  <2>1. pc[t] \notin {"start", "build"}
    BY DEF Startable
  <2>2. CASE PollFailed(t)
    BY <2>2 DEF PollFailed, SaysNothing
  <2>3. CASE ~PollFailed(t)
    BY <1>1, <1>5, <2>1, <2>3 DEF HoldsLock, DrainSubmit, BuildRecord,
       PrepareJob, CommitSubmit, RefuseSubmit, SubmitReturns, DrainWaitIdle, SignalReturns,
       WaitPolled, PollNothing, PollStart, PollPending, StartDone,
       FrontendFailed, PollComplete, NothingToPoll, ExecuteFrontend, RetireEmpty,
       ConsumeWaits, LaunchHead, LaunchFailed
  <2> QED  BY <2>2, <2>3
<1>6. ASSUME NEW t \in Threads, Unlocked(t) PROVE SaysNothing
  BY <1>1, <1>6 DEF Unlocked, SetEvent, ResetEvent
<1>7. CASE \/ \E n \in 1..MaxSerial : Complete(n)
           \/ \E f \in Fences : ResetFence(f)
           \/ \E b \in Buffers : RecordBuffer(b)
           \/ UNCHANGED vars
  BY <1>1, <1>7 DEF Complete, ResetFence, RecordBuffer, vars
<1> QED  BY <1>2, <1>4, <1>5, <1>6, <1>7 DEF Next

(* Once the device is lost no call of any thread reports queued work as    *)
(* complete: polls, starts and commits all find out before they do.        *)
THEOREM LostStaysSilent == Spec => LostPublishesNothing
<1>1. TypeOK /\ Startable /\ [Next]_vars =>
          [lost => /\ lost'
                   /\ completedSerial' = completedSerial
                   /\ fenceSerial' = fenceSerial /\ signaled' = signaled
                   /\ \A x \in Timelines : value'[x] # value[x] =>
                          \E t \in Threads :
                              /\ pc[t] = "publish" /\ x \in DOMAIN call[t].values
                              /\ value'[x] = call[t].values[x]]_vars
  BY LostStep DEF SaysNothing
<1> QED
  BY <1>1, TypeCorrect, JobsInvariant, PTL DEF Spec, LostPublishesNothing

-----------------------------------------------------------------------------
(* Jobs prepared ahead of their turn. *)

(* PreparedInTime of any queue and payloads.                               *)
Met(s, payloads) ==
    \A x \in DOMAIN s.waits \cap Timelines : ~(payloads[x] < s.waits[x])

InTime(queue, payloads) ==
    \A i \in 1..Len(queue) :
        (queue[i].job /\ ~(i = 1 /\ queue[1].consumed)) =>
            /\ ~queue[i].deferred
            /\ \A j \in 1..i : ~queue[j].frontend /\ Met(queue[j], payloads)

LEMMA InTimeIsPrepared == InTime(submission, value) <=> PreparedInTime
<1>1. \A i : Met(submission[i], value) <=> ~TimelineUnsatisfied(submission[i])
  BY DEF Met, TimelineUnsatisfied
<1>2. \A i \in 1..Len(submission) : i = 1 => submission[i] = submission[1]
  OBVIOUS
<1> QED  BY <1>1, <1>2 DEF InTime, PreparedInTime

(* A wait that is met stays met, since payloads only grow.                 *)
LEMMA MetStays ==
    ASSUME TypeOK, TypeOK', [Next]_vars, NEW s \in Segments, Met(s, value)
    PROVE  Met(s, value')
<1>1. ASSUME NEW x \in DOMAIN s.waits \cap Timelines
      PROVE  ~(value'[x] < s.waits[x])
  <2>1. /\ value[x] \in Nat /\ value'[x] \in Nat /\ s.waits[x] \in Nat
        /\ ~(value[x] < s.waits[x])
    <3>1. s.waits \in References
      BY DEF Segments
    <3>2. s.waits[x] \in Values
      BY <3>1, ReferenceTypes
    <3> QED  BY <3>2, QueueAssumption DEF Met, TypeOK, SemaphoreTypes, Values
  <2>2. value'[x] >= value[x]
    BY PayloadsGrowStep
  <2> QED  BY <2>1, <2>2
<1> QED  BY <1>1 DEF Met

(* The records stay, or the head is marked; a head that gets its job is    *)
(* consumed.                                                               *)
LEMMA InTimeStays ==
    ASSUME TypeOK, TypeOK', [Next]_vars, InTime(submission, value),
           Len(submission') = Len(submission),
           \A i \in 1..Len(submission) :
               /\ submission'[i].deferred = submission[i].deferred
               /\ submission'[i].frontend = submission[i].frontend
               /\ submission'[i].waits = submission[i].waits
               /\ \/ submission'[i].job = submission[i].job
                     /\ (submission[i].consumed => submission'[i].consumed)
                  \/ i = 1 /\ submission'[i].consumed
    PROVE  InTime(submission', value')
<1>1. Len(submission) \in Nat /\ \A i \in 1..Len(submission) : submission[i] \in Segments
  BY ElementOfSeq DEF TypeOK, QueueTypes
<1>2. ASSUME NEW i \in 1..Len(submission'), submission'[i].job,
             ~(i = 1 /\ submission'[1].consumed)
      PROVE  /\ ~submission'[i].deferred
             /\ \A j \in 1..i : ~submission'[j].frontend
                                /\ Met(submission'[j], value')
  <2>1. i \in 1..Len(submission) /\ submission[i].job
        /\ ~(i = 1 /\ submission[1].consumed)
    BY <1>2
  <2>2. ASSUME NEW j \in 1..i
        PROVE  ~submission'[j].frontend /\ Met(submission'[j], value')
    <3>1. j \in 1..Len(submission)
      BY <1>1, <2>1
    <3>2. ~submission[j].frontend /\ Met(submission[j], value)
      BY <2>1 DEF InTime
    <3>3. Met(submission[j], value')
      <4>1. PICK s \in Segments : s = submission[j]
        BY <1>1, <3>1
      <4>2. Met(s, value')
        BY <3>2, <4>1, MetStays
      <4> QED  BY <4>1, <4>2
    <3> QED  BY <3>1, <3>2, <3>3 DEF Met
  <2> QED  BY <2>1, <2>2 DEF InTime
<1> QED  BY <1>2 DEF InTime

LEMMA InTimeOnRetire ==
    ASSUME TypeOK, TypeOK', [Next]_vars, InTime(submission, value),
           submission # <<>>, Retire
    PROVE  InTime(submission', value')
<1>1. /\ Len(submission) \in Nat \ {0}
      /\ Len(submission') = Len(submission) - 1
      /\ \A i \in 1..Len(submission') : submission'[i] = submission[i + 1]
      /\ \A i \in 1..Len(submission) : submission[i] \in Segments
  BY RetiredRecords, QueueFields
<1>2. ASSUME NEW i \in 1..Len(submission'), submission'[i].job
      PROVE  /\ ~submission'[i].deferred
             /\ \A j \in 1..i : ~submission'[j].frontend
                                /\ Met(submission'[j], value')
  <2>1. i + 1 \in 1..Len(submission) /\ i + 1 # 1 /\ submission'[i] = submission[i + 1]
    BY <1>1
  <2>2. /\ ~submission[i + 1].deferred
        /\ \A j \in 1..(i + 1) : ~submission[j].frontend /\ Met(submission[j], value)
    BY <1>2, <2>1 DEF InTime
  <2>3. ASSUME NEW j \in 1..i
        PROVE  ~submission'[j].frontend /\ Met(submission'[j], value')
    <3>1. j + 1 \in 1..(i + 1) /\ j + 1 \in 1..Len(submission)
          /\ submission'[j] = submission[j + 1]
      BY <1>1, <2>1
    <3>2. PICK s \in Segments : s = submission[j + 1]
      BY <1>1, <3>1
    <3>3. ~s.frontend /\ Met(s, value')
      BY <2>2, <3>1, <3>2, MetStays
    <3> QED  BY <3>1, <3>2, <3>3
  <2> QED  BY <2>1, <2>2, <2>3
<1> QED  BY <1>2 DEF InTime

LEMMA InTimeOnCommit ==
    ASSUME TypeOK, TypeOK', InTime(submission, value), NEW t \in Threads, CommitSubmit(t)
    PROVE  InTime(submission', value')
<1>1. /\ Len(submission) \in Nat /\ Len(chain) \in Nat
      /\ Len(submission') = Len(submission) + Len(chain)
      /\ \A i \in 1..Len(submission) : submission'[i] = submission[i]
      /\ value' = value
  BY CommittedRecords DEF CommitSubmit
<1>2. ASSUME NEW i \in 1..Len(submission'), submission'[i].job,
             ~(i = 1 /\ submission'[1].consumed)
      PROVE  /\ ~submission'[i].deferred
             /\ \A j \in 1..i : ~submission'[j].frontend
                                /\ Met(submission'[j], value')
  <2>1. CASE i \in 1..Len(submission)
    <3>1. \A j \in 1..i : submission'[j] = submission[j]
      BY <1>1, <2>1
    <3>2. submission'[i] = submission[i] /\ (i = 1 => submission'[1] = submission[1])
      BY <1>1, <2>1
    <3> QED  BY <1>1, <1>2, <2>1, <3>1, <3>2 DEF InTime
  <2>2. CASE i \notin 1..Len(submission)
    <3>1. i - Len(submission) \in 1..Len(chain)
          /\ i = Len(submission) + (i - Len(submission))
      BY <1>1, <2>2
    <3>2. PICK k \in 1..Len(chain) : i = Len(submission) + k
      BY <3>1
    <3>3. PreparedAt(k) /\ submission'[i].deferred = DeferredAt(k)
      BY <1>2, <3>2, CommittedFields
    <3>4. ~DeferredAt(k) /\ ~chain[k].frontend /\ ~SeenFrontend(k)
          /\ ~BehindTimelineWait(k)
      BY <3>3 DEF PreparedAt, DeferredAt
    <3>5. submission = <<>> /\ \A j \in 1..k : ~TimelineUnsatisfied(chain[j])
      BY <3>4 DEF BehindTimelineWait
    <3>6. Len(submission) = 0 /\ i = k
      BY <1>1, <3>2, <3>5
    <3>7. ASSUME NEW j \in 1..i
          PROVE  ~submission'[j].frontend /\ Met(submission'[j], value')
      <4>1. j \in 1..Len(chain) /\ Len(submission) + j = j
        BY <1>1, <3>2, <3>6
      <4>2. submission'[j].frontend = chain[j].frontend
            /\ submission'[j].waits = chain[j].waits
        BY <4>1, CommittedFields
      <4>3. ~chain[j].frontend
        BY <1>1, <3>4, <3>6, <4>1 DEF SeenFrontend
      <4>4. Met(chain[j], value)
        BY <3>5, <3>6 DEF Met, TimelineUnsatisfied
      <4> QED  BY <1>1, <4>2, <4>3, <4>4 DEF Met
    <3> QED  BY <3>3, <3>4, <3>7
  <2> QED  BY <2>1, <2>2
<1> QED  BY <1>2 DEF InTime

LEMMA InTimeStep ==
    ASSUME TypeOK, TypeOK', [Next]_vars, InTime(submission, value)
    PROVE  InTime(submission', value')
<1>1. CASE submission' = submission
  BY <1>1, InTimeStays
<1>2. ASSUME NEW t \in Threads,
             PollComplete(t) \/ ExecuteFrontend(t) \/ RetireEmpty(t)
      PROVE  InTime(submission', value')
  <2>1. submission # <<>> /\ Retire
    BY <1>2 DEF PollComplete, ExecuteFrontend, RetireEmpty, NothingToPoll
  <2> QED  BY <2>1, InTimeOnRetire
<1>3. CASE submission # <<>> /\ submission' = [submission EXCEPT ![1].consumed = TRUE]
  <2>1. /\ Len(submission') = Len(submission)
        /\ \A i \in 2..Len(submission) : submission'[i] = submission[i]
        /\ submission'[1] = [submission[1] EXCEPT !.consumed = TRUE]
    BY <1>3, ConsumedFields
  <2>2. submission[1] \in Segments /\ Len(submission) \in Nat
    BY <1>3, QueueFields
  <2>3. /\ submission'[1].deferred = submission[1].deferred
        /\ submission'[1].frontend = submission[1].frontend
        /\ submission'[1].waits = submission[1].waits
        /\ submission'[1].consumed
    BY ONLY <2>1, <2>2 DEF Segments
  <2>4. \A i \in 1..Len(submission) : i = 1 \/ i \in 2..Len(submission)
    BY <2>2
  <2> QED  BY <2>1, <2>3, <2>4, InTimeStays
<1>4. ASSUME NEW t \in Threads, LaunchHead(t) \/ LaunchFailed(t),
             submission' # submission
      PROVE  InTime(submission', value')
  <2>1. /\ submission # <<>> /\ submission[1].consumed
        /\ submission' = [submission EXCEPT ![1].job = TRUE]
    BY <1>4 DEF LaunchHead, LaunchFailed, ReadyToLaunch, QueueHead
  <2>2. /\ Len(submission') = Len(submission)
        /\ \A i \in 2..Len(submission) : submission'[i] = submission[i]
        /\ submission'[1] = [submission[1] EXCEPT !.job = TRUE]
    BY <2>1, JobFields
  <2>3. submission[1] \in Segments /\ Len(submission) \in Nat
    BY <2>1, QueueFields
  <2>4. /\ submission'[1].deferred = submission[1].deferred
        /\ submission'[1].frontend = submission[1].frontend
        /\ submission'[1].waits = submission[1].waits
        /\ submission'[1].consumed = submission[1].consumed
    BY ONLY <2>2, <2>3 DEF Segments
  <2>5. \A i \in 1..Len(submission) : i = 1 \/ i \in 2..Len(submission)
    BY <2>3
  <2> QED  BY <2>1, <2>2, <2>4, <2>5, InTimeStays
<1>5. ASSUME NEW t \in Threads, ConsumeWaits(t) PROVE InTime(submission', value')
  BY <1>1, <1>3, <1>5 DEF ConsumeWaits
<1>6. ASSUME NEW n \in 1..MaxSerial, Complete(n) PROVE submission' = submission
  BY <1>6 DEF Complete, queueVars
<1>7. ASSUME NEW t \in Threads, PrepareJob(t) \/ RefuseSubmit(t)
      PROVE  submission' = submission
  BY <1>7 DEF PrepareJob, RefuseSubmit
<1> QED
  BY <1>1, <1>2, <1>4, <1>5, <1>6, <1>7, InTimeOnCommit, JobKinds DEF JobsQuiet

(* A native job is built ahead of its turn only when nothing that is still *)
(* to happen can change what it reads, whoever submits, signals or drives  *)
(* the queue meanwhile.                                                    *)
THEOREM PreparedWhenFixed == Spec => []PreparedInTime
<1>1. Init => InTime(submission, value)
  BY DEF Init, InTime
<1>2. TypeOK /\ TypeOK' /\ InTime(submission, value) /\ [Next]_vars
          => InTime(submission, value)'
  BY InTimeStep
<1> QED
  BY <1>1, <1>2, InTimeIsPrepared, TypeCorrect, PTL DEF Spec

-----------------------------------------------------------------------------
(* Progress. *)

(* What a thread leaves behind when it stops driving the queue.            *)
Settled ==
    \/ submission = <<>>
    \/ HeadWaitsOnTimeline
    \/ QueueHead.consumed /\ QueueHead.frontend /\ QueueHead.op.kind = "wait"
    \/ QueueHead.consumed /\ QueueHead.job /\ jobs[QueueHead.serial] \in {"running", "done"}

(* A thread that will start what can be started.                           *)
Drives(t) ==
    pc[t] \in {"poll", "start"} \/ (pc[t] = "progress" /\ call[t].op = "signal")

PublishesOnly == \A t \in Threads : pc[t] = "publish" => call[t].op = "signal"

Driven == PublishesOnly /\ (lost \/ (\E t \in Threads : Drives(t)) \/ Settled)

(* A step of a thread that drives nothing, and moves nothing: a job may    *)
(* change only behind a head that is not started.                          *)
LEMMA DrivenByOthers ==
    ASSUME Driven, NEW t \in Threads, ~Drives(t), Others(t),
           pc'[t] = "publish" => call'[t].op = "signal",
           jobs' = jobs \/ HeadFree,
           UNCHANGED <<submission, value, lost>>
    PROVE  Driven'
<1>1. PublishesOnly'
  BY DEF Driven, PublishesOnly, Others
<1>2. (\E u \in Threads : Drives(u)) => \E u \in Threads : Drives(u)'
  BY DEF Drives, Others
<1>3. Settled => Settled'
  BY DEF Settled, HeadWaitsOnTimeline, TimelineUnsatisfied, QueueHead, HeadFree
<1> QED  BY <1>1, <1>2, <1>3 DEF Driven

(* A step that ends in the queue, on a lost device or with nothing to do.  *)
LEMMA DrivenByThis ==
    ASSUME Driven, NEW t \in Threads, Others(t), pc'[t] # "publish",
           lost' \/ Drives(t)' \/ Settled'
    PROVE  Driven'
<1>1. PublishesOnly'
  BY DEF Driven, PublishesOnly, Others
<1> QED  BY <1>1 DEF Driven

LEMMA DrivenOutside ==
    ASSUME TypeOK, Locking, Driven, NEW t \in Threads,
           NewCall(t) \/ TakesLock(t) \/ Unlocked(t)
    PROVE  Driven'
<1> USE DEF TypeOK, ThreadTypes, Return, Goto, queueVars, semVars, deviceVars
<1>1. Others(t)
  BY NewCallStep, CallStep
<1>2. CASE NewCall(t)
  <2>1. pc[t] = "idle" /\ UNCHANGED <<submission, value, jobs, lost>>
    BY <1>2 DEF NewCall, SubmitCall, WaitIdleCall, SignalCall, WaitSemaphoresCall,
                WaitFencesCall, EventCall, Enter
  <2>2. pc'[t] = "publish" => call'[t].op = "signal"
    <3>1. ASSUME NEW x \in Timelines, NEW v \in HostValues, SignalCall(t, x, v)
          PROVE  call'[t].op = "signal"
      BY <3>1 DEF SignalCall, Enter, NoCall
    <3>2. (\E x \in Timelines, v \in HostValues : SignalCall(t, x, v))
          \/ pc'[t] # "publish"
      BY <1>2 DEF NewCall, SubmitCall, WaitIdleCall, WaitSemaphoresCall,
                  WaitFencesCall, EventCall, Enter
    <3> QED  BY <3>1, <3>2
  <2> QED  BY <1>1, <2>1, <2>2, DrivenByOthers DEF Drives
<1>3. CASE AdmitSubmit(t)
  <2>1. pc[t] = "enter" /\ pc'[t] \in {"poll", "idle"}
        /\ UNCHANGED <<submission, value, jobs, lost>>
    BY <1>3 DEF AdmitSubmit
  <2> QED  BY <1>1, <2>1, DrivenByOthers DEF Drives
<1>4. CASE SignalSemaphore(t)
  <2>1. /\ pc[t] = "publish" /\ call[t].op = "signal"
        /\ \/ pc'[t] = "progress" /\ call'[t] = call[t]
           \/ pc'[t] = "idle" /\ UNCHANGED <<submission, value, jobs, lost>>
    BY <1>4 DEF SignalSemaphore, Driven, PublishesOnly
  <2>2. CASE pc'[t] = "progress" /\ call'[t] = call[t]
    BY <1>1, <2>1, <2>2, DrivenByThis DEF Drives
  <2>3. CASE pc'[t] = "idle" /\ UNCHANGED <<submission, value, jobs, lost>>
    BY <1>1, <2>1, <2>3, DrivenByOthers DEF Drives
  <2> QED  BY <2>1, <2>2, <2>3
<1>5. CASE Progress(t)
  BY <1>1, <1>5, DrivenByThis DEF Progress, Drives
<1>6. CASE WaitFencesAgain(t) \/ WaitReturns(t) \/ WaitContinues(t)
  <2>1. pc[t] \in {"again", "check"} /\ pc'[t] # "publish"
        /\ UNCHANGED <<submission, value, jobs, lost>>
    BY <1>6 DEF WaitFencesAgain, WaitReturns, WaitContinues
  <2> QED  BY <1>1, <2>1, DrivenByOthers DEF Drives
<1>7. CASE Unlocked(t)
  <2>1. pc[t] = "event" /\ pc'[t] # "publish"
        /\ UNCHANGED <<submission, value, jobs, lost>>
    BY <1>7 DEF Unlocked, SetEvent, ResetEvent
  <2> QED  BY <1>1, <2>1, DrivenByOthers DEF Drives
<1> QED  BY <1>2, <1>3, <1>4, <1>5, <1>6, <1>7 DEF TakesLock

LEMMA SettledOnLaunch ==
    ASSUME TypeOK, SerialsInOrder, JobsFollow, Startable,
           NEW t \in Threads, LaunchHead(t)
    PROVE  Settled'
<1> DEFINE n == submission[1].serial
<1>1. /\ submission # <<>> /\ submission[1].consumed /\ ~submission[1].frontend
      /\ pc[t] = "start"
      /\ submission' = [submission EXCEPT ![1].job = TRUE]
      /\ jobs' = [jobs EXCEPT ![n] =
             Launched(IF submission[1].job THEN jobs[n] ELSE Prepared(jobs[n]))]
  BY DEF LaunchHead, ReadyToLaunch, QueueHead
<1>2. /\ 1 \in 1..Len(submission) /\ n \in 1..MaxSerial
      /\ submission[1] \in Segments /\ jobs \in [1..MaxSerial -> JobStates]
  BY <1>1, QueueFields, SerialsDiffer DEF TypeOK, DeviceTypes
<1>3. jobs[n] = IF submission[1].job THEN "prepared" ELSE "none"
  BY <1>1, <1>2 DEF JobsFollow, Startable, HeadRuns
<1>4. jobs'[n] = "running"
  BY <1>1, <1>2, <1>3 DEF Launched, Prepared
<1>5. submission'[1] = [submission[1] EXCEPT !.job = TRUE]
  BY <1>1, JobFields
<1>6. submission'[1].job /\ submission'[1].consumed = submission[1].consumed
      /\ submission'[1].serial = n
  BY ONLY <1>2, <1>5 DEF Segments
<1> QED  BY <1>1, <1>4, <1>6 DEF Settled, QueueHead

LEMMA DrivenInside ==
    ASSUME TypeOK, Locking, SerialsInOrder, JobsFollow, Startable, Driven,
           NEW t \in Threads, HoldsLock(t)
    PROVE  Driven'
<1> USE DEF TypeOK, ThreadTypes, Return, Goto, queueVars, semVars, deviceVars
<1>1. Others(t)
  BY CallStep
<1>2. CASE DrainSubmit(t) \/ SubmitReturns(t) \/ DrainWaitIdle(t)
           \/ SignalReturns(t) \/ WaitPolled(t) \/ BuildRecord(t)
  <2>1. pc[t] \in {"polled", "build"} /\ pc'[t] # "publish"
        /\ UNCHANGED <<submission, value, jobs, lost>>
    BY <1>2 DEF DrainSubmit, SubmitReturns, DrainWaitIdle, SignalReturns,
                WaitPolled, BuildRecord
  <2> QED  BY <1>1, <2>1, DrivenByOthers DEF Drives
<1>3. CASE CommitSubmit(t) \/ PollStart(t) \/ PollComplete(t)
           \/ ExecuteFrontend(t) \/ RetireEmpty(t)
  <2>1. pc'[t] = "start"
    BY <1>3 DEF CommitSubmit, PollStart, PollComplete, ExecuteFrontend, RetireEmpty
  <2> QED  BY <1>1, <2>1, DrivenByThis DEF Drives
<1>4. CASE PollFailed(t) \/ FrontendFailed(t) \/ LaunchFailed(t)
  <2>1. pc'[t] = "polled" /\ lost'
    BY <1>4 DEF PollFailed, FrontendFailed, LaunchFailed
  <2> QED  BY <1>1, <2>1, DrivenByThis
<1>5. CASE ConsumeWaits(t)
  <2>1. pc'[t] = "start" \/ (pc'[t] = "polled" /\ lost')
    BY <1>5 DEF ConsumeWaits
  <2> QED  BY <1>1, <2>1, DrivenByThis DEF Drives
<1>6. CASE LaunchHead(t)
  <2>1. pc'[t] = "polled"
    BY <1>6 DEF LaunchHead
  <2> QED  BY <1>1, <1>6, <2>1, SettledOnLaunch, DrivenByThis
<1>7. CASE PollNothing(t)
  <2>1. pc'[t] = "polled" /\ (lost' \/ submission' = <<>>)
    BY <1>7 DEF PollNothing, NothingToPoll
  <2> QED  BY <1>1, <2>1, DrivenByThis DEF Settled
<1>8. CASE PollPending(t)
  <2>1. pc'[t] = "polled" /\ submission # <<>> /\ jobs[submission[1].serial] = "running"
        /\ submission' = submission /\ jobs' = jobs
    BY <1>8 DEF PollPending, NothingToPoll, QueueHead
  <2>2. submission[1].serial \in 1..MaxSerial
    BY <2>1, QueueFields, SerialsDiffer
  <2>3. submission[1].consumed /\ submission[1].job
    BY <2>1, <2>2, RunsAtHead
  <2> QED  BY <1>1, <2>1, <2>3, DrivenByThis DEF Settled, QueueHead
<1>9. CASE StartDone(t)
  <2>1. pc'[t] = "polled" /\ UNCHANGED <<submission, value, jobs>> /\ Settled
    BY <1>9 DEF StartDone, BlockedOnEvent, Settled
  <2>2. Settled'
    BY <2>1 DEF Settled, HeadWaitsOnTimeline, TimelineUnsatisfied, QueueHead
  <2> QED  BY <1>1, <2>1, <2>2, DrivenByThis
<1>10. CASE PrepareJob(t) \/ RefuseSubmit(t)
  <2>1. /\ pc[t] = "build" /\ pc'[t] # "publish"
        /\ UNCHANGED <<submission, value, lost>>
    BY <1>10 DEF PrepareJob, RefuseSubmit, threadVars
  <2>2. HeadFree
    BY <2>1 DEF Startable, HeadFree
  <2> QED  BY <1>1, <2>1, <2>2, DrivenByOthers DEF Drives
<1> QED
  BY <1>2, <1>3, <1>4, <1>5, <1>6, <1>7, <1>8, <1>9, <1>10 DEF HoldsLock

LEMMA DrivenStep ==
    ASSUME TypeOK, Locking, SerialsInOrder, JobsFollow, Startable, Driven, [Next]_vars
    PROVE  Driven'
<1> USE DEF queueVars, semVars, deviceVars, threadVars
<1>1. ASSUME UNCHANGED <<pc, call, submission, value, lost>>,
             \A n \in 1..MaxSerial :
                 jobs[n] \in {"running", "done"} => jobs'[n] \in {"running", "done"}
      PROVE  Driven'
  <2>1. PublishesOnly' /\ ((\E t \in Threads : Drives(t)) => (\E t \in Threads : Drives(t)'))
    BY <1>1 DEF Driven, PublishesOnly, Drives
  <2>2. Settled => Settled'
    <3>1. submission # <<>> => submission[1].serial \in 1..MaxSerial
      BY QueueFields, SerialsDiffer
    <3> QED
      BY <1>1, <3>1 DEF Settled, HeadWaitsOnTimeline, TimelineUnsatisfied, QueueHead
  <2> QED  BY <1>1, <2>1, <2>2 DEF Driven
<1>2. ASSUME NEW n \in 1..MaxSerial, Complete(n) PROVE Driven'
  <2>1. jobs' = [jobs EXCEPT ![n] = "done"]
        /\ UNCHANGED <<pc, call, submission, value, lost>>
        /\ jobs \in [1..MaxSerial -> JobStates]
    BY <1>2 DEF Complete, TypeOK, DeviceTypes
  <2> QED  BY <1>1, <2>1
<1>3. CASE \/ \E f \in Fences : ResetFence(f)
           \/ \E b \in Buffers : RecordBuffer(b)
           \/ UNCHANGED vars
  BY <1>1, <1>3 DEF ResetFence, RecordBuffer, vars
<1> QED  BY <1>2, <1>3, DrivenOutside, DrivenInside DEF Next

(* The queue never stalls on work it could start: when nobody is inside    *)
(* the queue or about to drive it, its head runs or waits for a timeline   *)
(* value or an event.                                                      *)
THEOREM QueueNeverStalls == Spec => []NothingStalls
<1>1. Init => Driven
  BY DEF Init, Driven, PublishesOnly, Settled
<1>2. TypeOK /\ Locking /\ SerialsInOrder /\ JobsFollow /\ Startable
      /\ Driven /\ [Next]_vars => Driven'
  BY DrivenStep
<1>3. Locking /\ Driven => NothingStalls
  <2>1. ASSUME lock = Nobody, Locking, NEW t \in Threads
        PROVE  pc[t] \notin {"poll", "start"}
    BY <2>1, QueueAssumption DEF Locking, MutualExclusion, Inside
  <2> QED  BY <2>1 DEF Driven, Drives, Settled, NothingStalls
<1> QED
  BY <1>1, <1>2, <1>3, TypeCorrect, LockingInvariant, SerialsStayInOrder,
     JobsInvariant, PTL DEF Spec

-----------------------------------------------------------------------------
(* Part 3: lifetime counts. *)

(* of a queue are those of its parts.                                      *)

LEMMA DisjointCount ==
    ASSUME NEW A, NEW C, IsFiniteSet(A), IsFiniteSet(C), A \cap C = {}
    PROVE  Cardinality(A \cup C) = Cardinality(A) + Cardinality(C)
<1>1. Cardinality(A \cup C) = Cardinality(A) + Cardinality(C) - Cardinality(A \cap C)
  BY FS_Union
<1>2. Cardinality(A \cap C) = 0
  BY FS_EmptySet
<1>3. Cardinality(A) \in Nat /\ Cardinality(C) \in Nat
  BY FS_CardinalityType
<1> QED  BY <1>1, <1>2, <1>3

LEMMA BijectionCount ==
    ASSUME NEW A, NEW B, NEW f \in [A -> B], IsFiniteSet(A),
           \A i, j \in A : f[i] = f[j] => i = j,
           \A j \in B : \E i \in A : f[i] = j
    PROVE  IsFiniteSet(B) /\ Cardinality(B) = Cardinality(A)
<1>1. ExistsBijection(A, B)
  BY Fun_IsBij DEF ExistsBijection
<1> QED  BY <1>1, FS_Bijection

LEMMA PlacesFinite ==
    ASSUME NEW n \in Nat,
           NEW S \in SUBSET ((1..n) \X (1..MaxSubmittedBuffers))
    PROVE  IsFiniteSet(S) /\ Cardinality(S) \in Nat
<1>1. IsFiniteSet(1..n) /\ IsFiniteSet(1..MaxSubmittedBuffers)
  BY PositionsFinite DEF MaxSubmittedBuffers
<1>2. IsFiniteSet((1..n) \X (1..MaxSubmittedBuffers))
  BY <1>1, FS_Product
<1> QED  BY <1>2, FS_Subset, FS_CardinalityType

(* Places in front, and places behind shifted by what is in front.         *)
LEMMA CountSplit ==
    ASSUME NEW m \in Nat, NEW n \in Nat,
           NEW A \in SUBSET (1..m), NEW B \in SUBSET (1..n)
    PROVE  Cardinality(A \cup {k + m : k \in B}) = Cardinality(A) + Cardinality(B)
<1> DEFINE C == {k + m : k \in B}
           f == [k \in B |-> k + m]
<1>1. IsFiniteSet(A) /\ IsFiniteSet(B) /\ Cardinality(A) \in Nat
  BY PositionsFinite
<1>2. f \in [B -> C] /\ (\A i, j \in B : f[i] = f[j] => i = j)
      /\ (\A j \in C : \E i \in B : f[i] = j)
  OBVIOUS
<1>3. IsFiniteSet(C) /\ Cardinality(C) = Cardinality(B)
  <2> HIDE DEF C, f
  <2> QED  BY <1>1, <1>2, BijectionCount
<1>4. A \cap C = {}
  OBVIOUS
<1>5. Cardinality(A \cup C) = Cardinality(A) + Cardinality(C)
  <2> HIDE DEF C
  <2> QED  BY <1>1, <1>3, <1>4, DisjointCount
<1> QED  BY <1>3, <1>5

LEMMA CountSplitPlaces ==
    ASSUME NEW m \in Nat, NEW n \in Nat,
           NEW A \in SUBSET ((1..m) \X (1..MaxSubmittedBuffers)),
           NEW B \in SUBSET ((1..n) \X (1..MaxSubmittedBuffers))
    PROVE  Cardinality(A \cup {<<p[1] + m, p[2]>> : p \in B}) =
               Cardinality(A) + Cardinality(B)
<1> DEFINE C == {<<p[1] + m, p[2]>> : p \in B}
           f == [p \in B |-> <<p[1] + m, p[2]>>]
<1>1. IsFiniteSet(A) /\ IsFiniteSet(B) /\ Cardinality(A) \in Nat
  BY PlacesFinite
<1>2. f \in [B -> C] /\ (\A j \in C : \E i \in B : f[i] = j)
  OBVIOUS
<1>3. \A i, j \in B : f[i] = f[j] => i = j
  <2> TAKE i, j \in B
  <2>1. i \in (1..n) \X (1..MaxSubmittedBuffers) /\ j \in (1..n) \X (1..MaxSubmittedBuffers)
    OBVIOUS
  <2>2. f[i] = f[j] => i[1] + m = j[1] + m /\ i[2] = j[2]
    OBVIOUS
  <2> QED  BY <2>1, <2>2
<1>4. IsFiniteSet(C) /\ Cardinality(C) = Cardinality(B)
  <2> HIDE DEF C, f
  <2> QED  BY <1>1, <1>2, <1>3, BijectionCount
<1>5. A \cap C = {}
  OBVIOUS
<1>6. Cardinality(A \cup C) = Cardinality(A) + Cardinality(C)
  <2> HIDE DEF C
  <2> QED  BY <1>1, <1>4, <1>5, DisjointCount
<1> QED  BY <1>4, <1>6

(* r is q followed by c, as far as references are concerned.               *)
Joined(q, c, r) ==
    /\ Len(q) \in Nat /\ Len(c) \in Nat /\ Len(r) = Len(q) + Len(c)
    /\ \A i \in 1..Len(q) : /\ r[i].waits   = q[i].waits
                            /\ r[i].signals = q[i].signals
                            /\ r[i].buffers = q[i].buffers
    /\ \A k \in 1..Len(c) : /\ r[Len(q) + k].waits   = c[k].waits
                            /\ r[Len(q) + k].signals = c[k].signals
                            /\ r[Len(q) + k].buffers = c[k].buffers

LEMMA JoinedCounts ==
    ASSUME NEW q, NEW c, NEW r, Joined(q, c, r)
    PROVE  /\ \A x : ReferencesIn(r, x) = ReferencesIn(q, x) + ReferencesIn(c, x)
           /\ \A b : UsesIn(r, b) = UsesIn(q, b) + UsesIn(c, b)
<1> DEFINE m == Len(q)  n == Len(c)
<1>1. m \in Nat /\ n \in Nat /\ Len(r) = m + n
  BY DEF Joined
<1>2. ASSUME NEW j \in 1..(m + n)
      PROVE  j \in 1..m \/ (j - m \in 1..n /\ j = (j - m) + m)
  BY <1>1
<1>3. ASSUME NEW x
      PROVE  ReferencesIn(r, x) = ReferencesIn(q, x) + ReferencesIn(c, x)
  <2> DEFINE W(s) == {k \in 1..Len(s) : x \in DOMAIN s[k].waits}
             G(s) == {k \in 1..Len(s) : x \in DOMAIN s[k].signals}
  <2>1. W(r) = W(q) \cup {k + m : k \in W(c)}
    <3>1. ASSUME NEW j \in W(r) PROVE j \in W(q) \/ j - m \in W(c)
      <4>1. j \in 1..(m + n) /\ x \in DOMAIN r[j].waits
        BY <1>1
      <4>2. CASE j \in 1..m
        BY <4>1, <4>2 DEF Joined
      <4>3. CASE j - m \in 1..n /\ j = (j - m) + m
        <5>1. j = m + (j - m)
          BY <1>1, <4>3
        <5>2. r[j].waits = c[j - m].waits
          BY <4>3, <5>1 DEF Joined
        <5> QED  BY <4>1, <4>3, <5>2
      <4> QED  BY <1>2, <4>1, <4>2, <4>3
    <3>2. ASSUME NEW j \in W(q) PROVE j \in W(r)
      BY <1>1 DEF Joined
    <3>3. ASSUME NEW k \in W(c) PROVE k + m \in W(r)
      <4>1. k \in 1..n /\ k + m = m + k /\ m + k \in 1..Len(r)
        BY <1>1
      <4> QED  BY <4>1 DEF Joined
    <3>4. \A j \in W(r) : j = (j - m) + m
      BY <1>1
    <3> HIDE DEF W
    <3> QED  BY <3>1, <3>2, <3>3, <3>4
  <2>2. G(r) = G(q) \cup {k + m : k \in G(c)}
    <3>1. ASSUME NEW j \in G(r) PROVE j \in G(q) \/ j - m \in G(c)
      <4>1. j \in 1..(m + n) /\ x \in DOMAIN r[j].signals
        BY <1>1
      <4>2. CASE j \in 1..m
        BY <4>1, <4>2 DEF Joined
      <4>3. CASE j - m \in 1..n /\ j = (j - m) + m
        <5>1. j = m + (j - m)
          BY <1>1, <4>3
        <5>2. r[j].signals = c[j - m].signals
          BY <4>3, <5>1 DEF Joined
        <5> QED  BY <4>1, <4>3, <5>2
      <4> QED  BY <1>2, <4>1, <4>2, <4>3
    <3>2. ASSUME NEW j \in G(q) PROVE j \in G(r)
      BY <1>1 DEF Joined
    <3>3. ASSUME NEW k \in G(c) PROVE k + m \in G(r)
      <4>1. k \in 1..n /\ k + m = m + k /\ m + k \in 1..Len(r)
        BY <1>1
      <4> QED  BY <4>1 DEF Joined
    <3>4. \A j \in G(r) : j = (j - m) + m
      BY <1>1
    <3> HIDE DEF G
    <3> QED  BY <3>1, <3>2, <3>3, <3>4
  <2>3. /\ W(q) \in SUBSET (1..m) /\ W(c) \in SUBSET (1..n)
        /\ G(q) \in SUBSET (1..m) /\ G(c) \in SUBSET (1..n)
    OBVIOUS
  <2>4. ReferencesIn(r, x) = Cardinality(W(r)) + Cardinality(G(r))
        /\ ReferencesIn(q, x) = Cardinality(W(q)) + Cardinality(G(q))
        /\ ReferencesIn(c, x) = Cardinality(W(c)) + Cardinality(G(c))
    BY DEF ReferencesIn
  <2> HIDE DEF W, G, m, n
  <2>5. Cardinality(W(r)) = Cardinality(W(q)) + Cardinality(W(c))
    <3>1. Cardinality(W(q) \cup {k + m : k \in W(c)}) =
              Cardinality(W(q)) + Cardinality(W(c))
      BY <1>1, <2>3, CountSplit
    <3> QED  BY <2>1, <3>1
  <2>7. Cardinality(G(r)) = Cardinality(G(q)) + Cardinality(G(c))
    <3>1. Cardinality(G(q) \cup {k + m : k \in G(c)}) =
              Cardinality(G(q)) + Cardinality(G(c))
      BY <1>1, <2>3, CountSplit
    <3> QED  BY <2>2, <3>1
  <2>6. /\ Cardinality(W(q)) \in Nat /\ Cardinality(W(c)) \in Nat
        /\ Cardinality(G(q)) \in Nat /\ Cardinality(G(c)) \in Nat
    BY <1>1, <2>3, PositionsFinite
  <2> QED  BY <2>4, <2>5, <2>6, <2>7
<1>4. ASSUME NEW b
      PROVE  UsesIn(r, b) = UsesIn(q, b) + UsesIn(c, b)
  <2> DEFINE U(s) == {p \in (1..Len(s)) \X (1..MaxSubmittedBuffers) :
                          /\ p[2] <= Len(s[p[1]].buffers)
                          /\ s[p[1]].buffers[p[2]] = b}
  <2>1. ASSUME NEW p \in U(r) PROVE p \in U(q) \cup {<<u[1] + m, u[2]>> : u \in U(c)}
    <3>1. p = <<p[1], p[2]>> /\ p[1] \in 1..(m + n) /\ p[2] \in 1..MaxSubmittedBuffers
      BY <1>1
    <3>4. p[2] <= Len(r[p[1]].buffers) /\ r[p[1]].buffers[p[2]] = b
      OBVIOUS
    <3>2. CASE p[1] \in 1..m
      <4>1. p \in (1..m) \X (1..MaxSubmittedBuffers)
        BY <3>1, <3>2
      <4>2. r[p[1]].buffers = q[p[1]].buffers
        BY <3>2 DEF Joined
      <4>3. p \in U(q)
        BY <3>4, <4>1, <4>2
      <4> QED  BY <4>3
    <3>3. CASE p[1] - m \in 1..n /\ p[1] = (p[1] - m) + m
      <4> DEFINE u == <<p[1] - m, p[2]>>
      <4>1. u \in (1..n) \X (1..MaxSubmittedBuffers) /\ u[1] = p[1] - m /\ u[2] = p[2]
        BY <3>1, <3>3
      <4>2. r[m + u[1]].buffers = c[u[1]].buffers /\ m + u[1] = p[1]
        BY <1>1, <3>3, <4>1 DEF Joined
      <4>3. u \in U(c)
        BY <3>4, <4>1, <4>2
      <4>4. p = <<u[1] + m, u[2]>>
        BY <3>1, <3>3, <4>1
      <4> HIDE DEF U, u
      <4> QED  BY <4>3, <4>4
    <3> QED  BY <1>2, <3>1, <3>2, <3>3
  <2>6. U(q) \subseteq U(r)
    BY <1>1 DEF Joined
  <2>7. ASSUME NEW u \in U(c) PROVE <<u[1] + m, u[2]>> \in U(r)
    <3>1. u[1] \in 1..n /\ u[2] \in 1..MaxSubmittedBuffers /\ u[1] + m = m + u[1]
          /\ m + u[1] \in 1..Len(r)
      BY <1>1
    <3>2. r[m + u[1]].buffers = c[u[1]].buffers
      BY <3>1 DEF Joined
    <3> QED  BY <3>1, <3>2
  <2>2. {<<u[1] + m, u[2]>> : u \in U(c)} \subseteq U(r)
    <3> HIDE DEF U
    <3> QED  BY <2>7
  <2>3. U(r) = U(q) \cup {<<u[1] + m, u[2]>> : u \in U(c)}
    <3> HIDE DEF U
    <3> QED  BY <2>1, <2>2, <2>6
  <2>4. /\ U(q) \in SUBSET ((1..m) \X (1..MaxSubmittedBuffers))
        /\ U(c) \in SUBSET ((1..n) \X (1..MaxSubmittedBuffers))
    OBVIOUS
  <2>5. UsesIn(r, b) = Cardinality(U(r)) /\ UsesIn(q, b) = Cardinality(U(q))
        /\ UsesIn(c, b) = Cardinality(U(c))
    BY DEF UsesIn
  <2> HIDE DEF U, m, n
  <2>8. Cardinality(U(q) \cup {<<u[1] + m, u[2]>> : u \in U(c)}) =
            Cardinality(U(q)) + Cardinality(U(c))
    BY <1>1, <2>4, CountSplitPlaces
  <2> QED  BY <2>3, <2>5, <2>8
<1> QED  BY <1>3, <1>4

(* Records that name the same things count the same.                       *)
LEMMA SameCounts ==
    ASSUME NEW q, NEW r, Len(q) \in Nat, Len(r) = Len(q),
           \A i \in 1..Len(q) : /\ r[i].waits   = q[i].waits
                                /\ r[i].signals = q[i].signals
                                /\ r[i].buffers = q[i].buffers
    PROVE  /\ \A x : ReferencesIn(r, x) = ReferencesIn(q, x)
           /\ \A b : UsesIn(r, b) = UsesIn(q, b)
<1>1. ASSUME NEW x PROVE ReferencesIn(r, x) = ReferencesIn(q, x)
  <2>1. /\ {k \in 1..Len(r) : x \in DOMAIN r[k].waits} =
               {k \in 1..Len(q) : x \in DOMAIN q[k].waits}
        /\ {k \in 1..Len(r) : x \in DOMAIN r[k].signals} =
               {k \in 1..Len(q) : x \in DOMAIN q[k].signals}
    OBVIOUS
  <2> QED  BY <2>1 DEF ReferencesIn
<1>2. ASSUME NEW b PROVE UsesIn(r, b) = UsesIn(q, b)
  <2>1. ASSUME NEW p \in (1..Len(q)) \X (1..MaxSubmittedBuffers)
        PROVE  r[p[1]].buffers = q[p[1]].buffers
    OBVIOUS
  <2> QED  BY <2>1 DEF UsesIn
<1> QED  BY <1>1, <1>2

LEMMA NoCounts ==
    /\ \A x : ReferencesIn(<<>>, x) = 0
    /\ \A b : UsesIn(<<>>, b) = 0
<1>1. ASSUME NEW x PROVE ReferencesIn(<<>>, x) = 0
  <2>1. /\ {k \in 1..Len(<<>>) : x \in DOMAIN <<>>[k].waits} = {}
        /\ {k \in 1..Len(<<>>) : x \in DOMAIN <<>>[k].signals} = {}
    OBVIOUS
  <2> QED  BY <2>1, FS_EmptySet DEF ReferencesIn
<1>2. ASSUME NEW b PROVE UsesIn(<<>>, b) = 0
  <2>1. (1..Len(<<>>)) \X (1..MaxSubmittedBuffers) = {}
    OBVIOUS
  <2> QED  BY <2>1, FS_EmptySet DEF UsesIn
<1> QED  BY <1>1, <1>2

LEMMA PinsOnRetire ==
    ASSUME TypeOK, PinsMatchQueue, submission # <<>>,
           Retire,
           \/ Unpin(QueueHead)
           \/ QueueHead.buffers = <<>> /\ UNCHANGED <<bufferVars, pinVars>>
    PROVE  PinsMatchQueue'
<1> DEFINE head == <<QueueHead>>
           rest == Tail(submission)
<1>1. submission \in Seq(Segments) /\ Len(submission) \in Nat \ {0}
  BY EmptySeq DEF TypeOK, QueueTypes
<1>2. Len(head) = 1 /\ head[1] = submission[1]
  BY DEF QueueHead
<1>3. /\ Len(rest) \in Nat /\ Len(submission) = 1 + Len(rest)
      /\ \A k \in 1..Len(rest) : submission[1 + k] = rest[k]
  BY <1>1, HeadTailProperties
<1>4. Joined(head, rest, submission)
  <2> HIDE DEF head, rest
  <2> QED  BY <1>2, <1>3 DEF Joined
<1>5. /\ \A x : ReferencesIn(submission, x) = ReferencesIn(head, x) + ReferencesIn(rest, x)
      /\ \A b : UsesIn(submission, b) = UsesIn(head, b) + UsesIn(rest, b)
  BY <1>4, JoinedCounts
<1>6. /\ \A x : ReferencesIn(head, x) \in Nat /\ ReferencesIn(rest, x) \in Nat
      /\ \A b : UsesIn(head, b) \in Nat /\ UsesIn(rest, b) \in Nat
  BY <1>2, <1>3, CountsAreNaturals
<1>7. submission' = rest
  BY DEF Retire
<1> HIDE DEF rest
<1>8. ASSUME NEW x \in Semaphores PROVE pending'[x] = ReferencesIn(submission', x)
  <2>1. pending'[x] = pending[x] - ReferencesIn(head, x)
    BY DEF Retire
  <2>2. pending[x] = ReferencesIn(head, x) + ReferencesIn(rest, x)
    BY <1>5 DEF PinsMatchQueue
  <2>3. ReferencesIn(head, x) \in Nat /\ ReferencesIn(rest, x) \in Nat
    BY <1>6
  <2> HIDE DEF head
  <2> QED  BY <1>7, <2>1, <2>2, <2>3
<1>12. ASSUME NEW b, QueueHead.buffers = <<>> PROVE UsesIn(head, b) = 0
  <2>1. {p \in (1..Len(head)) \X (1..MaxSubmittedBuffers) :
             /\ p[2] <= Len(head[p[1]].buffers)
             /\ head[p[1]].buffers[p[2]] = b} = {}
    BY <1>2, <1>12 DEF QueueHead
  <2> QED  BY <2>1, FS_EmptySet DEF UsesIn
<1>11. Unpin(QueueHead)
  <2> SUFFICES ASSUME QueueHead.buffers = <<>>, UNCHANGED <<bufferVars, pinVars>>
               PROVE  Unpin(QueueHead)
    OBVIOUS
  <2>1. \A b \in Buffers : UsesIn(head, b) = 0
    BY <1>12
  <2>2. LastUse(QueueHead) = {}
    BY <2>1 DEF LastUse
  <2>3. UNCHANGED <<bufferState, bufferPending, eventPins, eventWaitPins>>
    BY DEF bufferVars, pinVars
  <2>4. /\ bufferPending \in [Buffers -> Int]
        /\ bufferState = [b \in Buffers |-> bufferState[b]]
        /\ eventPins = [e \in Events |-> eventPins[e]]
        /\ eventWaitPins = [e \in Events |-> eventWaitPins[e]]
    BY DEF TypeOK, BufferTypes, PinTypes
  <2>5. bufferPending = [b \in Buffers |-> bufferPending[b] - UsesIn(head, b)]
    BY <2>1, <2>4
  <2> QED  BY <2>2, <2>3, <2>4, <2>5 DEF Unpin
<1>9. ASSUME NEW b \in Buffers
      PROVE  /\ bufferPending'[b] = UsesIn(submission', b)
             /\ bufferState'[b] = "pending" <=> bufferPending'[b] > 0
             /\ bufferPending'[b] > 0 <=> bufferPending[b] > 0 /\ b \notin LastUse(QueueHead)
  <2>1. bufferPending'[b] = UsesIn(rest, b) /\ bufferPending[b] = UsesIn(head, b) + UsesIn(rest, b)
    BY <1>5, <1>6, <1>11 DEF Unpin, PinsMatchQueue
  <2>2. b \in LastUse(QueueHead) <=> UsesIn(head, b) > 0 /\ UsesIn(rest, b) = 0
    BY <1>6, <2>1 DEF LastUse
  <2>3. bufferState'[b] = IF b \notin LastUse(QueueHead) THEN bufferState[b]
                          ELSE IF b \in OneTime THEN "invalid" ELSE "executable"
    BY <1>11 DEF Unpin
  <2>4. bufferState[b] = "pending" <=> bufferPending[b] > 0
    BY DEF PinsMatchQueue
  <2> HIDE DEF head
  <2> QED  BY <1>6, <1>7, <2>1, <2>2, <2>3, <2>4
<1>10. ASSUME NEW e \in Events
       PROVE  /\ eventPins'[e] = {b \in Buffers : e \in EventRefs[b] /\ bufferPending'[b] > 0}
              /\ eventWaitPins'[e] = {b \in Buffers : e \in EventWaitRefs[b] /\ bufferPending'[b] > 0}
  <2>1. /\ eventPins'[e] = eventPins[e] \ LastUse(QueueHead)
        /\ eventWaitPins'[e] = eventWaitPins[e] \ LastUse(QueueHead)
    BY <1>11 DEF Unpin
  <2>2. /\ eventPins[e] = {b \in Buffers : e \in EventRefs[b] /\ bufferPending[b] > 0}
        /\ eventWaitPins[e] = {b \in Buffers : e \in EventWaitRefs[b] /\ bufferPending[b] > 0}
    BY DEF PinsMatchQueue
  <2> QED  BY <1>9, <2>1, <2>2
<1> QED  BY <1>8, <1>9, <1>10 DEF PinsMatchQueue

LEMMA PinsOnCommit ==
    ASSUME TypeOK, PinsMatchQueue, NEW t \in Threads, CommitSubmit(t)
    PROVE  PinsMatchQueue'
<1> DEFINE committed(k) ==
               [chain[k] EXCEPT !.serial   = SerialAt(k),
                                !.fence    = FenceAt(k, call[t].fence),
                                !.deferred = DeferredAt(k),
                                !.job      = PreparedAt(k)]
           n == Len(chain)
           added == [k \in 1..n |-> committed(k)]
<1>1. /\ submission \in Seq(Segments) /\ Len(submission) \in Nat
      /\ chain \in Seq(Segments) /\ n \in Nat
  BY DEF TypeOK, QueueTypes
<1>2. submission' = submission \o added
  BY DEF CommitSubmit
<1>3. ASSUME NEW k \in 1..n
      PROVE  /\ committed(k).waits   = chain[k].waits
             /\ committed(k).signals = chain[k].signals
             /\ committed(k).buffers = chain[k].buffers
  <2>1. chain[k] \in Segments
    BY <1>1, ElementOfSeq
  <2> QED  BY <2>1 DEF Segments
<1>4. Joined(submission, chain, submission')
  <2> HIDE DEF committed
  <2>1. added \in Seq({committed(k) : k \in 1..n}) /\ Len(added) = n
    BY <1>1
  <2>2. /\ Len(submission') = Len(submission) + n
        /\ \A i \in 1..Len(submission) : submission'[i] = submission[i]
        /\ \A k \in 1..n : submission'[Len(submission) + k] = committed(k)
    BY <1>1, <1>2, <2>1
  <2> QED  BY <1>1, <1>3, <2>2 DEF Joined
<1>5. /\ \A x : ReferencesIn(submission', x) =
                    ReferencesIn(submission, x) + ReferencesIn(chain, x)
      /\ \A b : UsesIn(submission', b) = UsesIn(submission, b) + UsesIn(chain, b)
  BY <1>4, JoinedCounts
<1>6. /\ \A b : UsesIn(submission, b) \in Nat /\ UsesIn(chain, b) \in Nat
  BY <1>1, CountsAreNaturals
<1>7. Pin(chain)
  BY DEF CommitSubmit
<1>8. \A x \in Semaphores : pending'[x] = ReferencesIn(submission', x)
  BY <1>5 DEF CommitSubmit, PinsMatchQueue
<1>9. ASSUME NEW b \in Buffers
      PROVE  /\ bufferPending'[b] = UsesIn(submission', b)
             /\ bufferState'[b] = "pending" <=> bufferPending'[b] > 0
             /\ bufferPending'[b] > 0 <=>
                    bufferPending[b] > 0 \/ (UsesIn(chain, b) > 0 /\ bufferPending[b] = 0)
  BY <1>5, <1>6, <1>7 DEF Pin, PinsMatchQueue
<1>10. ASSUME NEW e \in Events
       PROVE  /\ eventPins'[e] = {b \in Buffers : e \in EventRefs[b] /\ bufferPending'[b] > 0}
              /\ eventWaitPins'[e] = {b \in Buffers : e \in EventWaitRefs[b] /\ bufferPending'[b] > 0}
  <2> DEFINE first == {b \in Buffers : UsesIn(chain, b) > 0 /\ bufferPending[b] = 0}
  <2>1. /\ eventPins'[e] = eventPins[e] \cup {b \in first : e \in EventRefs[b]}
        /\ eventWaitPins'[e] = eventWaitPins[e] \cup {b \in first : e \in EventWaitRefs[b]}
    BY <1>7 DEF Pin
  <2>2. /\ eventPins[e] = {b \in Buffers : e \in EventRefs[b] /\ bufferPending[b] > 0}
        /\ eventWaitPins[e] = {b \in Buffers : e \in EventWaitRefs[b] /\ bufferPending[b] > 0}
    BY DEF PinsMatchQueue
  <2> QED  BY <1>9, <2>1, <2>2
<1> QED  BY <1>8, <1>9, <1>10 DEF PinsMatchQueue

(* Starting or launching the head leaves what it references.               *)
LEMMA PinsOnMark ==
    ASSUME TypeOK, PinsMatchQueue, submission # <<>>, Marks(submission'),
           UNCHANGED <<pending, bufferVars, pinVars>>
    PROVE  PinsMatchQueue'
<1>1. submission \in Seq(Segments) /\ Len(submission) \in Nat /\ 1 \in 1..Len(submission)
  BY DEF TypeOK, QueueTypes
<1>2. \A i \in 1..Len(submission) : submission[i] \in Segments
  BY <1>1, ElementOfSeq
<1>3. /\ Len(submission') = Len(submission)
      /\ \A i \in 1..Len(submission) : /\ submission'[i].waits   = submission[i].waits
                                       /\ submission'[i].signals = submission[i].signals
                                       /\ submission'[i].buffers = submission[i].buffers
  <2>1. CASE submission' = [submission EXCEPT ![1].consumed = TRUE]
    BY <1>1, <1>2, <2>1 DEF Segments
  <2>2. CASE submission' = [submission EXCEPT ![1].job = TRUE]
    BY <1>1, <1>2, <2>2 DEF Segments
  <2> QED  BY <2>1, <2>2 DEF Marks
<1>4. /\ \A x : ReferencesIn(submission', x) = ReferencesIn(submission, x)
      /\ \A b : UsesIn(submission', b) = UsesIn(submission, b)
  BY <1>1, <1>3, SameCounts
<1>5. UNCHANGED <<pending, bufferState, bufferPending, eventPins, eventWaitPins>>
  BY DEF bufferVars, pinVars
<1> QED  BY <1>4, <1>5 DEF PinsMatchQueue

LEMMA PinsOnRecord ==
    ASSUME TypeOK, PinsMatchQueue, NEW b \in Buffers, RecordBuffer(b)
    PROVE  PinsMatchQueue'
<1>1. UNCHANGED <<submission, pending, bufferPending, eventPins, eventWaitPins>>
  BY DEF RecordBuffer, queueVars, semVars, pinVars
<1>2. ASSUME NEW c \in Buffers
      PROVE  bufferState'[c] = "pending" <=> bufferPending[c] > 0
  <2>1. /\ bufferState'[c] = IF c = b THEN "executable"
                             ELSE IF b \in Secondaries[c] THEN "invalid"
                             ELSE bufferState[c]
        /\ bufferState[b] = "invalid"
        /\ b \in Secondaries[c] => bufferPending[c] = 0
    BY DEF RecordBuffer
  <2>2. /\ bufferState[c] = "pending" <=> bufferPending[c] > 0
        /\ bufferState[b] = "pending" <=> bufferPending[b] > 0
    BY DEF PinsMatchQueue
  <2> QED  BY <2>1, <2>2
<1> QED  BY <1>1, <1>2 DEF PinsMatchQueue

LEMMA PinsStep ==
    ASSUME TypeOK, PinsMatchQueue, [Next]_vars
    PROVE  PinsMatchQueue'
<1> DEFINE quiet == UNCHANGED <<submission, pending, bufferVars, pinVars>>
<1> USE DEF queueVars, semVars
<1>1. ASSUME quiet PROVE PinsMatchQueue'
  BY <1>1 DEF PinsMatchQueue, bufferVars, pinVars
<1>2. ASSUME NEW t \in Threads, NewCall(t) PROVE PinsMatchQueue'
  BY <1>1, <1>2 DEF NewCall, SubmitCall, WaitIdleCall, SignalCall,
              WaitSemaphoresCall, WaitFencesCall, EventCall
<1>3. ASSUME NEW t \in Threads, TakesLock(t) PROVE PinsMatchQueue'
  BY <1>1, <1>3 DEF TakesLock, AdmitSubmit, Progress, WaitFencesAgain,
              WaitReturns, WaitContinues, SignalSemaphore
<1>4. ASSUME NEW t \in Threads, HoldsLock(t) PROVE PinsMatchQueue'
  <2>1. CASE DrainSubmit(t) \/ SubmitReturns(t) \/ DrainWaitIdle(t)
             \/ SignalReturns(t) \/ WaitPolled(t)
    BY <1>1, <2>1 DEF DrainSubmit, SubmitReturns, DrainWaitIdle, SignalReturns,
                WaitPolled
  <2>2. CASE BuildRecord(t) \/ PrepareJob(t) \/ RefuseSubmit(t)
    BY <1>1, <2>2 DEF BuildRecord, PrepareJob, RefuseSubmit
  <2>3. CASE CommitSubmit(t)
    BY <2>3, PinsOnCommit
  <2>4. CASE PollNothing(t) \/ PollStart(t) \/ PollPending(t) \/ PollFailed(t)
             \/ StartDone(t) \/ FrontendFailed(t)
    BY <1>1, <2>4 DEF PollNothing, PollStart, PollPending, PollFailed, StartDone,
                FrontendFailed
  <2>5. CASE PollComplete(t) \/ ExecuteFrontend(t)
    BY <2>5, PinsOnRetire DEF PollComplete, ExecuteFrontend, NothingToPoll
  <2>6. CASE RetireEmpty(t)
    BY <2>6, PinsOnRetire DEF RetireEmpty
  <2>7. CASE ConsumeWaits(t)
    BY <1>1, <2>7, PinsOnMark DEF ConsumeWaits, Marks
  <2>8. CASE LaunchHead(t) \/ LaunchFailed(t)
    BY <1>1, <2>8, PinsOnMark DEF LaunchHead, LaunchFailed, ReadyToLaunch, Marks
  <2> QED
    BY <1>4, <2>1, <2>2, <2>3, <2>4, <2>5, <2>6, <2>7, <2>8 DEF HoldsLock
<1>5. ASSUME NEW t \in Threads, Unlocked(t) PROVE PinsMatchQueue'
  BY <1>1, <1>5 DEF Unlocked, SetEvent, ResetEvent
<1>6. ASSUME NEW n \in 1..MaxSerial, Complete(n) PROVE PinsMatchQueue'
  BY <1>1, <1>6 DEF Complete
<1>7. ASSUME NEW f \in Fences, ResetFence(f) PROVE PinsMatchQueue'
  BY <1>1, <1>7 DEF ResetFence
<1>8. ASSUME NEW b \in Buffers, RecordBuffer(b) PROVE PinsMatchQueue'
  BY <1>8, PinsOnRecord
<1>9. CASE UNCHANGED vars
  BY <1>1, <1>9 DEF vars
<1> QED
  BY <1>2, <1>3, <1>4, <1>5, <1>6, <1>7, <1>8, <1>9 DEF Next

(* What the queue counts against semaphores, command buffers and events is *)
(* what queued records name, however submissions, retirements, event calls *)
(* and re-recordings interleave (pin, vk_queue.c:28).                      *)
THEOREM PinsStayMatched == Spec => []PinsMatchQueue
<1>1. Init => PinsMatchQueue
  BY NoCounts DEF Init, PinsMatchQueue
<1>2. TypeOK /\ PinsMatchQueue /\ [Next]_vars => PinsMatchQueue'
  BY PinsStep
<1> QED
  BY <1>1, <1>2, TypeCorrect, PTL DEF Spec

-----------------------------------------------------------------------------
(* Part 4: the promise. *)

(* The payload p of a binary semaphore once the first n records executed:  *)
(* as find_state computes it, as the nearest record that refers to the     *)
(* semaphore leaves it, and as a count.                                    *)
After(p, W, S, n) ==
    \/ p /\ \A k \in 1..n : k \notin W
    \/ \E j \in 1..n : j \in S /\ \A k \in (j + 1)..n : k \notin W

Nearest(p, W, S, n) ==
    IF \E j \in 1..n : j \in W \/ j \in S
    THEN \E j \in 1..n : j \in S /\ \A k \in (j + 1)..n : k \notin W /\ k \notin S
    ELSE p

UpTo(A, n) == A \cap (1..n)

Level(p, W, S, m, n) ==
    (IF p THEN 1 ELSE 0) + Cardinality(UpTo(S, m)) - Cardinality(UpTo(W, n))

(* The three agree after n records.                                        *)
Agree(p, W, S, n) ==
    /\ Nearest(p, W, S, n) <=> After(p, W, S, n)
    /\ Level(p, W, S, n, n) = IF After(p, W, S, n) THEN 1 ELSE 0

(* Record n waits and signals only as the records before it allow.         *)
Sound(p, W, S, n) ==
    /\ n \in W => After(p, W, S, n - 1)
    /\ n \in S => n \in W \/ ~After(p, W, S, n - 1)

Consistent(p, W, S, n) ==
    /\ \A k \in 1..n : Sound(p, W, S, k)
    /\ \A k \in 0..n : Agree(p, W, S, k)

-----------------------------------------------------------------------------
(* Payloads by positions. *)

LEMMA CountUpTo ==
    ASSUME NEW A, NEW n \in Nat
    PROVE  /\ IsFiniteSet(UpTo(A, n)) /\ Cardinality(UpTo(A, n)) \in Nat
           /\ UpTo(A, 0) = {} /\ Cardinality(UpTo(A, 0)) = 0
           /\ n # 0 => Cardinality(UpTo(A, n)) =
                  Cardinality(UpTo(A, n - 1)) + (IF n \in A THEN 1 ELSE 0)
<1>1. \A m \in Nat : IsFiniteSet(UpTo(A, m)) /\ Cardinality(UpTo(A, m)) \in Nat
  BY PositionsFinite DEF UpTo
<1>2. UpTo(A, 0) = {}
  BY DEF UpTo
<1>3. Cardinality(UpTo(A, 0)) = 0
  BY <1>2, FS_EmptySet
<1>4. ASSUME n # 0, n \in A
      PROVE  Cardinality(UpTo(A, n)) = Cardinality(UpTo(A, n - 1)) + 1
  <2>1. UpTo(A, n) = UpTo(A, n - 1) \cup {n} /\ n \notin UpTo(A, n - 1)
    BY <1>4 DEF UpTo
  <2>2. n - 1 \in Nat
    BY <1>4
  <2> QED  BY <1>1, <2>1, <2>2, FS_AddElement
<1>5. ASSUME n # 0, n \notin A
      PROVE  Cardinality(UpTo(A, n)) = Cardinality(UpTo(A, n - 1))
  <2>1. UpTo(A, n) = UpTo(A, n - 1)
    BY <1>5 DEF UpTo
  <2> QED  BY <2>1
<1>6. n # 0 => Cardinality(UpTo(A, n - 1)) \in Nat
  BY <1>1
<1> QED  BY <1>1, <1>2, <1>3, <1>4, <1>5, <1>6

(* One record more.                                                        *)
LEMMA AfterNext ==
    ASSUME NEW p \in BOOLEAN, NEW W, NEW S, NEW n \in Nat \ {0}
    PROVE  /\ After(p, W, S, 0) <=> p
           /\ After(p, W, S, n) <=>
                  n \in S \/ (n \notin W /\ After(p, W, S, n - 1))
<1>1. After(p, W, S, 0) <=> p
  BY DEF After
<1>2. /\ n - 1 \in Nat /\ n \in 1..n
      /\ \A k : k \in 1..n <=> k = n \/ k \in 1..(n - 1)
      /\ \A j \in 1..(n - 1) : \A k : k \in (j + 1)..n <=> k = n \/ k \in (j + 1)..(n - 1)
      /\ \A k : k \notin (n + 1)..n
  OBVIOUS
<1>3. ASSUME n \in S PROVE After(p, W, S, n)
  BY <1>2, <1>3 DEF After
<1>4. ASSUME n \notin S, n \notin W
      PROVE  After(p, W, S, n) <=> After(p, W, S, n - 1)
  BY <1>2, <1>4 DEF After
<1>5. ASSUME n \notin S, n \in W PROVE ~After(p, W, S, n)
  BY <1>2, <1>5 DEF After
<1> QED  BY <1>1, <1>3, <1>4, <1>5

LEMMA NearestNext ==
    ASSUME NEW p \in BOOLEAN, NEW W, NEW S, NEW n \in Nat \ {0}
    PROVE  /\ Nearest(p, W, S, 0) <=> p
           /\ Nearest(p, W, S, n) <=>
                  n \in S \/ (n \notin W /\ Nearest(p, W, S, n - 1))
<1>1. Nearest(p, W, S, 0) <=> p
  BY DEF Nearest
<1>2. /\ n - 1 \in Nat /\ n \in 1..n
      /\ \A k : k \in 1..n <=> k = n \/ k \in 1..(n - 1)
      /\ \A j \in 1..(n - 1) : \A k : k \in (j + 1)..n <=> k = n \/ k \in (j + 1)..(n - 1)
      /\ \A k : k \notin (n + 1)..n
  OBVIOUS
<1>3. ASSUME n \in S PROVE Nearest(p, W, S, n)
  BY <1>2, <1>3 DEF Nearest
<1>4. ASSUME n \notin S, n \notin W
      PROVE  Nearest(p, W, S, n) <=> Nearest(p, W, S, n - 1)
  BY <1>2, <1>4 DEF Nearest
<1>5. ASSUME n \notin S, n \in W PROVE ~Nearest(p, W, S, n)
  BY <1>2, <1>5 DEF Nearest
<1> QED  BY <1>1, <1>3, <1>4, <1>5

LEMMA AgreeNext ==
    ASSUME NEW p \in BOOLEAN, NEW W, NEW S, NEW n \in Nat \ {0},
           Agree(p, W, S, n - 1), Sound(p, W, S, n)
    PROVE  Agree(p, W, S, n)
<1>1. n - 1 \in Nat
  OBVIOUS
<1>2. /\ Cardinality(UpTo(W, n - 1)) \in Nat /\ Cardinality(UpTo(S, n - 1)) \in Nat
      /\ Cardinality(UpTo(W, n)) =
             Cardinality(UpTo(W, n - 1)) + (IF n \in W THEN 1 ELSE 0)
      /\ Cardinality(UpTo(S, n)) =
             Cardinality(UpTo(S, n - 1)) + (IF n \in S THEN 1 ELSE 0)
  BY <1>1, CountUpTo
<1>3. Nearest(p, W, S, n) <=> After(p, W, S, n)
  BY AfterNext, NearestNext DEF Agree
<1>4. Level(p, W, S, n, n) = Level(p, W, S, n - 1, n - 1)
          + (IF n \in S THEN 1 ELSE 0) - (IF n \in W THEN 1 ELSE 0)
  BY <1>2 DEF Level
<1>5. Level(p, W, S, n, n) = IF After(p, W, S, n) THEN 1 ELSE 0
  BY <1>4, AfterNext DEF Agree, Sound
<1> QED  BY <1>3, <1>5 DEF Agree

LEMMA AgreeNone ==
    ASSUME NEW p \in BOOLEAN, NEW W, NEW S
    PROVE  Agree(p, W, S, 0)
<1>1. 0 \in Nat /\ 1 \in Nat \ {0}
  OBVIOUS
<1>2. Cardinality(UpTo(W, 0)) = 0 /\ Cardinality(UpTo(S, 0)) = 0
  BY <1>1, CountUpTo
<1>3. (After(p, W, S, 0) <=> p) /\ (Nearest(p, W, S, 0) <=> p)
  BY <1>1, AfterNext, NearestNext
<1> QED  BY <1>2, <1>3 DEF Agree, Level

(* Records that do not refer to the semaphore change nothing.              *)
LEMMA Stretch ==
    ASSUME NEW p \in BOOLEAN, NEW W, NEW S, NEW m \in Nat, NEW n \in Nat, m <= n,
           \A k \in (m + 1)..n : k \notin W /\ k \notin S
    PROVE  /\ After(p, W, S, n) <=> After(p, W, S, m)
           /\ Agree(p, W, S, m) => Agree(p, W, S, n)
<1>1. /\ \A k : k \in 1..n <=> k \in 1..m \/ k \in (m + 1)..n
      /\ \A j \in 1..m : \A k :
             k \in (j + 1)..n <=> k \in (j + 1)..m \/ k \in (m + 1)..n
  OBVIOUS
<1>2. After(p, W, S, n) <=> After(p, W, S, m)
  BY <1>1 DEF After
<1>3. Nearest(p, W, S, n) <=> Nearest(p, W, S, m)
  BY <1>1 DEF Nearest
<1>4. UpTo(W, n) = UpTo(W, m) /\ UpTo(S, n) = UpTo(S, m)
  BY <1>1 DEF UpTo
<1> QED  BY <1>2, <1>3, <1>4 DEF Agree, Level

(* What holds after n records depends on those n records only.             *)
LEMMA SamePrefix ==
    ASSUME NEW p, NEW W, NEW S, NEW V, NEW T, NEW n \in Nat,
           \A k \in 1..n : (k \in W <=> k \in V) /\ (k \in S <=> k \in T)
    PROVE  /\ \A k \in 0..n : /\ After(p, W, S, k) <=> After(p, V, T, k)
                              /\ Agree(p, W, S, k) <=> Agree(p, V, T, k)
           /\ \A k \in 1..n : Sound(p, W, S, k) <=> Sound(p, V, T, k)
           /\ Consistent(p, W, S, n) <=> Consistent(p, V, T, n)
<1>1. ASSUME NEW k \in 0..n
      PROVE  /\ After(p, W, S, k) <=> After(p, V, T, k)
             /\ Agree(p, W, S, k) <=> Agree(p, V, T, k)
  <2>1. /\ \A i \in 1..k : i \in 1..n
        /\ \A j \in 1..k : \A i \in (j + 1)..k : i \in 1..n
    OBVIOUS
  <2>2. After(p, W, S, k) <=> After(p, V, T, k)
    BY <2>1 DEF After
  <2>3. Nearest(p, W, S, k) <=> Nearest(p, V, T, k)
    BY <2>1 DEF Nearest
  <2>4. UpTo(W, k) = UpTo(V, k) /\ UpTo(S, k) = UpTo(T, k)
    BY <2>1 DEF UpTo
  <2> QED  BY <2>2, <2>3, <2>4 DEF Agree, Level
<1>2. ASSUME NEW k \in 1..n PROVE Sound(p, W, S, k) <=> Sound(p, V, T, k)
  <2>1. k - 1 \in 0..n
    OBVIOUS
  <2> QED  BY <1>1, <2>1 DEF Sound
<1> QED  BY <1>1, <1>2 DEF Consistent

(* A record of n segments waits with its first and signals with its last.  *)
LEMMA ConsistentAppend ==
    ASSUME NEW p \in BOOLEAN, NEW W, NEW S, NEW m \in Nat, NEW n \in Nat \ {0},
           Consistent(p, W, S, m),
           \A k \in (m + 2)..(m + n) : k \notin W,
           \A k \in (m + 1)..(m + n - 1) : k \notin S,
           m + 1 \in W => After(p, W, S, m),
           m + n \in S => m + 1 \in W \/ ~After(p, W, S, m)
    PROVE  Consistent(p, W, S, m + n)
<1> DEFINE first == m + 1
           last == m + n
<1>1. /\ first \in Nat \ {0} /\ last \in Nat \ {0} /\ first - 1 = m
      /\ last - 1 \in Nat /\ first <= last
  OBVIOUS
<1>2. first \in S => first = last
  OBVIOUS
<1>3. Sound(p, W, S, first)
  BY <1>1, <1>2 DEF Sound
<1>4. Agree(p, W, S, m)
  BY DEF Consistent
<1>5. Agree(p, W, S, first)
  BY <1>1, <1>3, <1>4, AgreeNext
<1>6. ASSUME NEW k \in first..(last - 1)
      PROVE  /\ After(p, W, S, k) <=> After(p, W, S, first)
             /\ Agree(p, W, S, k)
  <2>1. k \in Nat /\ first <= k /\ \A i \in (first + 1)..k : i \notin W /\ i \notin S
    OBVIOUS
  <2> QED  BY <1>1, <1>5, <2>1, Stretch
<1>7. ASSUME NEW k \in first..last, k # first PROVE Sound(p, W, S, k)
  <2>1. k \notin W
    BY <1>7
  <2>2. CASE k # last
    <3>1. k \notin S
      BY <2>2
    <3> QED  BY <2>1, <3>1 DEF Sound
  <2>3. CASE k = last
    <3>1. last - 1 \in first..(last - 1) /\ first \notin S
      BY <1>7, <2>3
    <3>2. After(p, W, S, last - 1) <=> After(p, W, S, first)
      BY <1>6, <3>1
    <3>3. After(p, W, S, first) <=> first \notin W /\ After(p, W, S, m)
      BY <1>1, <3>1, AfterNext
    <3> QED  BY <2>1, <2>3, <3>2, <3>3 DEF Sound
  <2> QED  BY <2>2, <2>3
<1>8. Agree(p, W, S, last)
  <2>1. CASE first = last
    BY <1>5, <2>1
  <2>2. CASE first # last
    <3>1. last - 1 \in first..(last - 1) /\ last \in first..last
      BY <1>1, <2>2
    <3>2. Agree(p, W, S, last - 1) /\ Sound(p, W, S, last)
      BY <1>6, <1>7, <2>2, <3>1
    <3> QED  BY <1>1, <3>2, AgreeNext
  <2> QED  BY <2>1, <2>2
<1>9. ASSUME NEW k \in 1..last PROVE Sound(p, W, S, k)
  <2>1. k \in 1..m \/ k = first \/ (k \in first..last /\ k # first)
    OBVIOUS
  <2> QED  BY <1>3, <1>7, <2>1 DEF Consistent
<1>10. ASSUME NEW k \in 0..last PROVE Agree(p, W, S, k)
  <2>1. k \in 0..m \/ k \in first..(last - 1) \/ k = last
    OBVIOUS
  <2> QED  BY <1>6, <1>8, <2>1 DEF Consistent
<1> QED  BY <1>9, <1>10 DEF Consistent

(* The head consumes its waits.                                            *)
LEMMA ConsistentConsume ==
    ASSUME NEW p \in BOOLEAN, NEW W, NEW S, NEW n \in Nat \ {0},
           Consistent(p, W, S, n)
    PROVE  Consistent(p /\ 1 \notin W, W \ {1}, S, n)
<1> DEFINE q == p /\ 1 \notin W
           V == W \ {1}
<1>1. q \in BOOLEAN /\ 1 \in 1..n /\ 1 - 1 = 0 /\ 1 \in Nat \ {0}
  OBVIOUS
<1>2. After(p, W, S, 0) <=> p
  BY <1>1, AfterNext
<1>3. Sound(p, W, S, 1)
  BY <1>1 DEF Consistent
<1>4. 1 \in W => p
  BY <1>1, <1>2, <1>3 DEF Sound
<1>5. ASSUME NEW k \in 1..n PROVE After(q, V, S, k) <=> After(p, W, S, k)
  <2>1. 1 \in 1..k /\ \A j \in 1..k : \A i \in (j + 1)..k : i # 1
    OBVIOUS
  <2> QED  BY <2>1 DEF After
<1>6. ASSUME NEW k \in 1..n PROVE Nearest(q, V, S, k) <=> Nearest(p, W, S, k)
  <2>1. 1 \in 1..k /\ \A j \in 1..k : j # 1 => 1 \notin (j + 1)..k
    OBVIOUS
  <2>2. \A j \in 1..k : \A i \in (j + 1)..k : i # 1
    OBVIOUS
  <2>3. CASE \E j \in 1..k : j \in V \/ j \in S
    BY <2>1, <2>2, <2>3 DEF Nearest
  <2>4. CASE ~ \E j \in 1..k : j \in V \/ j \in S
    BY <2>1, <2>2, <2>4 DEF Nearest
  <2> QED  BY <2>3, <2>4
<1>7. ASSUME NEW k \in 1..n
      PROVE  Level(q, V, S, k, k) = Level(p, W, S, k, k)
  <2>1. /\ IsFiniteSet(UpTo(W, k)) /\ Cardinality(UpTo(W, k)) \in Nat
        /\ Cardinality(UpTo(S, k)) \in Nat
    BY CountUpTo
  <2>2. UpTo(V, k) = UpTo(W, k) \ {1} /\ (1 \in UpTo(W, k) <=> 1 \in W)
    BY DEF UpTo
  <2>3. Cardinality(UpTo(V, k)) = Cardinality(UpTo(W, k)) - (IF 1 \in W THEN 1 ELSE 0)
    <3>1. Cardinality(UpTo(W, k) \ {1}) =
              IF 1 \in UpTo(W, k) THEN Cardinality(UpTo(W, k)) - 1
              ELSE Cardinality(UpTo(W, k))
      BY <2>1, FS_RemoveElement
    <3> HIDE DEF V
    <3> QED  BY <2>1, <2>2, <3>1
  <2> QED  BY <1>4, <2>1, <2>3 DEF Level
<1>8. ASSUME NEW k \in 0..n PROVE Agree(q, V, S, k)
  <2>1. CASE k = 0
    BY <1>1, <2>1, AgreeNone
  <2>2. CASE k # 0
    <3>1. k \in 1..n
      BY <2>2
    <3>2. Agree(p, W, S, k)
      BY DEF Consistent
    <3> HIDE DEF q, V
    <3> QED  BY <1>5, <1>6, <1>7, <3>1, <3>2 DEF Agree
  <2> QED  BY <2>1, <2>2
<1>9. ASSUME NEW k \in 1..n PROVE Sound(q, V, S, k)
  <2>1. Sound(p, W, S, k)
    BY DEF Consistent
  <2>2. CASE k = 1
    <3>1. After(q, V, S, 0) <=> q
      BY <1>1, AfterNext
    <3> QED  BY <1>2, <2>1, <2>2, <3>1 DEF Sound
  <2>3. CASE k # 1
    <3>1. k - 1 \in 1..n
      BY <2>3
    <3>2. After(q, V, S, k - 1) <=> After(p, W, S, k - 1)
      BY <1>5, <3>1
    <3> QED  BY <2>1, <2>3, <3>2 DEF Sound
  <2> QED  BY <2>2, <2>3
<1> QED  BY <1>8, <1>9 DEF Consistent

(* The head, its waits consumed, retires.                                  *)
LEMMA ConsistentRetire ==
    ASSUME NEW p \in BOOLEAN, NEW W, NEW S, NEW n \in Nat \ {0},
           1 \notin W, Consistent(p, W, S, n)
    PROVE  Consistent(p \/ 1 \in S, {k \in Nat : k + 1 \in W},
                      {k \in Nat : k + 1 \in S}, n - 1)
<1> DEFINE q == p \/ 1 \in S
           V == {k \in Nat : k + 1 \in W}
           T == {k \in Nat : k + 1 \in S}
<1>1. q \in BOOLEAN /\ 1 \in 1..n /\ 1 - 1 = 0 /\ n - 1 \in Nat
      /\ 1 \in Nat \ {0}
  OBVIOUS
<1>2. Sound(p, W, S, 1) /\ (After(p, W, S, 0) <=> p)
  BY <1>1, AfterNext DEF Consistent
<1>3. 1 \in S => ~p
  BY <1>1, <1>2 DEF Sound
<1>4. ASSUME NEW k \in 0..(n - 1)
      PROVE  /\ \A i \in 1..(k + 1) : i = 1 \/ (i - 1 \in 1..k /\ i = (i - 1) + 1)
             /\ \A i \in 1..k : i + 1 \in 1..(k + 1) /\ i \in Nat
             /\ \A j \in 1..k : \A i \in (j + 1)..k :
                    i + 1 \in ((j + 1) + 1)..(k + 1) /\ i \in Nat
             /\ \A j \in 1..k : \A i \in ((j + 1) + 1)..(k + 1) :
                    i - 1 \in (j + 1)..k /\ i = (i - 1) + 1
             /\ \A i \in (1 + 1)..(k + 1) : i - 1 \in 1..k /\ i = (i - 1) + 1
             /\ \A i \in 1..k : i + 1 \in (1 + 1)..(k + 1)
             /\ 1 \in 1..(k + 1)
  OBVIOUS
<1>5. ASSUME NEW k \in 0..(n - 1)
      PROVE  After(q, V, T, k) <=> After(p, W, S, k + 1)
  <2>1. (\A i \in 1..k : i \notin V) <=> (\A i \in 1..(k + 1) : i \notin W)
    BY <1>4
  <2>2. ASSUME NEW j \in 1..k
        PROVE  (\A i \in (j + 1)..k : i \notin V)
                   <=> (\A i \in ((j + 1) + 1)..(k + 1) : i \notin W)
    BY <1>4
  <2>3. (\A i \in (1 + 1)..(k + 1) : i \notin W) <=> (\A i \in 1..k : i \notin V)
    BY <1>4
  <2>4. \A j \in 1..k : j \in T <=> j + 1 \in S
    BY <1>4
  <2> HIDE DEF V, T
  <2>5. After(q, V, T, k) => After(p, W, S, k + 1)
    BY <1>4, <2>1, <2>2, <2>3, <2>4 DEF After
  <2>6. ASSUME After(p, W, S, k + 1) PROVE After(q, V, T, k)
    <3>1. CASE p /\ \A i \in 1..(k + 1) : i \notin W
      BY <2>1, <3>1 DEF After
    <3>2. CASE \E j \in 1..(k + 1) :
                   j \in S /\ \A i \in (j + 1)..(k + 1) : i \notin W
      <4>1. PICK j \in 1..(k + 1) :
                   j \in S /\ \A i \in (j + 1)..(k + 1) : i \notin W
        BY <3>2
      <4>2. CASE j = 1
        BY <2>3, <4>1, <4>2 DEF After
      <4>3. CASE j # 1
        <5> DEFINE l == j - 1
        <5>1. l \in 1..k /\ j = l + 1
          BY <1>4, <4>3
        <5>2. l \in T /\ \A i \in (l + 1)..k : i \notin V
          BY <2>2, <2>4, <4>1, <5>1
        <5> HIDE DEF l
        <5> QED  BY <5>1, <5>2 DEF After
      <4> QED  BY <4>2, <4>3
    <3> QED  BY <2>6, <3>1, <3>2 DEF After
  <2> QED  BY <2>5, <2>6
<1>6. ASSUME NEW k \in 0..(n - 1)
      PROVE  Nearest(q, V, T, k) <=> Nearest(p, W, S, k + 1)
  <2>1. \A i \in 1..k : (i \in V <=> i + 1 \in W) /\ (i \in T <=> i + 1 \in S)
    BY <1>4
  <2>2. ASSUME NEW j \in 1..k
        PROVE  (\A i \in (j + 1)..k : i \notin V /\ i \notin T)
                   <=> (\A i \in ((j + 1) + 1)..(k + 1) : i \notin W /\ i \notin S)
    BY <1>4
  <2>3. (\E i \in (1 + 1)..(k + 1) : i \in W \/ i \in S)
            <=> (\E i \in 1..k : i \in V \/ i \in T)
    BY <1>4
  <2> HIDE DEF V, T
  <2>4. CASE \E i \in 1..k : i \in V \/ i \in T
    <3>1. \E j \in 1..(k + 1) : j \in W \/ j \in S
      BY <1>4, <2>1, <2>4
    <3>2. Nearest(q, V, T, k) => Nearest(p, W, S, k + 1)
      BY <1>4, <2>1, <2>2, <2>4, <3>1 DEF Nearest
    <3>3. ASSUME Nearest(p, W, S, k + 1) PROVE Nearest(q, V, T, k)
      <4>1. PICK j \in 1..(k + 1) : /\ j \in S
                /\ \A i \in (j + 1)..(k + 1) : i \notin W /\ i \notin S
        BY <3>1, <3>3 DEF Nearest
      <4>2. j # 1
        BY <2>3, <2>4, <4>1
      <4> DEFINE l == j - 1
      <4>3. l \in 1..k /\ j = l + 1
        BY <1>4, <4>2
      <4>4. l \in T /\ \A i \in (l + 1)..k : i \notin V /\ i \notin T
        BY <2>1, <2>2, <4>1, <4>3
      <4> HIDE DEF l
      <4> QED  BY <2>4, <4>3, <4>4 DEF Nearest
    <3> QED  BY <3>2, <3>3
  <2>5. CASE ~ \E i \in 1..k : i \in V \/ i \in T
    <3>1. Nearest(q, V, T, k) <=> q
      BY <2>5 DEF Nearest
    <3>2. ASSUME 1 \in S PROVE Nearest(p, W, S, k + 1)
      BY <1>4, <2>3, <2>5, <3>2 DEF Nearest
    <3>3. ASSUME 1 \notin S PROVE Nearest(p, W, S, k + 1) <=> p
      <4>1. ASSUME NEW i \in 1..(k + 1) PROVE i \notin W /\ i \notin S
        <5>1. i = 1 \/ i \in (1 + 1)..(k + 1)
          OBVIOUS
        <5> QED  BY <2>3, <2>5, <3>3, <5>1
      <4> QED  BY <4>1 DEF Nearest
    <3> QED  BY <3>1, <3>2, <3>3
  <2> QED  BY <2>4, <2>5
<1>7. ASSUME NEW A, NEW k \in 0..(n - 1)
      PROVE  Cardinality(UpTo({i \in Nat : i + 1 \in A}, k)) =
                 Cardinality(UpTo(A, k + 1)) - (IF 1 \in A THEN 1 ELSE 0)
  <2> DEFINE B == {i \in Nat : i + 1 \in A}
             f == [i \in UpTo(B, k) |-> i + 1]
             X == UpTo(A, k + 1) \ {1}
  <2>1. IsFiniteSet(UpTo(B, k))
    BY CountUpTo
  <2>2. f \in [UpTo(B, k) -> X]
    BY <1>4 DEF UpTo
  <2>3. \A i, j \in UpTo(B, k) : f[i] = f[j] => i = j
    BY DEF UpTo
  <2>4. ASSUME NEW j \in X PROVE \E i \in UpTo(B, k) : f[i] = j
    <3>1. j - 1 \in UpTo(B, k) /\ f[j - 1] = j
      BY <1>4 DEF UpTo
    <3> QED  BY <3>1
  <2>5. ExistsBijection(UpTo(B, k), X)
    BY <2>2, <2>3, <2>4, Fun_IsBij DEF ExistsBijection
  <2>6. Cardinality(UpTo(B, k)) = Cardinality(X)
    BY <2>1, <2>5, FS_Bijection
  <2>7. IsFiniteSet(UpTo(A, k + 1)) /\ (1 \in UpTo(A, k + 1) <=> 1 \in A)
        /\ Cardinality(UpTo(A, k + 1)) \in Nat
    <3>1. k + 1 \in Nat /\ 1 \in 1..(k + 1)
      OBVIOUS
    <3>2. 1 \in UpTo(A, k + 1) <=> 1 \in A
      BY <3>1 DEF UpTo
    <3> QED  BY <3>1, <3>2, CountUpTo
  <2>8. Cardinality(X) = IF 1 \in UpTo(A, k + 1) THEN Cardinality(UpTo(A, k + 1)) - 1
                         ELSE Cardinality(UpTo(A, k + 1))
    BY <2>7, FS_RemoveElement
  <2> HIDE DEF B, X
  <2> QED  BY <2>6, <2>7, <2>8 DEF B
<1>8. ASSUME NEW k \in 0..(n - 1)
      PROVE  Level(q, V, T, k, k) = Level(p, W, S, k + 1, k + 1)
  <2>1. /\ Cardinality(UpTo(V, k)) = Cardinality(UpTo(W, k + 1))
        /\ Cardinality(UpTo(T, k)) =
               Cardinality(UpTo(S, k + 1)) - (IF 1 \in S THEN 1 ELSE 0)
        /\ Cardinality(UpTo(W, k + 1)) \in Nat /\ Cardinality(UpTo(S, k + 1)) \in Nat
    <3>1. k + 1 \in Nat
      OBVIOUS
    <3>2. /\ Cardinality(UpTo(V, k)) =
                 Cardinality(UpTo(W, k + 1)) - (IF 1 \in W THEN 1 ELSE 0)
          /\ Cardinality(UpTo(T, k)) =
                 Cardinality(UpTo(S, k + 1)) - (IF 1 \in S THEN 1 ELSE 0)
      BY <1>7
    <3>3. Cardinality(UpTo(W, k + 1)) \in Nat /\ Cardinality(UpTo(S, k + 1)) \in Nat
      BY <3>1, CountUpTo
    <3> HIDE DEF V, T
    <3> QED  BY <3>2, <3>3
  <2> HIDE DEF V, T
  <2> QED  BY <1>3, <2>1 DEF Level
<1>9. ASSUME NEW k \in 0..(n - 1) PROVE Agree(q, V, T, k)
  <2>1. k + 1 \in 0..n
    OBVIOUS
  <2>2. Agree(p, W, S, k + 1)
    BY <2>1 DEF Consistent
  <2> HIDE DEF q, V, T
  <2> QED  BY <1>5, <1>6, <1>8, <2>2 DEF Agree
<1>10. ASSUME NEW k \in 1..(n - 1) PROVE Sound(q, V, T, k)
  <2>1. k + 1 \in 1..n /\ k - 1 \in 0..(n - 1) /\ (k + 1) - 1 = (k - 1) + 1
    OBVIOUS
  <2>2. Sound(p, W, S, k + 1)
    BY <2>1 DEF Consistent
  <2>3. After(q, V, T, k - 1) <=> After(p, W, S, (k + 1) - 1)
    BY <1>5, <2>1
  <2>4. (k \in V <=> k + 1 \in W) /\ (k \in T <=> k + 1 \in S)
    OBVIOUS
  <2> HIDE DEF q, V, T
  <2> QED  BY <2>2, <2>3, <2>4 DEF Sound
<1>11. n - 1 \in Nat
  OBVIOUS
<1> HIDE DEF q, V, T
<1>12. Consistent(q, V, T, n - 1)
  BY <1>9, <1>10 DEF Consistent
<1> QED  BY <1>12 DEF q, V, T

(* In the balance that the promise speaks of, a consistent queue never     *)
(* takes a semaphore below 0 or above 1.                                   *)
LEMMA ConsistentBalance ==
    ASSUME NEW p \in BOOLEAN, NEW W, NEW S, NEW n \in Nat,
           Consistent(p, W, S, n), NEW k \in 1..n
    PROVE  /\ Level(p, W, S, k - 1, k) \in {0, 1} /\ Level(p, W, S, k, k) \in {0, 1}
           /\ k \in W => Nearest(p, W, S, k - 1)
           /\ k \in S => k \in W \/ ~Nearest(p, W, S, k - 1)
<1>1. k \in Nat \ {0} /\ k - 1 \in Nat /\ k - 1 \in 0..n /\ k \in 0..n
  OBVIOUS
<1>2. Agree(p, W, S, k - 1) /\ Agree(p, W, S, k) /\ Sound(p, W, S, k)
  BY <1>1 DEF Consistent
<1>3. /\ Cardinality(UpTo(W, k - 1)) \in Nat /\ Cardinality(UpTo(S, k - 1)) \in Nat
      /\ Cardinality(UpTo(W, k)) =
             Cardinality(UpTo(W, k - 1)) + (IF k \in W THEN 1 ELSE 0)
  BY <1>1, CountUpTo
<1>4. Level(p, W, S, k - 1, k) =
          Level(p, W, S, k - 1, k - 1) - (IF k \in W THEN 1 ELSE 0)
  BY <1>3 DEF Level
<1>5. Level(p, W, S, k - 1, k) \in {0, 1}
  BY <1>2, <1>4 DEF Agree, Sound
<1> QED  BY <1>2, <1>5 DEF Agree, Sound
-----------------------------------------------------------------------------
(* The records that are queued or being built. *)

Records == submission \o chain

Waiting(records, b) ==
    {k \in 1..Len(records) : b \in DOMAIN records[k].waits /\ ~records[k].consumed}
Signaling(records, b) ==
    {k \in 1..Len(records) : b \in DOMAIN records[k].signals}

(* Validation of every record against those in front of it.                *)
Replays ==
    \A b \in Binaries :
        Consistent(signaled[b], Waiting(Records, b), Signaling(Records, b), Len(Records))

(* No record is started before it is queued; one that is queued and needs  *)
(* a job has it or may build it at the head; a host signal publishes one   *)
(* value.                                                                  *)
ChainFresh == \A k \in 1..Len(chain) : ~chain[k].consumed
Preparable ==
    \A i \in 1..Len(submission) :
        \/ submission[i].frontend \/ submission[i].buffers = <<>>
        \/ submission[i].job \/ submission[i].deferred
PublishesOne ==
    \A t \in Threads : pc[t] = "publish" =>
        \E x \in Timelines : DOMAIN call[t].values = {x}

Promised == Replays /\ ChainFresh /\ Preparable /\ PublishesOne

LEMMA RecordsOf ==
    ASSUME NEW q \in Seq(Segments), NEW c \in Seq(Segments)
    PROVE  /\ q \o c \in Seq(Segments)
           /\ Len(q) \in Nat /\ Len(c) \in Nat /\ Len(q \o c) = Len(q) + Len(c)
           /\ \A i \in 1..Len(q) : (q \o c)[i] = q[i]
           /\ \A k \in 1..Len(c) : (q \o c)[Len(q) + k] = c[k]
           /\ \A i \in 1..Len(q \o c) : (q \o c)[i] \in Segments
<1>1. q \o c \in Seq(Segments)
  OBVIOUS
<1>2. \A i \in 1..Len(q \o c) : (q \o c)[i] \in Segments
  BY <1>1, ElementOfSeq
<1> QED  BY <1>1, <1>2

(* find_state computes After.                                              *)
LEMMA FindState ==
    ASSUME NEW records, Len(records) \in Nat, NEW b
    PROVE  SignaledAfter(records, b) <=>
               After(signaled[b], Waiting(records, b), Signaling(records, b),
                     Len(records))
<1> DEFINE n == Len(records)
           waitsAfter(j) == \E k \in j..n : /\ b \in DOMAIN records[k].waits
                                            /\ ~records[k].consumed
<1>1. \A j \in 1..(n + 1) :
          waitsAfter(j) <=> ~ \A k \in j..n : k \notin Waiting(records, b)
  BY DEF Waiting
<1>2. \A j \in 1..n : j \in Signaling(records, b) <=> b \in DOMAIN records[j].signals
  BY DEF Signaling
<1>3. SignaledAfter(records, b) <=>
          \/ signaled[b] /\ ~waitsAfter(1)
          \/ \E j \in 1..n : b \in DOMAIN records[j].signals /\ ~waitsAfter(j + 1)
  BY DEF SignaledAfter
<1>4. 1 \in 1..(n + 1) /\ \A j \in 1..n : j + 1 \in 1..(n + 1)
  OBVIOUS
<1> HIDE DEF waitsAfter
<1> QED  BY <1>1, <1>2, <1>3, <1>4 DEF After

(* Records that wait and signal alike are consistent alike.                *)
LEMMA SameRecords ==
    ASSUME NEW p, NEW q, NEW r, NEW b, NEW n \in Nat, n <= Len(q), n <= Len(r),
           Len(q) \in Nat, Len(r) \in Nat,
           \A i \in 1..n : /\ q[i].waits = r[i].waits /\ q[i].signals = r[i].signals
                           /\ q[i].consumed = r[i].consumed
    PROVE  /\ Consistent(p, Waiting(q, b), Signaling(q, b), n) <=>
                  Consistent(p, Waiting(r, b), Signaling(r, b), n)
           /\ After(p, Waiting(q, b), Signaling(q, b), n) <=>
                  After(p, Waiting(r, b), Signaling(r, b), n)
<1>1. \A k \in 1..n : /\ k \in Waiting(q, b) <=> k \in Waiting(r, b)
                      /\ k \in Signaling(q, b) <=> k \in Signaling(r, b)
  BY DEF Waiting, Signaling
<1>2. n \in 0..n
  OBVIOUS
<1> QED  BY <1>1, <1>2, SamePrefix

LEMMA ConsistentPrefix ==
    ASSUME NEW p, NEW W, NEW S, NEW n \in Nat, NEW m \in 0..n, Consistent(p, W, S, n)
    PROVE  Consistent(p, W, S, m)
<1>1. (\A k \in 1..m : k \in 1..n) /\ (\A k \in 0..m : k \in 0..n)
  OBVIOUS
<1> QED  BY <1>1 DEF Consistent

(* The segments of one VkSubmitInfo.                                       *)
LEMMA RecordShape ==
    ASSUME TypeOK, NEW info \in Infos, ReferencesValid(info)
    PROVE  LET segments == RecordSegments(info)
               n == Len(segments)
           IN  /\ segments \in Seq(Segments) /\ n \in Nat \ {0}
               /\ \A k \in 1..n :
                      /\ ~segments[k].consumed
                      /\ segments[k].waits = IF k = 1 THEN info.waits
                                             ELSE NoReferences
                      /\ segments[k].signals = IF k = n THEN info.signals
                                               ELSE NoReferences
<1> DEFINE segments == RecordSegments(info)
           shapes == Expansion[info.buffers]
<1>1. shapes \in Seq(Shapes) /\ shapes # <<>>
  BY QueueAssumption DEF Infos
<1>2. segments \in Seq(Segments) /\ Len(segments) \in Nat \ {0}
  BY RecordSignals
<1>3. Len(segments) = Len(shapes)
  BY <1>1, <1>2 DEF RecordSegments
<1>4. \A k \in 1..Len(shapes) :
          /\ ~segments[k].consumed
          /\ segments[k].waits = IF k = 1 THEN info.waits ELSE NoReferences
          /\ segments[k].signals = IF k = Len(shapes) THEN info.signals
                                   ELSE NoReferences
  BY <1>1 DEF RecordSegments
<1> QED  BY <1>2, <1>3, <1>4

LEMMA ReplaysOnAppend ==
    ASSUME TypeOK, Replays, NEW info \in Infos, ReferencesValid(info),
           chain' = chain \o RecordSegments(info),
           submission' = submission, signaled' = signaled
    PROVE  Replays'
<1> DEFINE segments == RecordSegments(info)
           n == Len(segments)
           m == Len(Records)
<1>1. /\ segments \in Seq(Segments) /\ n \in Nat \ {0}
      /\ \A k \in 1..n :
             /\ ~segments[k].consumed
             /\ segments[k].waits = IF k = 1 THEN info.waits ELSE NoReferences
             /\ segments[k].signals = IF k = n THEN info.signals ELSE NoReferences
  BY RecordShape
<1>2. submission \in Seq(Segments) /\ chain \in Seq(Segments)
  BY DEF TypeOK, QueueTypes
<1>3. Records \in Seq(Segments) /\ m \in Nat
  BY <1>2, RecordsOf DEF Records
<1> HIDE DEF segments
<1>4. Records' = Records \o segments
  BY <1>1, <1>2 DEF Records, segments
<1>5. /\ Len(Records') = m + n
      /\ \A i \in 1..m : Records'[i] = Records[i]
      /\ \A k \in 1..n : Records'[m + k] = segments[k]
  BY <1>1, <1>3, <1>4, RecordsOf
<1>6. ASSUME NEW b \in Binaries
      PROVE  Consistent(signaled'[b], Waiting(Records', b), Signaling(Records', b),
                        Len(Records'))
  <2> DEFINE p == signaled[b]
             W == Waiting(Records', b)
             S == Signaling(Records', b)
  <2>1. p \in BOOLEAN
    BY DEF TypeOK, SemaphoreTypes
  <2>2. /\ Consistent(p, W, S, m)
        /\ After(p, W, S, m) <=> SignaledAfter(Records, b)
    <3>1. Consistent(p, Waiting(Records, b), Signaling(Records, b), m)
      BY DEF Replays
    <3>2. m <= Len(Records') /\ Len(Records') \in Nat
      BY <1>1, <1>3, <1>5
    <3>3. \A i \in 1..m : /\ Records[i].waits = Records'[i].waits
                         /\ Records[i].signals = Records'[i].signals
                         /\ Records[i].consumed = Records'[i].consumed
      BY <1>5
    <3>4. /\ Consistent(p, Waiting(Records, b), Signaling(Records, b), m) <=>
                 Consistent(p, W, S, m)
          /\ After(p, Waiting(Records, b), Signaling(Records, b), m) <=>
                 After(p, W, S, m)
      <4>1. m <= Len(Records) /\ Len(Records) \in Nat
        BY <1>3
      <4> HIDE DEF p
      <4> QED  BY <1>3, <3>2, <3>3, <4>1, SameRecords
    <3>5. SignaledAfter(Records, b) <=>
              After(p, Waiting(Records, b), Signaling(Records, b), m)
      BY <1>3, FindState
    <3> QED  BY <3>1, <3>4, <3>5
  <2>3. \A k \in 1..n : /\ m + k \in W <=> b \in DOMAIN segments[k].waits
                        /\ m + k \in S <=> b \in DOMAIN segments[k].signals
    BY <1>1, <1>3, <1>5 DEF Waiting, Signaling
  <2>4. DOMAIN NoReferences = {}
    BY DEF NoReferences
  <2>5. 1 \in 1..n /\ n \in 1..n /\ (\A k \in (m + 2)..(m + n) : k - m \in 2..n)
        /\ (\A k \in (m + 1)..(m + n - 1) : k - m \in 1..(n - 1))
    BY <1>1, <1>3
  <2> HIDE DEF W, S, p
  <2>6. ASSUME NEW k \in (m + 2)..(m + n) PROVE k \notin W
    <3> DEFINE l == k - m
    <3>1. l \in 1..n /\ l # 1 /\ k = m + l
      BY <1>1, <1>3
    <3> HIDE DEF l
    <3> QED  BY <1>1, <2>3, <2>4, <3>1
  <2>7. ASSUME NEW k \in (m + 1)..(m + n - 1) PROVE k \notin S
    <3> DEFINE l == k - m
    <3>1. l \in 1..n /\ l # n /\ k = m + l
      BY <1>1, <1>3
    <3> HIDE DEF l
    <3> QED  BY <1>1, <2>3, <2>4, <3>1
  <2>8. /\ m + 1 \in W <=> b \in DOMAIN info.waits
        /\ m + n \in S <=> b \in DOMAIN info.signals
    BY <1>1, <2>3, <2>5
  <2>9. /\ b \in DOMAIN info.waits => SignaledAfter(Records, b)
        /\ b \in DOMAIN info.signals =>
               b \in DOMAIN info.waits \/ ~SignaledAfter(Records, b)
    BY DEF ReferencesValid, Records
  <2>10. Consistent(p, W, S, m + n)
    BY <1>1, <1>3, <2>1, <2>2, <2>6, <2>7, <2>8, <2>9, ConsistentAppend
  <2> QED  BY <1>5, <2>10 DEF p, W, S
<1> QED  BY <1>6 DEF Replays

(* A discarded chain, a commit and a launch leave what the remaining       *)
(* records wait for and signal as it was.                                  *)
LEMMA ReplaysOnSame ==
    ASSUME Replays, signaled' = signaled,
           Len(Records) \in Nat, Len(Records') \in 0..Len(Records),
           \A i \in 1..Len(Records') :
               /\ Records'[i].waits = Records[i].waits
               /\ Records'[i].signals = Records[i].signals
               /\ Records'[i].consumed = Records[i].consumed
    PROVE  Replays'
<1> DEFINE n == Len(Records')
<1>1. n \in Nat /\ n <= Len(Records) /\ n <= Len(Records')
  OBVIOUS
<1>2. ASSUME NEW b \in Binaries
      PROVE  Consistent(signaled[b], Waiting(Records', b), Signaling(Records', b), n)
  <2>1. Consistent(signaled[b], Waiting(Records, b), Signaling(Records, b), Len(Records))
    BY DEF Replays
  <2>2. Consistent(signaled[b], Waiting(Records, b), Signaling(Records, b), n)
    BY <2>1, ConsistentPrefix
  <2> HIDE DEF n
  <2>3. \A i \in 1..n : /\ Records[i].waits = Records'[i].waits
                        /\ Records[i].signals = Records'[i].signals
                        /\ Records[i].consumed = Records'[i].consumed
    BY DEF n
  <2>4. Len(Records') \in Nat
    BY <1>1 DEF n
  <2> QED  BY <1>1, <2>2, <2>3, <2>4, SameRecords
<1> QED  BY <1>2 DEF Replays

LEMMA ReplaysOnCommit ==
    ASSUME TypeOK, Replays, NEW t \in Threads, CommitSubmit(t)
    PROVE  /\ Replays'
           /\ \A k \in 1..Len(chain) :
                  LET r == submission'[Len(submission) + k]
                  IN  /\ r.waits = chain[k].waits /\ r.signals = chain[k].signals
                      /\ r.consumed = chain[k].consumed
                      /\ r.fence = FenceAt(k, call[t].fence)
                      /\ r.frontend \/ r.buffers = <<>> \/ r.job \/ r.deferred
           /\ \A i \in 1..Len(submission) : submission'[i] = submission[i]
           /\ Len(submission') = Len(submission) + Len(chain)
           /\ Len(submission) \in Nat /\ Len(chain) \in Nat
<1> DEFINE committed(k) ==
               [chain[k] EXCEPT !.serial   = SerialAt(k),
                                !.fence    = FenceAt(k, call[t].fence),
                                !.deferred = DeferredAt(k),
                                !.job      = PreparedAt(k)]
           m == Len(submission)
           n == Len(chain)
           added == [k \in 1..n |-> committed(k)]
<1>1. /\ submission \in Seq(Segments) /\ m \in Nat
      /\ chain \in Seq(Segments) /\ n \in Nat
  BY DEF TypeOK, QueueTypes
<1>2. submission' = submission \o added /\ chain' = <<>> /\ signaled' = signaled
  BY DEF CommitSubmit
<1>3. ASSUME NEW k \in 1..n
      PROVE  /\ committed(k).waits = chain[k].waits
             /\ committed(k).signals = chain[k].signals
             /\ committed(k).consumed = chain[k].consumed
             /\ committed(k).fence = FenceAt(k, call[t].fence)
             /\ \/ committed(k).frontend \/ committed(k).buffers = <<>>
                \/ committed(k).job \/ committed(k).deferred
  <2>1. chain[k] \in Segments
    BY <1>1, ElementOfSeq
  <2>2. PreparedAt(k) <=>
            chain[k].buffers # <<>> /\ ~chain[k].frontend /\ ~DeferredAt(k)
    BY DEF PreparedAt
  <2>3. /\ committed(k).frontend = chain[k].frontend
        /\ committed(k).buffers = chain[k].buffers
        /\ committed(k).job = PreparedAt(k) /\ committed(k).deferred = DeferredAt(k)
    BY <2>1 DEF Segments
  <2>4. /\ committed(k).waits = chain[k].waits
        /\ committed(k).signals = chain[k].signals
        /\ committed(k).consumed = chain[k].consumed
        /\ committed(k).fence = FenceAt(k, call[t].fence)
    BY <2>1 DEF Segments
  <2> HIDE DEF committed
  <2> QED  BY <2>2, <2>3, <2>4
<1> HIDE DEF committed
<1>4. /\ Len(submission') = m + n
      /\ \A i \in 1..m : submission'[i] = submission[i]
      /\ \A k \in 1..n : submission'[m + k] = committed(k)
  <2>1. added \in Seq({committed(k) : k \in 1..n}) /\ Len(added) = n
    BY <1>1
  <2> QED  BY <1>1, <1>2, <2>1
<1>5. /\ Records' = submission' /\ Len(Records) = m + n
      /\ \A i \in 1..m : Records[i] = submission[i]
      /\ \A k \in 1..n : Records[m + k] = chain[k]
  <2>1. submission' \in Seq({submission[i] : i \in 1..m} \cup {committed(k) : k \in 1..n})
    <3>1. submission \in Seq({submission[i] : i \in 1..m})
      BY <1>1
    <3>2. added \in Seq({committed(k) : k \in 1..n})
      BY <1>1
    <3> QED  BY <1>1, <1>2, <3>1, <3>2
  <2>2. Records' = submission'
    BY <1>2, <2>1 DEF Records
  <2> QED  BY <1>1, <2>2, RecordsOf DEF Records
<1>6. ASSUME NEW i \in 1..(m + n)
      PROVE  /\ Records'[i].waits = Records[i].waits
             /\ Records'[i].signals = Records[i].signals
             /\ Records'[i].consumed = Records[i].consumed
  <2>1. CASE i \in 1..m
    BY <1>4, <1>5, <2>1
  <2>2. CASE i \notin 1..m
    <3> DEFINE k == i - m
    <3>1. k \in 1..n /\ i = m + k
      BY <1>1, <2>2
    <3> HIDE DEF k
    <3> QED  BY <1>3, <1>4, <1>5, <3>1
  <2> QED  BY <2>1, <2>2
<1>7. Replays'
  <2>1. Len(Records) \in Nat /\ Len(Records') = m + n /\ m + n \in 0..Len(Records)
    BY <1>1, <1>4, <1>5
  <2> QED  BY <1>2, <1>6, <2>1, ReplaysOnSame
<1> QED  BY <1>1, <1>3, <1>4, <1>7

LEMMA ReplaysOnLaunch ==
    ASSUME TypeOK, Replays, chain' = chain, signaled' = signaled, submission # <<>>,
           submission' = [submission EXCEPT ![1].job = TRUE]
    PROVE  Replays'
<1>1. /\ submission \in Seq(Segments) /\ chain \in Seq(Segments)
      /\ Len(submission) \in Nat /\ 1 \in 1..Len(submission)
  BY EmptySeq DEF TypeOK, QueueTypes
<1>2. \A i \in 1..Len(submission) : submission[i] \in Segments
  BY <1>1, ElementOfSeq
<1>3. [submission[1] EXCEPT !.job = TRUE] \in Segments
  BY <1>1, <1>2 DEF Segments
<1>4. /\ submission' \in Seq(Segments) /\ Len(submission') = Len(submission)
      /\ \A i \in 1..Len(submission) :
             submission'[i] = IF i = 1 THEN [submission[1] EXCEPT !.job = TRUE]
                              ELSE submission[i]
  BY <1>1, <1>3
<1>5. \A i \in 1..Len(submission) :
          /\ submission'[i].waits = submission[i].waits
          /\ submission'[i].signals = submission[i].signals
          /\ submission'[i].consumed = submission[i].consumed
  BY <1>2, <1>4 DEF Segments
<1>6. /\ Len(Records) \in Nat /\ Len(Records') = Len(Records)
      /\ Len(Records) = Len(submission) + Len(chain) /\ Len(chain) \in Nat
  BY <1>1, <1>4, RecordsOf DEF Records
<1>7. ASSUME NEW i \in 1..Len(Records)
      PROVE  /\ Records'[i].waits = Records[i].waits
             /\ Records'[i].signals = Records[i].signals
             /\ Records'[i].consumed = Records[i].consumed
  <2>1. CASE i \in 1..Len(submission)
    <3>1. Records[i] = submission[i] /\ Records'[i] = submission'[i]
      BY <1>1, <1>4, <2>1, RecordsOf DEF Records
    <3> QED  BY <1>5, <2>1, <3>1
  <2>2. CASE i \notin 1..Len(submission)
    <3> DEFINE k == i - Len(submission)
    <3>1. k \in 1..Len(chain) /\ i = Len(submission) + k
      BY <1>1, <1>6, <2>2
    <3> HIDE DEF k
    <3>2. Records[i] = chain[k] /\ Records'[i] = chain[k]
      BY <1>1, <1>4, <3>1, RecordsOf DEF Records
    <3> QED  BY <3>2
  <2> QED  BY <2>1, <2>2
<1> QED  BY <1>6, <1>7, ReplaysOnSame

(* The records are the queue when no chain is being built.                 *)
LEMMA NoChain ==
    ASSUME TypeOK, chain = <<>>
    PROVE  Records = submission
BY DEF TypeOK, QueueTypes, Records

(* The waits of the head are there to be consumed.                         *)
LEMMA ReplaysOnConsume ==
    ASSUME TypeOK, TypeOK', Replays, chain = <<>>, chain' = <<>>, submission # <<>>,
           ~submission[1].consumed,
           signaled' = [b \in Binaries |->
                           signaled[b] /\ b \notin DOMAIN submission[1].waits]
    PROVE  /\ \A b \in DOMAIN submission[1].waits \cap Binaries : signaled[b]
           /\ submission' = [submission EXCEPT ![1].consumed = TRUE] => Replays'
<1> DEFINE n == Len(submission)
<1>1. /\ submission \in Seq(Segments) /\ n \in Nat \ {0} /\ 1 \in 1..n
      /\ \A i \in 1..n : submission[i] \in Segments
  BY QueueFields DEF TypeOK, QueueTypes
<1>2. Records = submission /\ Records' = submission'
  <2>1. submission' \in Seq(Segments)
    BY DEF TypeOK, QueueTypes
  <2> QED  BY <1>1, <2>1 DEF Records
<1>3. ASSUME NEW b \in DOMAIN submission[1].waits \cap Binaries PROVE signaled[b]
  <2> DEFINE W == Waiting(submission, b)
             S == Signaling(submission, b)
  <2>1. 1 \in W
    BY <1>1 DEF Waiting
  <2>2. Sound(signaled[b], W, S, 1)
    BY <1>1, <1>2 DEF Replays, Consistent
  <2> HIDE DEF W, S
  <2>3. After(signaled[b], W, S, 1 - 1) <=> signaled[b]
    <3>1. 1 - 1 = 0
      OBVIOUS
    <3>2. After(signaled[b], W, S, 0) <=> signaled[b]
      BY DEF After
    <3> QED  BY <3>1, <3>2
  <2> QED  BY <2>1, <2>2, <2>3 DEF Sound
<1>4. ASSUME submission' = [submission EXCEPT ![1].consumed = TRUE],
             NEW b \in Binaries
      PROVE  Consistent(signaled'[b], Waiting(Records', b), Signaling(Records', b),
                        Len(Records'))
  <2> DEFINE p == signaled[b]
             W == Waiting(submission, b)
             S == Signaling(submission, b)
  <2>1. /\ Len(submission') = n
        /\ \A i \in 1..n : /\ submission'[i].waits = submission[i].waits
                           /\ submission'[i].signals = submission[i].signals
                           /\ submission'[i].consumed <=>
                                  i = 1 \/ submission[i].consumed
    <3>1. \A i \in 1..n : submission'[i] =
              IF i = 1 THEN [submission[1] EXCEPT !.consumed = TRUE]
              ELSE submission[i]
      BY <1>1, <1>4
    <3>2. [submission[1] EXCEPT !.consumed = TRUE] \in Segments
      BY <1>1 DEF Segments
    <3>3. Len(submission') = n
      BY <1>1, <1>4, <3>2
    <3>4. ASSUME NEW i \in 1..n, i # 1 PROVE submission'[i] = submission[i]
      BY <3>1, <3>4
    <3>5. /\ submission'[1].waits = submission[1].waits
          /\ submission'[1].signals = submission[1].signals
          /\ submission'[1].consumed
      BY <1>1, <3>1 DEF Segments
    <3> QED  BY <3>3, <3>4, <3>5
  <2>2. Waiting(submission', b) = W \ {1}
    BY <1>1, <2>1 DEF Waiting
  <2>3. Signaling(submission', b) = S
    BY <1>1, <2>1 DEF Signaling
  <2>4. 1 \in W <=> b \in DOMAIN submission[1].waits
    BY <1>1 DEF Waiting
  <2>5. Consistent(p, W, S, n) /\ p \in BOOLEAN
    BY <1>2 DEF Replays, TypeOK, SemaphoreTypes
  <2>6. signaled'[b] = (p /\ 1 \notin W)
    BY <2>4
  <2> HIDE DEF p, W, S
  <2>7. Consistent(p /\ 1 \notin W, W \ {1}, S, n)
    BY <1>1, <2>5, ConsistentConsume
  <2> QED  BY <1>2, <2>1, <2>2, <2>3, <2>6, <2>7
<1> QED  BY <1>3, <1>4 DEF Replays

(* A head whose waits are consumed retires.                                *)
LEMMA ReplaysOnRetire ==
    ASSUME TypeOK, Replays, chain = <<>>, submission # <<>>, Retire,
           submission[1].consumed
    PROVE  Replays'
<1> DEFINE n == Len(submission)
<1>1. /\ submission \in Seq(Segments) /\ n \in Nat \ {0} /\ 1 \in 1..n
      /\ \A i \in 1..n : submission[i] \in Segments
  BY QueueFields DEF TypeOK, QueueTypes
<1>2. /\ submission' \in Seq(Segments) /\ Len(submission') = n - 1
      /\ \A i \in 1..(n - 1) : submission'[i] = submission[i + 1]
  BY <1>1, RetiredRecords DEF Retire
<1>3. Records = submission /\ Records' = submission'
  <2>1. Records = submission
    BY NoChain
  <2>2. chain' = <<>>
    BY DEF Retire
  <2> QED  BY <1>2, <2>1, <2>2 DEF Records
<1>4. ASSUME NEW b \in Binaries
      PROVE  Consistent(signaled'[b], Waiting(submission', b),
                        Signaling(submission', b), n - 1)
  <2> DEFINE p == signaled[b]
             W == Waiting(submission, b)
             S == Signaling(submission, b)
             V == {k \in Nat : k + 1 \in W}
             T == {k \in Nat : k + 1 \in S}
  <2>1. Consistent(p, W, S, n) /\ p \in BOOLEAN
    BY <1>3 DEF Replays, TypeOK, SemaphoreTypes
  <2>2. 1 \notin W /\ (1 \in S <=> b \in DOMAIN submission[1].signals)
    BY <1>1 DEF Waiting, Signaling
  <2>3. signaled'[b] = (p \/ 1 \in S)
    BY <2>1, <2>2 DEF Retire, RetireSignals, QueueHead
  <2>4. ASSUME NEW k \in 1..(n - 1)
        PROVE  /\ k \in V <=> k \in Waiting(submission', b)
               /\ k \in T <=> k \in Signaling(submission', b)
    <3>1. k \in Nat /\ k + 1 \in 1..n /\ submission'[k] = submission[k + 1]
      BY <1>1, <1>2
    <3> QED  BY <1>2, <3>1 DEF Waiting, Signaling
  <2> HIDE DEF p, W, S
  <2>5. Consistent(p \/ 1 \in S, V, T, n - 1)
    BY <1>1, <2>1, <2>2, ConsistentRetire
  <2> HIDE DEF V, T
  <2>6. n - 1 \in Nat
    BY <1>1
  <2> QED  BY <2>3, <2>4, <2>5, <2>6, SamePrefix
<1> QED  BY <1>2, <1>3, <1>4 DEF Replays
-----------------------------------------------------------------------------
(* The steps of the queue, as the promise sees them. *)

Silent == UNCHANGED <<submission, chain, signaled, value, fenceVars, lost>>
Fault ==
    Failures /\ lost' = TRUE /\ UNCHANGED <<submission, chain, signaled, value, fenceVars>>
Retires(t) == PollComplete(t) \/ ExecuteFrontend(t) \/ RetireEmpty(t)

LEMMA PromiseKinds ==
    ASSUME [Next]_vars
    PROVE  \/ Silent \/ Fault
           \/ \E t \in Threads :
                  \/ BuildRecord(t) \/ RefuseSubmit(t) \/ CommitSubmit(t)
                  \/ SignalSemaphore(t) \/ ConsumeWaits(t) \/ Retires(t)
                  \/ LaunchHead(t) \/ LaunchFailed(t)
           \/ \E f \in Fences : ResetFence(f)
<1> USE DEF queueVars, semVars, fenceVars, deviceVars, Silent, Fault, Retires
<1>1. ASSUME NEW t \in Threads, NewCall(t) PROVE Silent
  BY <1>1 DEF NewCall, SubmitCall, WaitIdleCall, SignalCall, WaitSemaphoresCall,
              WaitFencesCall, EventCall
<1>2. ASSUME NEW t \in Threads, TakesLock(t), ~SignalSemaphore(t) PROVE Silent
  BY <1>2 DEF TakesLock, AdmitSubmit, Progress, WaitFencesAgain, WaitReturns,
              WaitContinues
<1>3. ASSUME NEW t \in Threads,
             \/ DrainSubmit(t) \/ PollNothing(t) \/ PollStart(t) \/ PollPending(t)
             \/ StartDone(t) \/ SubmitReturns(t) \/ DrainWaitIdle(t)
             \/ SignalReturns(t) \/ WaitPolled(t) \/ PrepareJob(t)
      PROVE  Silent
  BY <1>3 DEF DrainSubmit, PollNothing, PollStart, PollPending, StartDone,
              SubmitReturns, DrainWaitIdle, SignalReturns, WaitPolled, PrepareJob
<1>4. ASSUME NEW t \in Threads, PollFailed(t) \/ FrontendFailed(t) PROVE Fault
  BY <1>4 DEF PollFailed, FrontendFailed
<1>5. ASSUME NEW t \in Threads, Unlocked(t) PROVE Silent
  BY <1>5 DEF Unlocked, SetEvent, ResetEvent
<1>6. CASE \/ \E n \in 1..MaxSerial : Complete(n)
           \/ \E b \in Buffers : RecordBuffer(b)
           \/ UNCHANGED vars
  BY <1>6 DEF Complete, RecordBuffer, vars
<1> HIDE DEF Silent, Fault, Retires
<1>7. ASSUME NEW t \in Threads, HoldsLock(t)
      PROVE  \/ Silent \/ Fault \/ Retires(t)
             \/ BuildRecord(t) \/ RefuseSubmit(t) \/ CommitSubmit(t)
             \/ ConsumeWaits(t) \/ LaunchHead(t) \/ LaunchFailed(t)
  BY <1>3, <1>4, <1>7 DEF HoldsLock, Retires
<1> QED  BY <1>1, <1>2, <1>5, <1>6, <1>7 DEF Next, TakesLock

(* A record retires with its waits consumed, on a device that is not lost. *)
LEMMA RetiringHead ==
    ASSUME Startable, NEW t \in Threads, Retires(t)
    PROVE  /\ submission # <<>> /\ submission[1].consumed /\ Retire
           /\ ~lost /\ lost' = lost /\ pc[t] \in {"poll", "start"}
<1>1. CASE PollComplete(t)
  BY <1>1 DEF PollComplete, NothingToPoll, NeedsStart, QueueHead
<1>2. CASE ExecuteFrontend(t) \/ RetireEmpty(t)
  BY <1>2 DEF ExecuteFrontend, RetireEmpty, QueueHead, deviceVars, Startable
<1> QED  BY <1>1, <1>2 DEF Retires

(* The fields of the records behind a step that marks the head.            *)
LEMMA LaunchedFields ==
    ASSUME TypeOK, submission # <<>>,
           submission' = [submission EXCEPT ![1].job = TRUE]
    PROVE  /\ Len(submission') = Len(submission) /\ Len(submission) \in Nat
           /\ \A i \in 1..Len(submission) :
                  /\ submission'[i].waits = submission[i].waits
                  /\ submission'[i].signals = submission[i].signals
                  /\ submission'[i].fence = submission[i].fence
                  /\ submission'[i].consumed = submission[i].consumed
                  /\ submission'[i].frontend = submission[i].frontend
                  /\ submission'[i].buffers = submission[i].buffers
                  /\ submission'[i].deferred = submission[i].deferred
                  /\ submission[i].job => submission'[i].job
<1>1. /\ submission \in Seq(Segments) /\ Len(submission) \in Nat
      /\ 1 \in 1..Len(submission)
      /\ \A i \in 1..Len(submission) : submission[i] \in Segments
  BY QueueFields DEF TypeOK, QueueTypes
<1>2. [submission[1] EXCEPT !.job = TRUE] \in Segments
  BY <1>1 DEF Segments
<1>3. /\ Len(submission') = Len(submission)
      /\ \A i \in 1..Len(submission) :
             submission'[i] = IF i = 1 THEN [submission[1] EXCEPT !.job = TRUE]
                              ELSE submission[i]
  BY <1>1, <1>2
<1> QED  BY <1>1, <1>3 DEF Segments

LEMMA StartedFields ==
    ASSUME TypeOK, submission # <<>>,
           submission' = [submission EXCEPT ![1].consumed = TRUE]
    PROVE  /\ Len(submission') = Len(submission) /\ Len(submission) \in Nat
           /\ submission'[1].consumed
           /\ \A i \in 2..Len(submission) : submission'[i] = submission[i]
           /\ \A i \in 1..Len(submission) :
                  /\ submission'[i].waits = submission[i].waits
                  /\ submission'[i].signals = submission[i].signals
                  /\ submission'[i].fence = submission[i].fence
                  /\ submission'[i].frontend = submission[i].frontend
                  /\ submission'[i].buffers = submission[i].buffers
                  /\ submission'[i].deferred = submission[i].deferred
                  /\ submission'[i].job = submission[i].job
<1>1. /\ submission \in Seq(Segments) /\ Len(submission) \in Nat
      /\ 1 \in 1..Len(submission)
      /\ \A i \in 1..Len(submission) : submission[i] \in Segments
  BY QueueFields DEF TypeOK, QueueTypes
<1>2. [submission[1] EXCEPT !.consumed = TRUE] \in Segments
  BY <1>1 DEF Segments
<1>3. /\ Len(submission') = Len(submission)
      /\ \A i \in 1..Len(submission) :
             submission'[i] = IF i = 1 THEN [submission[1] EXCEPT !.consumed = TRUE]
                              ELSE submission[i]
  BY <1>1, <1>2
<1> QED  BY <1>1, <1>3 DEF Segments

(* Promised is an invariant. *)

(* A chain is built under the lock, so none is there while the queue moves.*)
LEMMA ReplaysStep ==
    ASSUME TypeOK, TypeOK', Locking, Startable, Replays, [Next]_vars
    PROVE  Replays'
<1>1. /\ submission \in Seq(Segments) /\ chain \in Seq(Segments)
      /\ Len(submission) \in Nat /\ Len(chain) \in Nat
      /\ Records \in Seq(Segments) /\ Len(Records) \in Nat
      /\ Len(Records) = Len(submission) + Len(chain)
      /\ \A i \in 1..Len(submission) : Records[i] = submission[i]
  BY RecordsOf DEF TypeOK, QueueTypes, Records
<1>2. CASE UNCHANGED <<submission, chain, signaled>>
  BY <1>2 DEF Replays, Records
<1>3. ASSUME NEW t \in Threads, chain' = <<>>, submission' = submission,
             signaled' = signaled
      PROVE  Replays'
  <2>1. Records' = submission
    BY <1>1, <1>3 DEF Records
  <2>2. Len(Records') \in 0..Len(Records) /\ \A i \in 1..Len(Records') : Records'[i] = Records[i]
    BY <1>1, <2>1
  <2> QED  BY <1>1, <1>3, <2>2, ReplaysOnSame
<1>4. ASSUME NEW t \in Threads, BuildRecord(t) PROVE Replays'
  <2> DEFINE info == call[t].infos[1]
  <2>1. info \in Infos
    <3>1. call[t].infos \in Seq(Infos) /\ call[t].infos # <<>>
      BY <1>4 DEF BuildRecord, TypeOK, ThreadTypes, Calls
    <3> QED  BY <3>1
  <2>2. /\ submission' = submission /\ signaled' = signaled
        /\ \/ ReferencesValid(info) /\ chain' = chain \o RecordSegments(info)
           \/ chain' = <<>>
    BY <1>4 DEF BuildRecord, semVars
  <2> HIDE DEF info
  <2> QED  BY <1>3, <2>1, <2>2, ReplaysOnAppend
<1>5. ASSUME NEW t \in Threads, RefuseSubmit(t) PROVE Replays'
  BY <1>3, <1>5 DEF RefuseSubmit, semVars
<1>6. ASSUME NEW t \in Threads, ConsumeWaits(t) PROVE Replays'
  <2>1. chain = <<>> /\ chain' = <<>> /\ submission # <<>> /\ ~submission[1].consumed
    BY <1>6, ChainEmpty DEF ConsumeWaits, QueueHead
  <2>2. signaled' = [b \in Binaries |->
                        signaled[b] /\ b \notin DOMAIN submission[1].waits]
    BY <1>6 DEF ConsumeWaits, QueueHead
  <2>3. \A b \in DOMAIN submission[1].waits \cap Binaries : signaled[b]
    BY <2>1, <2>2, ReplaysOnConsume
  <2>4. submission' = [submission EXCEPT ![1].consumed = TRUE]
    BY <1>6, <2>3 DEF ConsumeWaits, QueueHead
  <2> QED  BY <2>1, <2>2, <2>4, ReplaysOnConsume
<1>7. ASSUME NEW t \in Threads, Retires(t) PROVE Replays'
  BY <1>7, RetiringHead, ChainEmpty, ReplaysOnRetire
<1>8. ASSUME NEW t \in Threads, LaunchHead(t) \/ LaunchFailed(t) PROVE Replays'
  <2>1. /\ chain' = chain /\ signaled' = signaled /\ submission # <<>>
        /\ \/ submission' = [submission EXCEPT ![1].job = TRUE]
           \/ submission' = submission
    BY <1>8 DEF LaunchHead, LaunchFailed, ReadyToLaunch, semVars
  <2> QED  BY <1>2, <2>1, ReplaysOnLaunch
<1>9. CASE \/ Silent \/ Fault \/ \E f \in Fences : ResetFence(f)
           \/ \E t \in Threads : SignalSemaphore(t)
  BY <1>2, <1>9 DEF Silent, Fault, ResetFence, SignalSemaphore, queueVars, semVars
<1> QED
  BY <1>4, <1>5, <1>6, <1>7, <1>8, <1>9, ReplaysOnCommit, PromiseKinds

LEMMA FreshStep ==
    ASSUME TypeOK, ChainFresh, [Next]_vars
    PROVE  ChainFresh'
<1>1. CASE chain' = chain \/ chain' = <<>>
  BY <1>1 DEF ChainFresh
<1>2. ASSUME NEW t \in Threads, BuildRecord(t), chain' # <<>> PROVE ChainFresh'
  <2> DEFINE info == call[t].infos[1]
             segments == RecordSegments(info)
             n == Len(chain)
  <2>1. info \in Infos
    <3>1. call[t].infos \in Seq(Infos) /\ call[t].infos # <<>>
      BY <1>2 DEF BuildRecord, TypeOK, ThreadTypes, Calls
    <3> QED  BY <3>1
  <2>2. ReferencesValid(info) /\ chain' = chain \o segments
    BY <1>2 DEF BuildRecord
  <2>3. segments \in Seq(Segments) /\ \A k \in 1..Len(segments) : ~segments[k].consumed
    BY <2>1, <2>2, RecordShape
  <2>4. chain \in Seq(Segments)
    BY DEF TypeOK, QueueTypes
  <2> HIDE DEF segments, info
  <2>5. ASSUME NEW k \in 1..Len(chain') PROVE ~chain'[k].consumed
    <3>1. CASE k \in 1..n
      BY <2>2, <2>3, <2>4, <3>1, RecordsOf DEF ChainFresh
    <3>2. CASE k \notin 1..n
      <4> DEFINE l == k - n
      <4>1. l \in 1..Len(segments) /\ k = n + l
        BY <2>2, <2>3, <2>4, <3>2, RecordsOf
      <4> HIDE DEF l
      <4>2. chain'[k] = segments[l]
        BY <2>2, <2>3, <2>4, <4>1, RecordsOf
      <4> QED  BY <2>3, <4>1, <4>2
    <3> QED  BY <3>1, <3>2
  <2> QED  BY <2>5 DEF ChainFresh
<1>3. \/ chain' = chain \/ chain' = <<>>
      \/ \E t \in Threads : BuildRecord(t) /\ chain' # <<>>
  BY PromiseKinds DEF Silent, Fault, Retires, ResetFence, SignalSemaphore, queueVars,
     RefuseSubmit, CommitSubmit, ConsumeWaits, LaunchHead, LaunchFailed,
     PollComplete, ExecuteFrontend, RetireEmpty, Retire
<1> QED  BY <1>1, <1>2, <1>3

LEMMA PreparableStep ==
    ASSUME TypeOK, Replays, Startable, Preparable, [Next]_vars
    PROVE  Preparable'
<1>1. CASE submission' = submission
  BY <1>1 DEF Preparable
<1>2. CASE submission # <<>> /\ submission' = [submission EXCEPT ![1].job = TRUE]
  BY <1>2, LaunchedFields DEF Preparable
<1>3. CASE submission # <<>> /\ submission' = [submission EXCEPT ![1].consumed = TRUE]
  BY <1>3, StartedFields DEF Preparable
<1>4. ASSUME NEW t \in Threads, Retires(t) PROVE Preparable'
  <2>1. /\ Len(submission) \in Nat \ {0} /\ Len(submission') = Len(submission) - 1
        /\ \A i \in 1..Len(submission') : submission'[i] = submission[i + 1]
    BY <1>4, RetiringHead, RetiredRecords
  <2>2. \A i \in 1..Len(submission') : i + 1 \in 1..Len(submission)
    BY <2>1
  <2> QED  BY <2>1, <2>2 DEF Preparable
<1>5. ASSUME NEW t \in Threads, CommitSubmit(t) PROVE Preparable'
  <2> DEFINE m == Len(submission)
  <2>1. /\ m \in Nat /\ Len(chain) \in Nat /\ Len(submission') = m + Len(chain)
        /\ \A i \in 1..m : submission'[i] = submission[i]
        /\ \A k \in 1..Len(chain) :
               LET r == submission'[m + k]
               IN  r.frontend \/ r.buffers = <<>> \/ r.job \/ r.deferred
    BY <1>5, ReplaysOnCommit
  <2>2. ASSUME NEW i \in 1..(m + Len(chain))
        PROVE  LET r == submission'[i]
               IN  r.frontend \/ r.buffers = <<>> \/ r.job \/ r.deferred
    <3>1. CASE i \in 1..m
      BY <2>1, <3>1 DEF Preparable
    <3>2. CASE i \notin 1..m
      <4> DEFINE k == i - m
      <4>1. k \in 1..Len(chain) /\ i = m + k
        BY <2>1, <3>2
      <4> HIDE DEF k
      <4> QED  BY <2>1, <4>1
    <3> QED  BY <3>1, <3>2
  <2> QED  BY <2>1, <2>2 DEF Preparable
<1>6. \/ submission' = submission
      \/ submission # <<>> /\ Marks(submission')
      \/ \E t \in Threads : Retires(t) \/ CommitSubmit(t)
  BY PromiseKinds DEF Silent, Fault, ResetFence, SignalSemaphore, queueVars, Marks,
     BuildRecord, RefuseSubmit, ConsumeWaits, LaunchHead, LaunchFailed, ReadyToLaunch
<1> QED  BY <1>1, <1>2, <1>3, <1>4, <1>5, <1>6 DEF Marks

LEMMA PublishesStep ==
    ASSUME TypeOK, Locking, PublishesOne, [Next]_vars
    PROVE  PublishesOne'
<1> USE DEF TypeOK, ThreadTypes
<1>1. ASSUME NEW t \in Threads, Others(t),
             pc'[t] = "publish" => \E x \in Timelines : DOMAIN call'[t].values = {x}
      PROVE  PublishesOne'
  BY <1>1 DEF PublishesOne, Others
<1>2. ASSUME NEW t \in Threads, NewCall(t)
      PROVE  pc'[t] = "publish" => \E x \in Timelines : DOMAIN call'[t].values = {x}
  <2>1. ASSUME NEW x \in Timelines, NEW v \in HostValues, SignalCall(t, x, v)
        PROVE  DOMAIN call'[t].values = {x}
    BY <2>1 DEF SignalCall, Enter, NoCall
  <2>2. ASSUME ~ \E x \in Timelines, v \in HostValues : SignalCall(t, x, v)
        PROVE  pc'[t] # "publish"
    BY <1>2, <2>2 DEF NewCall, SubmitCall, WaitIdleCall, WaitSemaphoresCall,
       WaitFencesCall, EventCall, Enter, Goto
  <2> QED  BY <2>1, <2>2
<1>3. ASSUME NEW t \in Threads, TakesLock(t) PROVE pc'[t] # "publish"
  BY <1>3 DEF TakesLock, AdmitSubmit, SignalSemaphore, Progress, WaitFencesAgain,
     WaitReturns, WaitContinues, Return, Goto
<1>4. ASSUME NEW t \in Threads, HoldsLock(t) PROVE pc'[t] # "publish"
  BY <1>4 DEF HoldsLock, DrainSubmit, BuildRecord, PrepareJob, CommitSubmit,
     RefuseSubmit, threadVars, SubmitReturns, DrainWaitIdle, SignalReturns, WaitPolled, PollNothing, PollStart,
     PollPending, PollFailed, StartDone, FrontendFailed, PollComplete,
     ExecuteFrontend, RetireEmpty, ConsumeWaits, LaunchHead, LaunchFailed, Return, Goto
<1>5. ASSUME NEW t \in Threads, Unlocked(t) PROVE pc'[t] # "publish"
  BY <1>5 DEF Unlocked, SetEvent, ResetEvent, Return, Goto
<1>6. CASE pc' = pc /\ call' = call
  BY <1>6 DEF PublishesOne
<1> QED
  BY <1>1, <1>2, <1>3, <1>4, <1>5, <1>6, NewCallStep, CallStep, NoThreadStep DEF Next

LEMMA PromisedInit == Init => Promised
<1> SUFFICES ASSUME Init PROVE Promised
  OBVIOUS
<1>1. submission = <<>> /\ chain = <<>> /\ Records = <<>>
  BY DEF Init, Records
<1>2. ASSUME NEW b \in Binaries
      PROVE  Consistent(signaled[b], Waiting(Records, b), Signaling(Records, b), 0)
  <2> DEFINE p == signaled[b]
  <2>1. p \in BOOLEAN
    BY DEF Init
  <2> HIDE DEF p
  <2>2. Agree(p, Waiting(Records, b), Signaling(Records, b), 0)
    BY <2>1, AgreeNone
  <2>3. Consistent(p, Waiting(Records, b), Signaling(Records, b), 0)
    BY <2>2 DEF Consistent
  <2> QED  BY <2>3 DEF p
<1>3. Len(Records) = 0
  BY <1>1
<1>4. Replays
  BY <1>2, <1>3 DEF Replays
<1>5. ChainFresh /\ Preparable
  BY <1>1 DEF ChainFresh, Preparable
<1>6. PublishesOne
  BY DEF Init, PublishesOne
<1> QED  BY <1>4, <1>5, <1>6 DEF Promised

LEMMA PromisedInvariant == Spec => []Promised
<1>1. TypeOK /\ TypeOK' /\ Locking /\ Startable /\ Promised /\ [Next]_vars => Promised'
  BY ReplaysStep, FreshStep, PreparableStep, PublishesStep DEF Promised
<1> QED
  BY <1>1, PromisedInit, TypeCorrect, LockingInvariant, JobsInvariant, PTL DEF Spec

(* Validation in vkQueueSubmit is worth its name for any number of         *)
(* threads, semaphores and records: whatever was accepted finds its binary *)
(* semaphores as it needs them when its turn comes (find_state against     *)
(* start_submission), on a lost device too.                                *)
THEOREM ReplaysStayValid == Spec => []BinariesReplay
<1>1. TypeOK /\ Promised => BinariesReplay
  <2> SUFFICES ASSUME TypeOK, Promised,
                      NEW i \in 1..Len(submission), NEW b \in Binaries
               PROVE  LET waits == b \in DOMAIN submission[i].waits
                                       /\ ~submission[i].consumed
                      IN  /\ waits => FindsSignaled(i, b)
                          /\ b \in DOMAIN submission[i].signals =>
                                 waits \/ ~FindsSignaled(i, b)
    BY DEF BinariesReplay
  <2> DEFINE p == signaled[b]
             W == Waiting(Records, b)
             S == Signaling(Records, b)
             n == Len(Records)
  <2>1. /\ Len(submission) \in Nat /\ n \in Nat /\ Len(submission) <= n
        /\ \A j \in 1..Len(submission) : Records[j] = submission[j]
    BY RecordsOf DEF TypeOK, QueueTypes, Records
  <2>2. \A j \in 1..Len(submission) :
            /\ j \in W <=> b \in DOMAIN submission[j].waits /\ ~submission[j].consumed
            /\ j \in S <=> b \in DOMAIN submission[j].signals
    BY <2>1 DEF Waiting, Signaling
  <2>3. Consistent(p, W, S, n) /\ p \in BOOLEAN
    BY DEF Promised, Replays, TypeOK, SemaphoreTypes
  <2>4. i \in 1..n
    BY <2>1
  <2> HIDE DEF W, S, n
  <2>5. /\ i \in W => Nearest(p, W, S, i - 1)
        /\ i \in S => i \in W \/ ~Nearest(p, W, S, i - 1)
    <3> HIDE DEF p
    <3> QED  BY <2>1, <2>3, <2>4, ConsistentBalance
  <2>6. Nearest(p, W, S, i - 1) <=> FindsSignaled(i, b)
    <3>1. \A j \in 1..(i - 1) : RefersTo(submission[j], b) <=> j \in W \/ j \in S
      BY <2>2 DEF RefersTo
    <3>2. \A j \in 1..(i - 1) :
              /\ b \in DOMAIN submission[j].signals <=> j \in S
              /\ \A k \in (j + 1)..(i - 1) : k \in 1..(i - 1)
      BY <2>2
    <3> QED  BY <3>1, <3>2 DEF Nearest, FindsSignaled
  <2> QED  BY <2>2, <2>5, <2>6
<1> QED  BY <1>1, TypeCorrect, PromisedInvariant, PTL
-----------------------------------------------------------------------------
(* The steps of the queue are steps of the promise. *)

Entry(r) == [waits   |-> r.waits,
             signals |-> r.signals,
             fence   |-> r.fence,
             started |-> r.consumed]
PromisedQueue == [k \in 1..Len(submission) |-> Entry(submission[k])]
PromisedFence ==
    [f \in Fences |-> IF fenceSerial[f] # 0 THEN "pending"
                      ELSE IF fenceSignaled[f] THEN "signaled" ELSE "unsignaled"]

LEMMA Mapping ==
    Promise!vars = <<PromisedQueue, signaled, value, PromisedFence, lost>>
BY DEF Promise!vars, PromisedQueue, Entry, PromisedFence

LEMMA PromisedQueueFields ==
    ASSUME TypeOK
    PROVE  /\ Len(submission) \in Nat
           /\ Len(PromisedQueue) = Len(submission)
           /\ DOMAIN PromisedQueue = 1..Len(submission)
           /\ (PromisedQueue # <<>>) <=> (submission # <<>>)
           /\ \A k \in 1..Len(submission) :
                  /\ PromisedQueue[k].waits = submission[k].waits
                  /\ PromisedQueue[k].signals = submission[k].signals
                  /\ PromisedQueue[k].fence = submission[k].fence
                  /\ PromisedQueue[k].started = submission[k].consumed
<1>1. submission \in Seq(Segments) /\ Len(submission) \in Nat
  BY DEF TypeOK, QueueTypes
<1>2. submission # <<>> <=> Len(submission) # 0
  BY <1>1, EmptySeq
<1>3. /\ DOMAIN PromisedQueue = 1..Len(submission)
      /\ \A k \in 1..Len(submission) :
             /\ PromisedQueue[k].waits = submission[k].waits
             /\ PromisedQueue[k].signals = submission[k].signals
             /\ PromisedQueue[k].fence = submission[k].fence
             /\ PromisedQueue[k].started = submission[k].consumed
  BY DEF PromisedQueue, Entry
<1>4. Len(PromisedQueue) = Len(submission)
  BY <1>1, <1>3
<1>5. PromisedQueue # <<>> <=> Len(submission) # 0
  BY <1>1, <1>3
<1> QED  BY <1>1, <1>2, <1>3, <1>4, <1>5

(* Host threads at work and jobs that run are not seen.                    *)
LEMMA MapsQuiet ==
    ASSUME UNCHANGED <<submission, signaled, value, fenceVars, lost>>
    PROVE  UNCHANGED Promise!vars
BY DEF Promise!vars, fenceVars

LEMMA MapsLaunch ==
    ASSUME TypeOK, submission # <<>>,
           submission' = [submission EXCEPT ![1].job = TRUE]
    PROVE  PromisedQueue' = PromisedQueue
<1>1. /\ Len(submission') = Len(submission)
      /\ \A k \in 1..Len(submission) :
             /\ submission'[k].waits = submission[k].waits
             /\ submission'[k].signals = submission[k].signals
             /\ submission'[k].fence = submission[k].fence
             /\ submission'[k].consumed = submission[k].consumed
  BY LaunchedFields
<1> QED  BY <1>1 DEF PromisedQueue, Entry

LEMMA MapsLoss ==
    ASSUME Failures, lost' = TRUE, PromisedQueue' = PromisedQueue,
           UNCHANGED <<signaled, value, fenceVars>>
    PROVE  Promise!Lose
BY DEF Promise!Lose, PromisedQueue, Entry, fenceVars

LEMMA MapsReset ==
    ASSUME NEW f \in Fences, ResetFence(f), TypeOK
    PROVE  Promise!ResetFence
<1>1. /\ PromisedFence[f] = "signaled"
      /\ PromisedFence' = [PromisedFence EXCEPT ![f] = "unsignaled"]
  BY DEF ResetFence, PromisedFence, TypeOK, FenceTypes
<1>2. UNCHANGED <<PromisedQueue, signaled, value, lost>>
  BY DEF ResetFence, PromisedQueue, queueVars, semVars, deviceVars
<1> QED  BY <1>1, <1>2 DEF Promise!ResetFence, PromisedQueue, Entry, PromisedFence

LEMMA MapsStart ==
    ASSUME TypeOK, TypeOK', Locking, Startable, Promised,
           NEW t \in Threads, ConsumeWaits(t)
    PROVE  Promise!Start
<1>1. /\ chain = <<>> /\ chain' = <<>> /\ submission # <<>>
      /\ ~submission[1].consumed /\ ~lost
      /\ signaled' = [b \in Binaries |->
                         signaled[b] /\ b \notin DOMAIN submission[1].waits]
      /\ UNCHANGED <<value, fenceVars>>
  BY ChainEmpty DEF ConsumeWaits, QueueHead, Startable
<1>2. \A b \in DOMAIN submission[1].waits \cap Binaries : signaled[b]
  BY <1>1, ReplaysOnConsume DEF Promised
<1>3. submission' = [submission EXCEPT ![1].consumed = TRUE] /\ lost' = lost
  BY <1>2 DEF ConsumeWaits, QueueHead
<1>4. 1 \in 1..Len(submission) /\ submission[1] \in Segments
  BY <1>1, QueueFields
<1>5. ASSUME NEW x \in DOMAIN submission[1].waits \cap Timelines
      PROVE  value[x] >= submission[1].waits[x]
  <2>1. submission[1].waits \in References
    BY <1>4 DEF Segments
  <2>2. submission[1].waits[x] \in Int
    BY <2>1, ReferenceTypes, QueueAssumption DEF Values
  <2>3. value[x] \in Int
    BY SignalValues
  <2>4. ~(value[x] < submission[1].waits[x])
    BY DEF ConsumeWaits, TimelineUnsatisfied, QueueHead
  <2> QED  BY <2>2, <2>3, <2>4
<1>6. PromisedQueue' = [PromisedQueue EXCEPT ![1].started = TRUE]
  <2>1. /\ Len(submission') = Len(submission) /\ Len(submission) \in Nat
        /\ submission'[1].consumed
        /\ \A k \in 2..Len(submission) : submission'[k] = submission[k]
        /\ submission'[1].waits = submission[1].waits
        /\ submission'[1].signals = submission[1].signals
        /\ submission'[1].fence = submission[1].fence
    BY <1>1, <1>3, <1>4, StartedFields
  <2>2. submission'[1].consumed = TRUE
    <3>1. submission' \in Seq(Segments) /\ 1 \in 1..Len(submission')
      BY <1>4, <2>1 DEF TypeOK, QueueTypes
    <3>2. submission'[1] \in Segments
      BY <3>1, ElementOfSeq
    <3> QED  BY <2>1, <3>2 DEF Segments
  <2> DEFINE head == [Entry(submission[1]) EXCEPT !.started = TRUE]
  <2>3. Entry(submission'[1]) = head
    <3> DEFINE r == submission[1]
               marked == [waits   |-> r.waits, signals |-> r.signals,
                          fence   |-> r.fence, started |-> TRUE]
    <3>1. Entry(submission'[1]) = marked
      BY <2>1, <2>2, Zenon DEF Entry
    <3>2. ASSUME NEW v
          PROVE  [Entry(r) EXCEPT !.started = v] =
                     [waits   |-> r.waits, signals |-> r.signals,
                      fence   |-> r.fence, started |-> v]
      <4> HIDE DEF r
      <4> QED  BY DEF Entry
    <3>3. head = marked
      BY <3>2, Zenon
    <3> QED  BY <3>1, <3>3
  <2> HIDE DEF head
  <2>4. PromisedQueue' = [k \in 1..Len(submission) |->
            IF k = 1 THEN head ELSE Entry(submission[k])]
    BY <2>1, <2>3 DEF PromisedQueue
  <2>5. [PromisedQueue EXCEPT ![1].started = TRUE] =
            [k \in 1..Len(submission) |-> IF k = 1 THEN head ELSE Entry(submission[k])]
    BY <1>4 DEF PromisedQueue, head
  <2> QED  BY <2>4, <2>5
<1>7. /\ PromisedQueue # <<>>
      /\ PromisedQueue[1].waits = submission[1].waits
      /\ PromisedQueue[1].started = submission[1].consumed
  BY <1>1, <1>4, PromisedQueueFields
<1>8. PromisedFence' = PromisedFence
  BY <1>1 DEF PromisedFence, fenceVars
<1> QED
  BY <1>1, <1>3, <1>5, <1>6, <1>7, <1>8
  DEF Promise!Start, PromisedQueue, Entry, PromisedFence

LEMMA MapsRetire ==
    ASSUME TypeOK, Startable, SignalsPromised, NEW t \in Threads, Retires(t)
    PROVE  Promise!Retire
<1>1. /\ submission # <<>> /\ submission[1].consumed /\ Retire
      /\ ~lost /\ lost' = lost
  BY RetiringHead
<1>2. /\ submission \in Seq(Segments) /\ 1 \in 1..Len(submission)
      /\ submission[1] \in Segments
  BY <1>1, QueueFields DEF TypeOK, QueueTypes
<1>3. /\ Len(submission) \in Nat \ {0} /\ Len(submission') = Len(submission) - 1
      /\ \A i \in 1..Len(submission') : submission'[i] = submission[i + 1]
  BY <1>1, RetiredRecords
<1>4. PromisedQueue' = Tail(PromisedQueue)
  <2>1. PromisedQueue \in Seq({Entry(submission[k]) : k \in 1..Len(submission)})
        /\ Len(PromisedQueue) = Len(submission)
    BY <1>3 DEF PromisedQueue
  <2>2. PromisedQueue # <<>>
    BY <1>1, PromisedQueueFields
  <2>3. Tail(PromisedQueue) = [k \in 1..(Len(submission) - 1) |-> PromisedQueue[k + 1]]
    <3> HIDE DEF PromisedQueue
    <3>1. /\ Len(Tail(PromisedQueue)) = Len(submission) - 1
          /\ Tail(PromisedQueue) \in Seq({Entry(submission[k]) : k \in 1..Len(submission)})
          /\ \A k \in 1..(Len(submission) - 1) :
                 Tail(PromisedQueue)[k] = PromisedQueue[k + 1]
      BY <2>1, <2>2, HeadTailProperties
    <3>2. Tail(PromisedQueue) \in
              [1..(Len(submission) - 1) -> {Entry(submission[k]) : k \in 1..Len(submission)}]
      BY <3>1, LenProperties
    <3> QED  BY <3>1, <3>2
  <2>4. \A k \in 1..(Len(submission) - 1) : PromisedQueue[k + 1] = Entry(submission[k + 1])
    BY <1>3 DEF PromisedQueue
  <2>5. PromisedQueue' = [k \in 1..(Len(submission) - 1) |-> Entry(submission[k + 1])]
    BY <1>3 DEF PromisedQueue
  <2> QED  BY <2>3, <2>4, <2>5
<1>5. /\ PromisedQueue # <<>>
      /\ PromisedQueue[1].signals = submission[1].signals
      /\ PromisedQueue[1].fence = submission[1].fence
      /\ PromisedQueue[1].started = submission[1].consumed
  BY <1>1, <1>2, PromisedQueueFields
<1>6. signaled' = [b \in Binaries |-> signaled[b] \/ b \in DOMAIN submission[1].signals]
  BY <1>1 DEF Retire, RetireSignals, QueueHead
<1>7. value' = [x \in Timelines |-> IF x \in DOMAIN submission[1].signals
                                    THEN submission[1].signals[x] ELSE value[x]]
  <2>1. \A x \in DOMAIN submission[1].signals \cap Timelines :
            submission[1].signals[x] > value[x]
    BY <1>2 DEF SignalsPromised, SignalsRise
  <2>2. value' = [x \in Timelines |->
            IF x \in DOMAIN submission[1].signals /\ submission[1].signals[x] > value[x]
            THEN submission[1].signals[x] ELSE value[x]]
    BY <1>1 DEF Retire, RetireSignals, QueueHead
  <2> QED  BY <2>1, <2>2
<1>8. PromisedFence' = [f \in Fences |-> IF f = submission[1].fence THEN "signaled"
                                         ELSE PromisedFence[f]]
  <2>1. /\ fenceSerial' =
               [f \in Fences |-> IF f = submission[1].fence THEN 0 ELSE fenceSerial[f]]
        /\ fenceSignaled' =
               [f \in Fences |-> f = submission[1].fence \/ fenceSignaled[f]]
    BY <1>1 DEF Retire, QueueHead
  <2> QED  BY <2>1 DEF PromisedFence
<1>9. /\ signaled' = [b \in Binaries |->
                          signaled[b] \/ b \in DOMAIN PromisedQueue[1].signals]
      /\ value' = [x \in Timelines |-> IF x \in DOMAIN PromisedQueue[1].signals
                                       THEN PromisedQueue[1].signals[x] ELSE value[x]]
      /\ PromisedFence' = [f \in Fences |-> IF f = PromisedQueue[1].fence
                                            THEN "signaled" ELSE PromisedFence[f]]
      /\ PromisedQueue[1].started
  BY <1>1, <1>5, <1>6, <1>7, <1>8
<1> QED
  BY <1>1, <1>4, <1>5, <1>9
  DEF Promise!Retire, PromisedQueue, Entry, PromisedFence

(* A host signal moves one timeline, or is refused.                        *)
LEMMA MapsSignal ==
    ASSUME TypeOK, SignalsPromised', Promised, NEW t \in Threads, SignalSemaphore(t)
    PROVE  Promise!HostSignal \/ UNCHANGED Promise!vars
<1>1. UNCHANGED <<submission, signaled, fenceVars, lost>>
  BY DEF SignalSemaphore, queueVars, deviceVars
<1>2. CASE value' = value
  BY <1>1, <1>2, MapsQuiet
<1>3. CASE value' # value
  <2>1. PICK x \in Timelines : DOMAIN call[t].values = {x}
    BY DEF SignalSemaphore, Promised, PublishesOne
  <2>2. Publish(call[t].values) /\ MayPublish(x, call[t].values[x])
    BY <1>3, <2>1 DEF SignalSemaphore
  <2>3. /\ value'[x] = call[t].values[x] /\ value'[x] > value[x]
        /\ \A y \in Timelines : y # x => value'[y] = value[y]
    BY <2>1, <2>2 DEF Publish, MayPublish
  <2>4. value' = [value EXCEPT ![x] = value'[x]]
    BY <2>2, <2>3 DEF TypeOK, SemaphoreTypes, Publish
  <2>5. ASSUME NEW y \in Timelines, NEW k \in 1..Len(submission),
               y \in DOMAIN submission[k].signals
        PROVE  submission[k].signals[y] > value'[y]
    BY <1>1, <2>5 DEF SignalsPromised, SignalsRise
  <2>6. \A y \in Timelines, k \in 1..Len(PromisedQueue) :
            y \in DOMAIN PromisedQueue[k].signals =>
                PromisedQueue[k].signals[y] > value'[y]
    BY <2>5, PromisedQueueFields
  <2>7. UNCHANGED <<PromisedQueue, PromisedFence>>
    BY <1>1 DEF PromisedQueue, PromisedFence, fenceVars
  <2> QED
    BY <1>1, <2>3, <2>4, <2>6, <2>7
    DEF Promise!HostSignal, PromisedQueue, Entry, PromisedFence
<1> QED  BY <1>2, <1>3

(* The standard modules of QueueSpec are those of Queue.                   *)
LEMMA SameCardinality == \A S : Promise!Cardinality(S) = Cardinality(S)
BY DEF Promise!Cardinality, Cardinality

(* The promise counts what find_state looks for.                           *)
LEMMA BalanceIsLevel ==
    ASSUME NEW q, NEW r, NEW b, NEW m \in Nat, NEW n \in Nat,
           Len(r) \in Nat, m <= Len(r), n <= Len(r),
           \A k \in 1..Len(r) : /\ q[k].waits = r[k].waits
                                /\ q[k].signals = r[k].signals
                                /\ q[k].started = r[k].consumed
    PROVE  Promise!Balance(q, b, m, n) =
               Level(signaled[b], Waiting(r, b), Signaling(r, b), m, n)
<1>1. Promise!Balance(q, b, m, n) =
          (IF signaled[b] THEN 1 ELSE 0)
              + Cardinality({k \in 1..m : b \in DOMAIN q[k].signals})
              - Cardinality({k \in 1..n : b \in DOMAIN q[k].waits /\ ~q[k].started})
  BY SameCardinality DEF Promise!Balance, Promise!Count
<1>2. {k \in 1..m : b \in DOMAIN q[k].signals} = UpTo(Signaling(r, b), m)
  BY DEF UpTo, Signaling
<1>3. {k \in 1..n : b \in DOMAIN q[k].waits /\ ~q[k].started} = UpTo(Waiting(r, b), n)
  BY DEF UpTo, Waiting
<1> QED  BY <1>1, <1>2, <1>3 DEF Level

LEMMA SubmitForm ==
    ASSUME /\ ~lost /\ Len(PromisedQueue') > Len(PromisedQueue)
           /\ SubSeq(PromisedQueue', 1, Len(PromisedQueue)) = PromisedQueue
           /\ LET added == SubSeq(PromisedQueue', Len(PromisedQueue) + 1,
                                  Len(PromisedQueue'))
              IN  \A k \in 1..Len(added) : ~added[k].started
           /\ Promise!FenceOfLast(
                  SubSeq(PromisedQueue', Len(PromisedQueue) + 1, Len(PromisedQueue')))
           /\ Promise!BinariesBalance(PromisedQueue')
           /\ Promise!TimelineAhead(PromisedQueue')
           /\ UNCHANGED <<signaled, value, lost>>
    PROVE  Promise!Submit
BY Zenon DEF Promise!Submit, PromisedQueue, Entry

LEMMA MapsSubmit ==
    ASSUME TypeOK, TypeOK', QueueCalls, FenceAdmitted, Startable, SignalsPromised',
           Promised, Replays', NEW t \in Threads, CommitSubmit(t)
    PROVE  Promise!Submit
<1> DEFINE m == Len(submission)
           n == Len(chain)
<1>1. /\ Len(submission') = m + n /\ m \in Nat /\ n \in Nat
      /\ \A i \in 1..m : submission'[i] = submission[i]
      /\ \A k \in 1..n :
             /\ submission'[m + k].consumed = chain[k].consumed
             /\ submission'[m + k].fence = FenceAt(k, call[t].fence)
  BY ReplaysOnCommit DEF Promised
<1>2. /\ ~lost /\ lost' = lost /\ pc[t] = "build" /\ chain' = <<>>
      /\ call[t].infos = <<>> /\ UNCHANGED <<signaled, value, fenceSignaled>>
  BY DEF CommitSubmit, Startable, deviceVars
<1>3. call[t].op = "submit" /\ chain # <<>>
  BY <1>2 DEF QueueCalls, BuildsSubmit
<1>4. n \in Nat \ {0}
  BY <1>3, EmptySeq DEF TypeOK, QueueTypes
<1>5. /\ Len(PromisedQueue) = m /\ Len(PromisedQueue') = m + n
      /\ PromisedQueue' = [k \in 1..(m + n) |-> Entry(submission'[k])]
      /\ PromisedQueue = [k \in 1..m |-> Entry(submission[k])]
  BY <1>1, <1>4 DEF PromisedQueue
<1>6. Len(PromisedQueue') > Len(PromisedQueue)
  BY <1>1, <1>4, <1>5
<1> DEFINE T == {Entry(submission'[k]) : k \in 1..(m + n)}
           records == SubSeq(PromisedQueue', Len(PromisedQueue) + 1, Len(PromisedQueue'))
<1>7. PromisedQueue' \in Seq(T)
  BY <1>1, <1>5
<1>8. SubSeq(PromisedQueue', 1, m) = PromisedQueue
  <2> HIDE DEF T
  <2>1. SubSeq(PromisedQueue', 1, m) = [k \in 1..m |-> PromisedQueue'[k]]
    <3>1. \A q : SubSeq(q, 1, m) = [k \in 1..(m - 1 + 1) |-> q[1 + k - 1]]
      BY <1>1
    <3>2. m - 1 + 1 = m /\ \A k \in 1..m : 1 + k - 1 = k
      BY <1>1
    <3> QED  BY <3>1, <3>2
  <2>2. \A k \in 1..m : PromisedQueue'[k] = Entry(submission[k])
    BY <1>1, <1>5
  <2> QED  BY <1>5, <2>1, <2>2
<1>9. /\ Len(records) = n
      /\ \A k \in 1..n : records[k] = Entry(submission'[m + k])
  <2> HIDE DEF T
  <2>1. \A q : SubSeq(q, m + 1, m + n) =
                   [k \in 1..((m + n) - (m + 1) + 1) |-> q[(m + 1) + k - 1]]
    BY <1>1
  <2>2. (m + n) - (m + 1) + 1 = n /\ \A k \in 1..n : (m + 1) + k - 1 = m + k
    BY <1>1
  <2>3. records = [k \in 1..n |-> PromisedQueue'[m + k]]
    BY <1>5, <2>1, <2>2
  <2>4. \A k \in 1..n : m + k \in 1..(m + n)
    BY <1>1
  <2>5. Len(records) = n
    BY <1>1, <2>3
  <2> HIDE DEF records
  <2> QED  BY <1>5, <2>3, <2>4, <2>5
<1>10. ASSUME NEW k \in 1..n
       PROVE  ~records[k].started /\ records[k].fence = FenceAt(k, call[t].fence)
  <2>1. ~submission'[m + k].consumed
    BY <1>1 DEF Promised, ChainFresh
  <2>2. records[k] = Entry(submission'[m + k])
    BY <1>9
  <2>3. submission'[m + k].fence = FenceAt(k, call[t].fence)
    BY <1>1
  <2> HIDE DEF records
  <2> QED  BY <2>1, <2>2, <2>3 DEF Entry
<1>11. ASSUME NEW b \in Binaries, NEW k \in 1..(m + n)
       PROVE  /\ Promise!Balance(PromisedQueue', b, k - 1, k) \in {0, 1}
              /\ Promise!Balance(PromisedQueue', b, k, k) \in {0, 1}
  <2> DEFINE W == Waiting(submission', b)
             S == Signaling(submission', b)
             p == signaled[b]
  <2>1. Records' = submission'
    BY <1>2 DEF Records, TypeOK, QueueTypes
  <2>2. Consistent(p, W, S, m + n) /\ p \in BOOLEAN
    BY <1>1, <1>2, <2>1 DEF Replays, TypeOK, SemaphoreTypes
  <2>3. m + n \in Nat /\ k \in Nat /\ k - 1 \in Nat /\ k <= m + n /\ k - 1 <= m + n
    BY <1>1
  <2>4. /\ Promise!Balance(PromisedQueue', b, k - 1, k) = Level(p, W, S, k - 1, k)
        /\ Promise!Balance(PromisedQueue', b, k, k) = Level(p, W, S, k, k)
    <3>1. \A i \in 1..Len(submission') :
              /\ PromisedQueue'[i].waits = submission'[i].waits
              /\ PromisedQueue'[i].signals = submission'[i].signals
              /\ PromisedQueue'[i].started = submission'[i].consumed
      BY <1>1, <1>5 DEF Entry
    <3>2. /\ Len(submission') \in Nat /\ k \in Nat /\ k - 1 \in Nat
          /\ k <= Len(submission') /\ k - 1 <= Len(submission')
      BY <1>1, <2>3
    <3> HIDE DEF PromisedQueue, W, S
    <3>3. ASSUME NEW l \in Nat, l <= Len(submission')
          PROVE  Promise!Balance(PromisedQueue', b, l, k) =
                     Level(signaled[b], Waiting(submission', b),
                           Signaling(submission', b), l, k)
      BY <3>1, <3>2, <3>3, BalanceIsLevel
    <3> QED  BY <3>2, <3>3 DEF W, S
  <2> HIDE DEF W, S, p
  <2>5. Level(p, W, S, k - 1, k) \in {0, 1} /\ Level(p, W, S, k, k) \in {0, 1}
    BY <2>2, <2>3, ConsistentBalance
  <2> QED  BY <2>4, <2>5
<1>12. ASSUME NEW x \in Timelines, NEW k \in 1..(m + n),
              x \in DOMAIN PromisedQueue'[k].signals
       PROVE  /\ PromisedQueue'[k].signals[x] > value[x]
              /\ \A j \in 1..(k - 1) : x \in DOMAIN PromisedQueue'[j].signals =>
                     PromisedQueue'[j].signals[x] < PromisedQueue'[k].signals[x]
  <2>1. \A i \in 1..(m + n) : PromisedQueue'[i].signals = submission'[i].signals
    BY <1>5 DEF Entry
  <2>2. \A j \in 1..(k - 1) : j \in 1..(m + n)
    BY <1>1
  <2>3. /\ submission'[k].signals[x] > value'[x]
        /\ \A j \in 1..(k - 1) : x \in DOMAIN submission'[j].signals =>
               submission'[j].signals[x] < submission'[k].signals[x]
    BY <1>1, <1>12, <2>1 DEF SignalsPromised, SignalsRise
  <2> QED  BY <1>2, <2>1, <2>2, <2>3
<1>13. LET f == call[t].fence
       IN  \/ f = NoFence /\ PromisedFence' = PromisedFence
           \/ /\ f # NoFence /\ f \in Fences /\ PromisedFence[f] = "unsignaled"
              /\ PromisedFence' = [PromisedFence EXCEPT ![f] = "pending"]
  <2> DEFINE f == call[t].fence
  <2>1. f \in Fences \cup {NoFence}
    BY DEF TypeOK, ThreadTypes, Calls
  <2>2. SerialAt(n) # 0
    BY <1>4, QueueAssumption DEF SerialAt, TypeOK, QueueTypes
  <2>3. fenceSerial' = [g \in Fences |-> IF g = f THEN SerialAt(n) ELSE fenceSerial[g]]
    BY DEF CommitSubmit
  <2>4. CASE f = NoFence
    <3>1. \A g \in Fences : fenceSerial'[g] = fenceSerial[g]
      BY <2>3, <2>4, QueueAssumption
    <3> QED  BY <1>2, <2>4, <3>1 DEF PromisedFence
  <2>5. CASE f # NoFence
    <3>1. f \in Fences /\ fenceSerial[f] = 0 /\ ~fenceSignaled[f]
      BY <1>2, <1>3, <2>1, <2>5 DEF FenceAdmitted
    <3> QED  BY <1>2, <2>2, <2>3, <2>5, <3>1 DEF PromisedFence
  <2> QED  BY <2>4, <2>5
<1>14. FenceAt(n, call[t].fence) = call[t].fence
       /\ \A k \in 1..(n - 1) : FenceAt(k, call[t].fence) = NoFence
  BY <1>4 DEF FenceAt
<1>15. /\ \A k \in 1..(n - 1) : records[k].fence = NoFence
       /\ records[n].fence = call[t].fence
       /\ \A k \in 1..n : ~records[k].started
  <2>1. n \in 1..n /\ \A k \in 1..(n - 1) : k \in 1..n
    BY <1>4
  <2> HIDE DEF records
  <2> QED  BY <1>10, <1>14, <2>1
<1>16. LET f == records[Len(records)].fence
       IN  \/ f = NoFence /\ PromisedFence' = PromisedFence
           \/ /\ f # NoFence /\ PromisedFence[f] = "unsignaled"
              /\ PromisedFence' = [PromisedFence EXCEPT ![f] = "pending"]
  <2> HIDE DEF records
  <2> QED  BY <1>9, <1>13, <1>15
<1>17. Promise!FenceOfLast(records)
  <2>1. Len(records) = n
    BY <1>9
  <2> HIDE DEF records
  <2> QED  BY <1>15, <1>16, <2>1 DEF Promise!FenceOfLast, PromisedFence
<1>18. Promise!BinariesBalance(PromisedQueue')
  BY <1>5, <1>11 DEF Promise!BinariesBalance
<1>19. Promise!TimelineAhead(PromisedQueue')
  BY <1>5, <1>12 DEF Promise!TimelineAhead
<1>20. Len(records) = n
  BY <1>9
<1>21. \A k \in 1..Len(records) : ~records[k].started
  BY <1>15, <1>20
<1>22. SubSeq(PromisedQueue', 1, Len(PromisedQueue)) = PromisedQueue
  BY <1>5, <1>8
<1> QED
  BY <1>2, <1>6, <1>17, <1>18, <1>19, <1>21, <1>22, SubmitForm

(* The device is lost only by a failure: nothing that was accepted lacks a *)
(* semaphore, and every head that needs a job has it or may build it.      *)
LEMMA MapsLaunchFailed ==
    ASSUME TypeOK, Promised, NEW t \in Threads, LaunchFailed(t)
    PROVE  Promise!Lose
<1>1. /\ submission # <<>> /\ ~submission[1].frontend /\ submission[1].buffers # <<>>
      /\ Failures \/ ~(submission[1].job \/ submission[1].deferred)
      /\ submission' = submission \/ submission' = [submission EXCEPT ![1].job = TRUE]
      /\ lost' = TRUE /\ UNCHANGED <<signaled, value, fenceVars>>
  BY DEF LaunchFailed, ReadyToLaunch, QueueHead, semVars
<1>2. 1 \in 1..Len(submission)
  BY <1>1, QueueFields
<1>3. Failures
  BY <1>1, <1>2 DEF Promised, Preparable
<1>4. PromisedQueue' = PromisedQueue
  <2>1. CASE submission' = submission
    BY <2>1 DEF PromisedQueue
  <2>2. CASE submission' = [submission EXCEPT ![1].job = TRUE]
    BY <1>1, <2>2, MapsLaunch
  <2> QED  BY <1>1, <2>1, <2>2
<1> QED  BY <1>1, <1>3, <1>4, MapsLoss

LEMMA MapsInit == Init => Promise!Init
<1> SUFFICES ASSUME Init PROVE Promise!Init
  OBVIOUS
<1>1. /\ submission = <<>> /\ signaled = [b \in Binaries |-> FALSE]
      /\ value = [x \in Timelines |-> 0] /\ lost = FALSE
      /\ fenceSerial = [f \in Fences |-> 0]
      /\ fenceSignaled = [f \in Fences |-> FALSE]
  BY DEF Init
<1>2. PromisedQueue = <<>>
  BY <1>1 DEF PromisedQueue
<1>3. PromisedFence = [f \in Fences |-> "unsignaled"]
  BY <1>1 DEF PromisedFence
<1> QED  BY <1>1, <1>2, <1>3 DEF Promise!Init, PromisedQueue, Entry, PromisedFence

LEMMA MapsStep ==
    ASSUME TypeOK, TypeOK', Locking, QueueCalls, FenceAdmitted, Startable,
           SignalsPromised, SignalsPromised', Promised, [Next]_vars
    PROVE  [Promise!Next]_Promise!vars
<1>1. CASE Silent
  BY <1>1, MapsQuiet DEF Silent
<1>2. CASE Fault
  <2>1. PromisedQueue' = PromisedQueue
    BY <1>2 DEF Fault, PromisedQueue
  <2>2. Promise!Lose
    BY <1>2, <2>1, MapsLoss DEF Fault
  <2> QED  BY <2>2 DEF Promise!Next
<1>3. ASSUME NEW t \in Threads, BuildRecord(t) \/ RefuseSubmit(t)
      PROVE  [Promise!Next]_Promise!vars
  <2>1. UNCHANGED <<submission, signaled, value, fenceVars, lost>>
    BY <1>3 DEF BuildRecord, RefuseSubmit, semVars, deviceVars
  <2> QED  BY <2>1, MapsQuiet
<1>4. ASSUME NEW t \in Threads, CommitSubmit(t) PROVE [Promise!Next]_Promise!vars
  <2>1. Replays'
    BY <1>4, ReplaysOnCommit DEF Promised
  <2>2. Promise!Submit
    BY <1>4, <2>1, MapsSubmit
  <2> QED  BY <2>2 DEF Promise!Next
<1>5. ASSUME NEW t \in Threads, SignalSemaphore(t) PROVE [Promise!Next]_Promise!vars
  <2>1. Promise!HostSignal \/ UNCHANGED Promise!vars
    BY <1>5, MapsSignal
  <2> QED  BY <2>1 DEF Promise!Next
<1>6. ASSUME NEW t \in Threads, ConsumeWaits(t) PROVE [Promise!Next]_Promise!vars
  <2>1. Promise!Start
    BY <1>6, MapsStart
  <2> QED  BY <2>1 DEF Promise!Next
<1>7. ASSUME NEW t \in Threads, Retires(t) PROVE [Promise!Next]_Promise!vars
  <2>1. Promise!Retire
    BY <1>7, MapsRetire
  <2> QED  BY <2>1 DEF Promise!Next
<1>8. ASSUME NEW t \in Threads, LaunchHead(t) PROVE [Promise!Next]_Promise!vars
  <2>1. /\ submission # <<>> /\ submission' = [submission EXCEPT ![1].job = TRUE]
        /\ UNCHANGED <<signaled, value, fenceVars, lost>>
    BY <1>8 DEF LaunchHead, ReadyToLaunch, semVars
  <2>2. PromisedQueue' = PromisedQueue /\ PromisedFence' = PromisedFence
    BY <2>1, MapsLaunch DEF PromisedFence, fenceVars
  <2>3. UNCHANGED Promise!vars
    BY <2>1, <2>2 DEF Promise!vars, PromisedQueue, Entry, PromisedFence
  <2> QED  BY <2>3
<1>9. ASSUME NEW t \in Threads, LaunchFailed(t) PROVE [Promise!Next]_Promise!vars
  <2>1. Promise!Lose
    BY <1>9, MapsLaunchFailed
  <2> QED  BY <2>1 DEF Promise!Next
<1>10. ASSUME NEW f \in Fences, ResetFence(f) PROVE [Promise!Next]_Promise!vars
  <2>1. Promise!ResetFence
    BY <1>10, MapsReset
  <2> QED  BY <2>1 DEF Promise!Next
<1> QED
  BY <1>1, <1>2, <1>3, <1>4, <1>5, <1>6, <1>7, <1>8, <1>9, <1>10, PromiseKinds

(* The fence a submission will signal is still unsignalled and unclaimed    *)
(* when it commits (vkQueueSubmit checks it before it drains the queue).    *)
LEMMA AdmittedInvariant == Spec => []FenceAdmitted
<1> DEFINE FenceInv == FencesMatchQueue /\ FenceAdmitted
<1>1. Init => FenceInv
  BY DEF Init, FencesMatchQueue, FenceAdmitted, NoCall
<1>2. TypeOK /\ Locking /\ QueueCalls /\ FenceInv /\ [Next]_vars => FenceInv'
  BY FencesStep, AdmittedStep
<1> QED
  BY <1>1, <1>2, TypeCorrect, LockingInvariant, QueueCallsInvariant, PTL DEF Spec

(* The signals a queue and the list being built promise rise along it.      *)
LEMMA PromisesInvariant == Spec => []SignalsPromised
<1>1. Init => SignalsPromised
  BY DEF Init, SignalsPromised, SignalsRise, ChainFollows
<1>2. TypeOK /\ Locking /\ SignalsPromised /\ [Next]_vars => SignalsPromised'
  BY PromiseStep
<1> QED
  BY <1>1, <1>2, TypeCorrect, LockingInvariant, PTL DEF Spec

(* Whatever the threads, the drains that give the lock up, the host        *)
(* signals and the failures do, the driver is the atomic first-in first-out *)
(* queue of QueueSpec (vkQueueSubmit, poll_locked, start_submission).      *)
THEOREM QueueKeepsPromise == Spec => ImplementsPromise
<1>1. TypeOK /\ TypeOK' /\ Locking /\ QueueCalls /\ FenceAdmitted /\ Startable
      /\ SignalsPromised /\ SignalsPromised' /\ Promised /\ [Next]_vars
          => [Promise!Next]_Promise!vars
  BY MapsStep
<1> QED
  BY <1>1, MapsInit, TypeCorrect, LockingInvariant, QueueCallsInvariant,
     AdmittedInvariant, PromisesInvariant, JobsInvariant, PromisedInvariant, PTL
  DEF Spec, ImplementsPromise, Promise!Spec
=============================================================================
