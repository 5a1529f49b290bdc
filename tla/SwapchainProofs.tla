--------------------------- MODULE SwapchainProofs ---------------------------
(***************************************************************************)
(* Theorems of module Swapchain, for any semaphores, fences and            *)
(* submissions and any bounds:                                             *)
(*                                                                         *)
(*   TypeCorrect           Spec => []TypeOK                                *)
(*   DisplayStaysApart     Spec => []DisplayedIsUntouched                  *)
(*   ShownOnceConsumed     Spec => ConsumedMeansShown                      *)
(*                                                                         *)
(* Inv says what the second half of a present rests on: the queue that its *)
(* drain has seen empty stays empty, because nobody submits during a       *)
(* present and polls only shorten the queue; the image of the call stays   *)
(* acquired; a lost device still has the record it was lost with, so an    *)
(* empty queue is one of a device in order; and the tokens of the chain    *)
(* are ahead of the presenter's.                                           *)
(***************************************************************************)
EXTENDS Swapchain, SequenceTheorems, TLAPS

PresentHoldsImage == call.op = "present" => acquired[call.slot]
DrainedStaysEmpty ==
    call.op = "present" /\ call.at \in {"consume", "frame", "flip", "shown"} => submission = <<>>
LostKeepsItsRecord == lost => submission # <<>>
TokensAhead == tokens.present <= tokens.chain

Inv ==
    /\ TypeOK
    /\ DisplayedIsUntouched
    /\ PresentHoldsImage /\ DrainedStaysEmpty
    /\ LostKeepsItsRecord /\ TokensAhead

-----------------------------------------------------------------------------
(* The queue. *)

(* Starting the head changes no image and empties no queue. *)
LEMMA StartKeeps ==
    ASSUME NEW queue \in Seq(Records), NEW payloads \in SUBSET Marks,
           lost \in BOOLEAN, Start(queue, payloads)
    PROVE  /\ submission' \in Seq(Records) /\ signaled' \in SUBSET Marks
           /\ lost' \in BOOLEAN
           /\ Len(submission') = Len(queue)
           /\ \A k \in 1..Len(queue) : submission'[k].image = queue[k].image
           /\ queue = <<>> => lost' = lost
<1>1. CASE queue = <<>> \/ HeadGated(queue)
  BY <1>1 DEF Start
<1>2. CASE ~(queue = <<>> \/ HeadGated(queue))
  <2>1. /\ queue # <<>> /\ signaled' = payloads \ Head(queue).waits
        /\ \/ submission' = [queue EXCEPT ![1].launched = TRUE] /\ lost' = lost
           \/ submission' = queue /\ lost' = TRUE
    BY <1>2 DEF Start
  <2>2. 1 \in 1..Len(queue) /\ queue[1] \in Records
    BY <2>1
  <2>3. [queue[1] EXCEPT !.launched = TRUE] \in Records
        /\ [queue[1] EXCEPT !.launched = TRUE].image = queue[1].image
    BY <2>2 DEF Records
  <2>4. CASE submission' = [queue EXCEPT ![1].launched = TRUE] /\ lost' = lost
    <3> DEFINE head == [queue[1] EXCEPT !.launched = TRUE]
    <3>1. submission' = [queue EXCEPT ![1] = head]
      BY <2>4
    <3> HIDE DEF head
    <3>2. head \in Records /\ head.image = queue[1].image
      BY <2>3 DEF head
    <3>3. submission' \in Seq(Records) /\ Len(submission') = Len(queue)
      BY <2>2, <3>1, <3>2
    <3>4. \A k \in 1..Len(queue) : submission'[k] = IF k = 1 THEN head ELSE queue[k]
      BY <2>2, <3>1
    <3>5. \A k \in 1..Len(queue) : submission'[k].image = queue[k].image
      BY <3>2, <3>4
    <3> QED
      BY <2>1, <2>4, <3>3, <3>5
  <2> QED
    BY <2>1, <2>4
<1> QED
  BY <1>1, <1>2

(* A poll names no new image, and leaves an empty queue as it is. *)
LEMMA PollKeeps ==
    ASSUME TypeOK, LostKeepsItsRecord, Poll
    PROVE  /\ submission' \in Seq(Records) /\ signaled' \in SUBSET Marks
           /\ lost' \in BOOLEAN /\ layout' \in [Slots -> Layouts]
           /\ \A n : Names(n)' => Names(n)
           /\ submission = <<>> => submission' = <<>> /\ lost' = lost
           /\ LostKeepsItsRecord'
<1>1. /\ submission \in Seq(Records) /\ signaled \in SUBSET Marks
      /\ lost \in BOOLEAN /\ layout \in [Slots -> Layouts]
  BY DEF TypeOK
<1>2. CASE PollIdle \/ PollRunning
  BY <1>1, <1>2 DEF PollIdle, PollRunning, queueVars, Names, Queued, LostKeepsItsRecord
<1>3. CASE PollWaiting
  <2>1. submission # <<>> /\ ~lost /\ Start(submission, signaled) /\ layout' = layout
    BY <1>3 DEF PollWaiting, Waiting
  <2>2. /\ submission' \in Seq(Records) /\ signaled' \in SUBSET Marks
        /\ lost' \in BOOLEAN
        /\ Len(submission') = Len(submission)
        /\ \A k \in 1..Len(submission) : submission'[k].image = submission[k].image
    BY <1>1, <2>1, StartKeeps
  <2> QED
    BY <1>1, <2>1, <2>2 DEF Names, Queued, LostKeepsItsRecord
<1>4. CASE PollFails
  BY <1>1, <1>4 DEF PollFails, Running, Names, Queued, LostKeepsItsRecord
<1>5. CASE PollRetires
  <2>1. /\ submission # <<>> /\ ~lost
        /\ Start(Tail(submission), signaled \cup Head(submission).signals)
        /\ layout' = [n \in Slots |-> IF n = Head(submission).image
                                      THEN Head(submission).to ELSE layout[n]]
    BY <1>5 DEF PollRetires, Running
  <2>2. /\ Head(submission) \in Records /\ Tail(submission) \in Seq(Records)
        /\ Len(Tail(submission)) = Len(submission) - 1
        /\ \A k \in 1..Len(Tail(submission)) : Tail(submission)[k] = submission[k + 1]
    BY <1>1, <2>1
  <2>3. /\ Head(submission).signals \in SUBSET Marks
        /\ Head(submission).to \in Layouts
    BY <2>2 DEF Records
  <2>4. /\ submission' \in Seq(Records) /\ signaled' \in SUBSET Marks
        /\ lost' \in BOOLEAN
        /\ Len(submission') = Len(Tail(submission))
        /\ \A k \in 1..Len(Tail(submission)) :
               submission'[k].image = Tail(submission)[k].image
        /\ Tail(submission) = <<>> => lost' = lost
    BY <1>1, <2>1, <2>2, <2>3, StartKeeps
  <2>5. layout' \in [Slots -> Layouts]
    BY <1>1, <2>1, <2>3
  <2>6. ASSUME NEW n, Names(n)' PROVE Names(n)
    <3>1. PICK k \in 1..Len(submission') : submission'[k].image = n
      BY <2>6 DEF Names, Queued
    <3>2. k + 1 \in 1..Len(submission) /\ submission[k + 1].image = n
      BY <1>1, <2>1, <2>2, <2>4, <3>1
    <3> QED
      BY <3>2 DEF Names, Queued
  <2>7. LostKeepsItsRecord'
    <3> SUFFICES ASSUME lost' PROVE submission' # <<>>
      BY DEF LostKeepsItsRecord
    <3>1. Tail(submission) # <<>>
      BY <2>1, <2>4
    <3>2. Len(submission') # 0
      BY <2>2, <2>4, <3>1
    <3> QED
      BY <3>2
  <2> QED
    BY <2>1, <2>4, <2>5, <2>6, <2>7
<1> QED
  BY <1>2, <1>3, <1>4, <1>5 DEF Poll

(* A submission names its image besides those named before. *)
LEMMA SubmitKeeps ==
    ASSUME TypeOK, LostKeepsItsRecord, NEW record \in Records, Submit(record)
    PROVE  /\ submission' \in Seq(Records) /\ signaled' \in SUBSET Marks
           /\ lost' \in BOOLEAN
           /\ \A n : Names(n)' => Names(n) \/ n = record.image
           /\ LostKeepsItsRecord'
<1> DEFINE queue == Append(submission, record)
<1>1. /\ submission \in Seq(Records) /\ signaled \in SUBSET Marks /\ lost \in BOOLEAN
  BY DEF TypeOK
<1>2. Start(queue, signaled)
  BY DEF Submit
<1>3. /\ queue \in Seq(Records) /\ Len(queue) = Len(submission) + 1
      /\ \A k \in 1..Len(submission) : queue[k] = submission[k]
      /\ queue[Len(submission) + 1] = record
  BY <1>1
<1> HIDE DEF queue
<1>4. /\ submission' \in Seq(Records) /\ signaled' \in SUBSET Marks
      /\ lost' \in BOOLEAN /\ Len(submission') = Len(queue)
      /\ \A k \in 1..Len(queue) : submission'[k].image = queue[k].image
  BY <1>1, <1>2, <1>3, StartKeeps
<1>5. ASSUME NEW n, Names(n)' PROVE Names(n) \/ n = record.image
  <2>1. PICK k \in 1..Len(submission') : submission'[k].image = n
    BY <1>5 DEF Names, Queued
  <2>2. queue[k].image = n /\ k \in 1..(Len(submission) + 1)
    BY <1>3, <1>4, <2>1
  <2>3. CASE k = Len(submission) + 1
    BY <1>3, <2>2, <2>3
  <2>4. CASE k \in 1..Len(submission)
    BY <1>3, <2>2, <2>4 DEF Names, Queued
  <2>5. Len(submission) \in Nat
    BY <1>1
  <2> QED
    BY <2>2, <2>3, <2>4, <2>5
<1>6. submission' # <<>>
  <2>1. Len(submission') # 0
    BY <1>1, <1>3, <1>4
  <2> QED
    BY <2>1
<1> QED
  BY <1>4, <1>5, <1>6 DEF LostKeepsItsRecord

-----------------------------------------------------------------------------
(* Everything but the swapchain's own calls. *)

LEMMA QueueStep ==
    ASSUME Inv, SubmitSome \/ OtherPolls PROVE Inv'
<1>1. CASE OtherPolls
  <2>1. /\ Poll /\ UNCHANGED <<open, acquired, busy, displayed, tokens, views, call, gate>>
    BY <1>1 DEF OtherPolls, chainVars
  <2>2. /\ submission' \in Seq(Records) /\ signaled' \in SUBSET Marks
        /\ lost' \in BOOLEAN /\ layout' \in [Slots -> Layouts]
        /\ \A n : Names(n)' => Names(n)
        /\ submission = <<>> => submission' = <<>> /\ lost' = lost
        /\ LostKeepsItsRecord'
    BY <2>1, PollKeeps DEF Inv
  <2>3. TypeOK'
    BY <2>1, <2>2 DEF Inv, TypeOK
  <2>4. DisplayedIsUntouched' /\ DrainedStaysEmpty'
    BY <2>1, <2>2 DEF Inv, DisplayedIsUntouched, DrainedStaysEmpty, Presenting
  <2> QED
    BY <2>1, <2>2, <2>3, <2>4 DEF Inv, PresentHoldsImage, TokensAhead
<1>2. CASE SubmitSome
  <2>1. PICK record \in Submissions : Submit(record)
    BY <1>2 DEF SubmitSome
  <2>2. /\ record \in Records /\ Accepted(record) /\ call.op # "present"
        /\ UNCHANGED <<open, acquired, busy, displayed, tokens, views, call, layout, gate>>
    BY <2>1, SwapchainAssumption DEF Submit, chainVars
  <2>3. /\ submission' \in Seq(Records) /\ signaled' \in SUBSET Marks
        /\ lost' \in BOOLEAN
        /\ \A n : Names(n)' => Names(n) \/ n = record.image
        /\ LostKeepsItsRecord'
    BY <2>1, <2>2, SubmitKeeps DEF Inv
  <2>4. TypeOK'
    BY <2>2, <2>3 DEF Inv, TypeOK
  <2>5. \A n \in Slots : n = record.image => ~busy[n]
    BY <2>2 DEF Accepted, Slots, None
  <2>6. DisplayedIsUntouched' /\ DrainedStaysEmpty'
    BY <2>2, <2>3, <2>5 DEF Inv, DisplayedIsUntouched, DrainedStaysEmpty, Presenting
  <2> QED
    BY <2>2, <2>3, <2>4, <2>6 DEF Inv, PresentHoldsImage, TokensAhead
<1> QED
  BY <1>1, <1>2

LEMMA SideStep ==
    ASSUME Inv,
           \/ HostSignals
           \/ \E f \in Fences : ResetFence(f)
           \/ \E n \in Slots : CreateView(n) \/ DestroyView(n)
    PROVE  Inv'
<1>1. /\ UNCHANGED <<open, acquired, busy, displayed, tokens, call, submission, layout, lost>>
      /\ gate' \in BOOLEAN /\ views' \in SUBSET Slots /\ signaled' \in SUBSET Marks
  BY DEF Inv, TypeOK, HostSignals, ResetFence, CreateView, DestroyView, chainVars, queueVars
<1>2. TypeOK'
  BY <1>1 DEF Inv, TypeOK
<1>3. /\ Presenting("flip")' <=> Presenting("flip")
      /\ Presenting("shown")' <=> Presenting("shown")
  BY <1>1 DEF Presenting
<1>4. \A n : Names(n)' <=> Names(n)
  BY <1>1 DEF Names, Queued
<1> QED
  BY <1>1, <1>2, <1>3, <1>4
  DEF Inv, DisplayedIsUntouched, PresentHoldsImage, DrainedStaysEmpty,
      LostKeepsItsRecord, TokensAhead

-----------------------------------------------------------------------------
(* The swapchain's calls. *)

LEMMA LifeStep ==
    ASSUME Inv, CreateSwapchain \/ DestroySwapchain PROVE Inv'
<1>1. /\ call = NoCall /\ UNCHANGED <<views, call, submission, signaled, lost, gate>>
      /\ open' \in BOOLEAN
      /\ acquired' = [n \in Slots |-> FALSE] /\ busy' = [n \in Slots |-> FALSE]
      /\ displayed' = None /\ tokens' = [chain |-> 0, present |-> 0]
      /\ layout' \in [Slots -> Layouts]
  BY DEF Inv, TypeOK, CreateSwapchain, DestroySwapchain, Idle, queueVars, Layouts
<1>2. TypeOK'
  BY <1>1 DEF Inv, TypeOK
<1>3. call.op = "none"
  BY <1>1 DEF NoCall
<1> QED
  BY <1>1, <1>2, <1>3
  DEF Inv, DisplayedIsUntouched, PresentHoldsImage, DrainedStaysEmpty,
      LostKeepsItsRecord, TokensAhead, Names, Queued, Presenting

LEMMA AcquireStep ==
    ASSUME Inv,
           \/ \E signals \in SUBSET Marks, patience \in {"bounded", "forever"} :
                  AcquireCheck(signals, patience)
           \/ AcquireTake \/ AcquireGivesUp
    PROVE  Inv'
<1>1. CASE AcquireTake
  <2>1. PICK n \in Slots : Free(n) /\ acquired' = [acquired EXCEPT ![n] = TRUE]
    BY <1>1 DEF AcquireTake
  <2>2. /\ UNCHANGED <<open, busy, displayed, tokens, views, submission, layout, lost, gate>>
        /\ call' = NoCall /\ call.op = "acquire"
        /\ signaled' = signaled \cup call.signals
    BY <1>1 DEF AcquireTake
  <2>3. call.signals \in SUBSET Marks
    BY <2>2 DEF Inv, TypeOK, Calls
  <2>4. TypeOK'
    BY <2>1, <2>2, <2>3 DEF Inv, TypeOK, Calls, NoCall
  <2>5. call'.op = "none"
    BY <2>2 DEF NoCall
  <2>6. \A m \in Slots : busy[m] => ~acquired'[m]
    BY <2>1, <2>2 DEF Inv, TypeOK, DisplayedIsUntouched, Free, Presenting
  <2> QED
    BY <2>2, <2>4, <2>5, <2>6
    DEF Inv, DisplayedIsUntouched, PresentHoldsImage, DrainedStaysEmpty,
      LostKeepsItsRecord, TokensAhead, Names, Queued, Presenting
<1>2. CASE ~AcquireTake
  <2>1. /\ UNCHANGED <<chainVars, views, queueVars, gate>>
        /\ call.op # "present" /\ call' \in Calls /\ call'.op # "present"
    BY <1>2 DEF AcquireCheck, AcquireGivesUp, Idle, NoCall, Calls
  <2>2. TypeOK'
    BY <2>1 DEF Inv, TypeOK, chainVars, queueVars
  <2> QED
    BY <2>1, <2>2
    DEF Inv, DisplayedIsUntouched, PresentHoldsImage, DrainedStaysEmpty,
      LostKeepsItsRecord, TokensAhead, Names, Queued, Presenting, chainVars, queueVars
<1> QED
  BY <1>1, <1>2

(* The fields of a present under way. *)
LEMMA PresentCall ==
    ASSUME TypeOK, call.op = "present"
    PROVE  /\ call.slot \in Slots /\ call.polls \in 0..MaxPolls
           /\ \A where \in {"look", "poll", "consume", "frame", "flip", "shown", "retained"} :
                  LET next == [call EXCEPT !.at = where]
                  IN  /\ next \in Calls /\ next.op = "present"
                      /\ next.at = where /\ next.slot = call.slot
           /\ call.polls + 1 < MaxPolls =>
                  LET next == [call EXCEPT !.at = "look", !.polls = @ + 1]
                  IN  /\ next \in Calls /\ next.op = "present"
                      /\ next.at = "look" /\ next.slot = call.slot
           /\ NoCall \in Calls /\ NoCall.op = "none"
<1>1. call \in [op : {"present"}, slot : Slots, waits : SUBSET Semaphores,
                at : {"look", "poll", "consume", "frame", "flip", "shown", "retained"},
                polls : 0..MaxPolls]
  BY DEF TypeOK, Calls
<1>2. MaxPolls \in Nat
  BY SwapchainAssumption
<1>3. ASSUME NEW where \in {"look", "poll", "consume", "frame", "flip", "shown", "retained"}
      PROVE  LET next == [call EXCEPT !.at = where]
             IN  /\ next \in Calls /\ next.op = "present"
                 /\ next.at = where /\ next.slot = call.slot
  BY <1>1, <1>3 DEF Calls
<1>4. ASSUME call.polls + 1 < MaxPolls
      PROVE  LET next == [call EXCEPT !.at = "look", !.polls = @ + 1]
             IN  /\ next \in Calls /\ next.op = "present"
                 /\ next.at = "look" /\ next.slot = call.slot
  <2>1. call.polls + 1 \in 0..MaxPolls
    BY <1>1, <1>2, <1>4
  <2> QED
    BY <1>1, <2>1 DEF Calls
<1>5. NoCall \in Calls /\ NoCall.op = "none"
  BY DEF Calls, NoCall
<1> QED
  BY <1>1, <1>3, <1>4, <1>5

LEMMA PresentCheckStep ==
    ASSUME Inv, NEW slot \in Slots, NEW waits \in SUBSET Semaphores,
           PresentCheck(slot, waits)
    PROVE  Inv'
<1>1. /\ call' = [op |-> "present", slot |-> slot, waits |-> waits,
                  at |-> "look", polls |-> 0]
      /\ acquired[slot] /\ UNCHANGED <<chainVars, views, queueVars, gate>>
      /\ call.op # "present"
  BY DEF PresentCheck, Idle, NoCall
<1>2. call' \in Calls
  BY <1>1, SwapchainAssumption DEF Calls
<1>3. TypeOK'
  BY <1>1, <1>2 DEF Inv, TypeOK, chainVars, queueVars
<1>4. call'.op = "present" /\ call'.at = "look" /\ call'.slot = slot
  BY <1>1
<1> QED
  BY <1>1, <1>3, <1>4
  DEF Inv, DisplayedIsUntouched, PresentHoldsImage, DrainedStaysEmpty,
      LostKeepsItsRecord, TokensAhead, Names, Queued, Presenting, chainVars, queueVars

LEMMA DrainStep ==
    ASSUME Inv, DrainLook \/ DrainPoll PROVE Inv'
<1>1. /\ call.op = "present" /\ TypeOK
      /\ UNCHANGED <<open, acquired, busy, displayed, tokens, views, gate>>
  BY DEF Inv, DrainLook, DrainPoll, Presenting, chainVars
<1>2. CASE DrainLook
  <2>1. /\ UNCHANGED <<submission, signaled, layout, lost>> /\ call.at = "look"
        /\ call' = [call EXCEPT !.at = IF submission = <<>> THEN "consume" ELSE "poll"]
    BY <1>2 DEF DrainLook, queueVars, Presenting
  <2>2. /\ call' \in Calls /\ call'.op = "present" /\ call'.slot = call.slot
        /\ call'.at = IF submission = <<>> THEN "consume" ELSE "poll"
    BY <1>1, <2>1, PresentCall
  <2>3. TypeOK'
    BY <1>1, <2>1, <2>2 DEF TypeOK
  <2> QED
    BY <1>1, <2>1, <2>2, <2>3
    DEF Inv, DisplayedIsUntouched, PresentHoldsImage, DrainedStaysEmpty,
      LostKeepsItsRecord, TokensAhead, Names, Queued, Presenting
<1>3. CASE DrainPoll
  <2>1. /\ call.at = "poll" /\ Poll
        /\ call' = NoCall \/ DrainGoesOn
    BY <1>3 DEF DrainPoll, Presenting
  <2>2. /\ call' \in Calls
        /\ \/ call'.op = "none"
           \/ call'.op = "present" /\ call'.slot = call.slot /\ call'.at = "look"
    BY <1>1, <2>1, PresentCall DEF DrainGoesOn
  <2>3. /\ submission' \in Seq(Records) /\ signaled' \in SUBSET Marks
        /\ lost' \in BOOLEAN /\ layout' \in [Slots -> Layouts]
        /\ \A n : Names(n)' => Names(n)
        /\ LostKeepsItsRecord'
    BY <2>1, PollKeeps DEF Inv
  <2>4. TypeOK'
    BY <1>1, <2>2, <2>3 DEF TypeOK
  <2>5. DisplayedIsUntouched' /\ PresentHoldsImage' /\ DrainedStaysEmpty'
    BY <1>1, <2>1, <2>2, <2>3
    DEF Inv, DisplayedIsUntouched, PresentHoldsImage, DrainedStaysEmpty, Presenting
  <2> QED
    BY <1>1, <2>3, <2>4, <2>5 DEF Inv, TokensAhead
<1> QED
  BY <1>2, <1>3

(* A present that has consumed its waits is not refused any more. *)
LEMMA FrameAccepted ==
    ASSUME Inv, Presenting("frame") PROVE ~FrameRefused
<1>1. /\ call.op = "present" /\ call.at = "frame" /\ call.slot \in Slots
      /\ submission = <<>> /\ ~lost
  BY PresentCall DEF Inv, Presenting, DrainedStaysEmpty, LostKeepsItsRecord
<1>2. acquired[call.slot] /\ ~busy[call.slot]
  BY <1>1 DEF Inv, PresentHoldsImage, DisplayedIsUntouched, Presenting
<1>3. tokens.chain \in Nat /\ tokens.present \in Nat /\ tokens.present <= tokens.chain
  BY DEF Inv, TypeOK, TokensAhead
<1>4. Pins(call.slot) = {}
  BY <1>1 DEF Pins
<1> QED
  BY <1>1, <1>2, <1>3, <1>4 DEF FrameRefused

LEMMA PresentStep ==
    ASSUME Inv, PresentConsume \/ PresentFrame \/ PresentRetained PROVE Inv'
<1>1. /\ call.op = "present" /\ TypeOK /\ submission = <<>>
      /\ call.at \in {"consume", "frame", "flip"}
      /\ UNCHANGED <<open, acquired, busy, displayed, views, submission, layout, lost, gate>>
  BY DEF Inv, DrainedStaysEmpty, PresentConsume, PresentFrame, PresentRetained,
         Presenting, chainVars, queueVars
<1>2. /\ call' \in Calls
      /\ \/ call'.op = "none"
         \/ /\ call'.op = "present" /\ call'.slot = call.slot
            /\ call'.at \in {"frame", "flip", "retained"}
            /\ call'.at = "flip" => ~busy[call.slot]
  <2>1. \/ call' = NoCall
        \/ \E where \in {"frame", "flip", "retained"} :
               /\ call' = [call EXCEPT !.at = where]
               /\ where = "flip" => ~busy[call.slot]
    BY DEF PresentConsume, PresentFrame, PresentRetained, FrameRefused
  <2>2. NoCall \in Calls /\ NoCall.op = "none"
    BY <1>1, PresentCall
  <2>3. ASSUME NEW where \in {"frame", "flip", "retained"},
               call' = [call EXCEPT !.at = where]
        PROVE  /\ call' \in Calls /\ call'.op = "present"
               /\ call'.at = where /\ call'.slot = call.slot
    BY <1>1, <2>3, PresentCall
  <2> QED
    BY <2>1, <2>2, <2>3
<1>3. signaled' \in SUBSET Marks
  BY <1>1 DEF TypeOK, PresentConsume, PresentFrame, PresentRetained, queueVars
<1>4. tokens' \in [chain : Nat, present : Nat] /\ TokensAhead'
  BY <1>1
  DEF Inv, TypeOK, TokensAhead, PresentConsume, PresentFrame, PresentRetained, chainVars
<1>5. TypeOK'
  BY <1>1, <1>2, <1>3, <1>4 DEF TypeOK
<1>6. DisplayedIsUntouched'
  <2>1. ~Presenting("shown") /\ ~Presenting("shown")'
    BY <1>1, <1>2 DEF Presenting
  <2>2. \A n : Names(n)' <=> Names(n)
    BY <1>1 DEF Names, Queued
  <2>3. Presenting("flip")' =>
            ~Names(call.slot) /\ acquired[call.slot] /\ ~busy[call.slot]
    BY <1>1, <1>2 DEF Inv, PresentHoldsImage, Presenting, Names, Queued
  <2>4. Presenting("flip")' => call'.slot = call.slot
    BY <1>2 DEF Presenting
  <2> QED
    BY <1>1, <2>1, <2>2, <2>3, <2>4 DEF Inv, DisplayedIsUntouched
<1> QED
  BY <1>1, <1>2, <1>4, <1>5, <1>6
  DEF Inv, DisplayedIsUntouched, PresentHoldsImage, DrainedStaysEmpty,
      LostKeepsItsRecord, TokensAhead, Names, Queued, Presenting

LEMMA ShownStep ==
    ASSUME Inv, PresentShown PROVE Inv'
<1>1. /\ call.op = "present" /\ call.at = "flip" /\ call.slot \in Slots
      /\ TypeOK /\ submission = <<>>
      /\ busy' = [n \in Slots |-> n = call.slot \/ (busy[n] /\ n # displayed)]
      /\ displayed' = call.slot
      /\ tokens' = [tokens EXCEPT !.present = tokens.chain]
      /\ call' = [call EXCEPT !.at = "shown"]
      /\ UNCHANGED <<open, acquired, views, submission, signaled, layout, lost, gate>>
  BY PresentCall DEF Inv, DrainedStaysEmpty, PresentShown, Presenting, queueVars
<1>2. /\ call' \in Calls /\ call'.op = "present" /\ call'.at = "shown"
      /\ call'.slot = call.slot
  BY <1>1, PresentCall
<1>3. tokens' \in [chain : Nat, present : Nat] /\ TokensAhead'
  BY <1>1 DEF TypeOK, TokensAhead
<1>4. busy' \in [Slots -> BOOLEAN]
  BY <1>1 DEF TypeOK
<1>5. TypeOK'
  BY <1>1, <1>2, <1>3, <1>4 DEF TypeOK
<1>6. \A n \in Slots : busy'[n] => n = call.slot
  BY <1>1 DEF Inv, DisplayedIsUntouched
<1> QED
  BY <1>1, <1>2, <1>3, <1>5, <1>6
  DEF Inv, DisplayedIsUntouched, PresentHoldsImage, DrainedStaysEmpty,
      LostKeepsItsRecord, TokensAhead, Names, Queued, Presenting

LEMMA DoneStep ==
    ASSUME Inv, PresentDone PROVE Inv'
<1>1. /\ call.op = "present" /\ call.slot \in Slots /\ TypeOK /\ submission = <<>>
      /\ acquired' = [acquired EXCEPT ![call.slot] = FALSE]
      /\ call' = NoCall
      /\ UNCHANGED <<open, busy, displayed, tokens, views, submission, signaled,
                     layout, lost, gate>>
  BY PresentCall DEF Inv, DrainedStaysEmpty, PresentDone, Presenting, queueVars
<1>2. call' \in Calls /\ call'.op = "none"
  BY <1>1, PresentCall
<1>3. acquired' \in [Slots -> BOOLEAN]
  BY <1>1 DEF TypeOK
<1>4. TypeOK'
  BY <1>1, <1>2, <1>3 DEF TypeOK
<1>5. ~acquired'[call.slot] /\ \A n \in Slots : acquired'[n] => acquired[n]
  BY <1>1 DEF TypeOK
<1> QED
  BY <1>1, <1>2, <1>4, <1>5
  DEF Inv, DisplayedIsUntouched, PresentHoldsImage, DrainedStaysEmpty,
      LostKeepsItsRecord, TokensAhead, Names, Queued, Presenting

-----------------------------------------------------------------------------
LEMMA InvStep == Inv /\ [Next]_vars => Inv'
<1> SUFFICES ASSUME Inv, [Next]_vars PROVE Inv'
  OBVIOUS
<1>1. CASE UNCHANGED vars
  <2>1. UNCHANGED <<open, acquired, busy, displayed, tokens, views, call, submission,
                    signaled, layout, lost, gate>>
    BY <1>1 DEF vars, chainVars, queueVars
  <2>2. TypeOK'
    BY <2>1 DEF Inv, TypeOK
  <2>3. DisplayedIsUntouched'
    BY <2>1 DEF Inv, DisplayedIsUntouched, Presenting, Names, Queued
  <2> QED
    BY <2>1, <2>2, <2>3
    DEF Inv, PresentHoldsImage, DrainedStaysEmpty, LostKeepsItsRecord, TokensAhead
<1>2. CASE Next
  BY <1>2, QueueStep, SideStep, LifeStep, AcquireStep, PresentCheckStep, DrainStep,
     PresentStep, ShownStep, DoneStep
  DEF Next, PresenterStep
<1> QED
  BY <1>1, <1>2

LEMMA Invariant == Spec => []Inv
<1>1. ASSUME Init PROVE Inv
  <2>1. call = NoCall /\ call.op = "none" /\ NoCall \in Calls
    BY <1>1 DEF Init, NoCall, Calls
  <2>2. submission \in Seq(Records) /\ tokens \in [chain : Nat, present : Nat]
        /\ "present" \in Layouts
    BY <1>1 DEF Init, Layouts
  <2>3. TypeOK
    BY <1>1, <2>1, <2>2 DEF Init, TypeOK
  <2>4. DisplayedIsUntouched
    BY <1>1, <2>1 DEF Init, DisplayedIsUntouched, Presenting
  <2> QED
    BY <1>1, <2>1, <2>3, <2>4
    DEF Init, Inv, PresentHoldsImage, DrainedStaysEmpty, LostKeepsItsRecord, TokensAhead
<1> QED
  BY <1>1, InvStep, PTL DEF Spec

(* The swapchain, its call and the queue keep their types. *)
THEOREM TypeCorrect == Spec => []TypeOK
<1>1. Inv => TypeOK
  BY DEF Inv
<1> QED
  BY <1>1, Invariant, PTL

(* An image has one owner at a time: what the display scans out is neither *)
(* acquired nor named by queued work, and neither is the image of a flip   *)
(* (vkAcquireNextImageKHR, vkQueuePresentKHR, present_ps5.c).              *)
THEOREM DisplayStaysApart == Spec => []DisplayedIsUntouched
<1>1. Inv => DisplayedIsUntouched
  BY DEF Inv
<1> QED
  BY <1>1, Invariant, PTL

(* Once a present has consumed its wait semaphores the presenter does not  *)
(* refuse its image, although the device lock was given up in between      *)
(* (vkQueuePresentKHR).                                                    *)
THEOREM ShownOnceConsumed == Spec => ConsumedMeansShown
<1>1. Inv /\ [Next]_vars => [Presenting("frame") => call'.op = "present"]_vars
  <2> SUFFICES ASSUME Inv, Next, Presenting("frame") PROVE call'.op = "present"
    OBVIOUS
  <2>1. call.op = "present" /\ call.at = "frame" /\ TypeOK
    BY DEF Inv, Presenting
  <2>2. CASE PresentFrame
    BY <2>1, <2>2, FrameAccepted, PresentCall DEF PresentFrame
  <2>3. CASE ~PresentFrame
    <3>1. call' = call
      BY <2>1, <2>3
      DEF Next, PresenterStep, SubmitSome, Submit, OtherPolls, HostSignals, ResetFence,
          CreateView, DestroyView, CreateSwapchain, DestroySwapchain, Idle, NoCall,
          AcquireCheck, AcquireTake, AcquireGivesUp, PresentCheck, DrainLook,
          DrainPoll, PresentConsume, PresentRetained, PresentShown, PresentDone,
          Presenting
    <3> QED
      BY <2>1, <3>1
  <2> QED
    BY <2>2, <2>3
<1> QED
  BY <1>1, Invariant, PTL DEF Spec, ConsumedMeansShown
=============================================================================
