------------------------------ MODULE Swapchain ------------------------------
(***************************************************************************)
(* The swapchain (src/vk_swapchain.c) over the native presenter            *)
(* (native/present_ps5.c): two images that are handed from the application *)
(* to the queue, to the display and back.                                  *)
(*                                                                         *)
(* One thread makes the swapchain calls, which the application serialises; *)
(* vkQueueSubmit may run on another thread, except during a present, which *)
(* owns the queue; any thread may poll the queue and signal the timeline   *)
(* at any time.  The queue is the one of module Queue, reduced to what a   *)
(* present reads of it: the records in order, the marks (binary semaphores *)
(* and fences) they wait on and signal, the image they render to, and      *)
(* whether the head still waits on a timeline value.                       *)
(***************************************************************************)
EXTENDS Integers, Sequences, FiniteSets

CONSTANTS
    Semaphores,  \* binary semaphores
    Fences,
    Submissions, \* the records applications submit
    MaxQueued,   \* bound on the records queued at once
    MaxPolls,    \* the 3000 polls of drain_before_present
    MaxToken     \* bound on the presents of a swapchain that reach the display

Slots == {0, 1}
None  == -1
Marks == Semaphores \cup Fences

Layouts == {"present", "attachment"}

Records == [image : Slots \cup {None}, to : Layouts, waits : SUBSET Semaphores,
            signals : SUBSET Marks, gated : BOOLEAN, launched : BOOLEAN]

ASSUME SwapchainAssumption ==
    /\ Semaphores \cap Fences = {}
    /\ Submissions \subseteq {r \in Records : ~r.launched}
    /\ MaxQueued \in Nat /\ MaxPolls \in Nat \ {0} /\ MaxToken \in Nat

VARIABLES
    open,       \* the swapchain exists and its presenter is open
    acquired,   \* chain->acquired
    busy,       \* image->display_busy
    displayed,  \* present->displayed
    views,      \* images with a view
    layout,     \* image->layout
    tokens,     \* chain->token and present->token
    call,       \* the swapchain call in flight
    submission, \* d->submission
    signaled,   \* the marks whose payload is signaled
    gate,       \* the host has published the timeline value records wait on
    lost        \* d->lost

chainVars == <<open, acquired, busy, displayed, tokens>>
queueVars == <<submission, signaled, layout, lost>>
vars == <<chainVars, views, call, queueVars, gate>>

Calls ==
    [op : {"none"}] \cup
    [op : {"acquire"}, signals : SUBSET Marks, patience : {"bounded", "forever"}] \cup
    [op : {"present"}, slot : Slots, waits : SUBSET Semaphores,
     at : {"look", "poll", "consume", "frame", "flip", "shown", "retained"},
     polls : 0..MaxPolls]

NoCall == [op |-> "none"]
Idle   == call = NoCall
Presenting(stage) == call.op = "present" /\ call.at = stage

TypeOK ==
    /\ open \in BOOLEAN
    /\ acquired \in [Slots -> BOOLEAN] /\ busy \in [Slots -> BOOLEAN]
    /\ displayed \in Slots \cup {None}
    /\ views \subseteq Slots
    /\ layout \in [Slots -> Layouts]
    /\ tokens \in [chain : Nat, present : Nat]
    /\ call \in Calls
    /\ submission \in Seq(Records)
    /\ signaled \subseteq Marks
    /\ gate \in BOOLEAN /\ lost \in BOOLEAN

Init ==
    /\ open = FALSE
    /\ acquired = [n \in Slots |-> FALSE] /\ busy = [n \in Slots |-> FALSE]
    /\ displayed = None
    /\ views = {}
    /\ layout = [n \in Slots |-> "present"]
    /\ tokens = [chain |-> 0, present |-> 0]
    /\ call = NoCall
    /\ submission = <<>>
    /\ signaled = {}
    /\ gate = FALSE /\ lost = FALSE

-----------------------------------------------------------------------------
(* The queue.                                                              *)

Queued      == {submission[k] : k \in 1..Len(submission)}
Names(n)    == \E s \in Queued : s.image = n
Pins(n)     == {k \in 1..Len(submission) : submission[k].image = n}
Pending(m)  == \E s \in Queued : m \in s.waits \cup s.signals

(* The payload a mark will have once everything queued has retired.        *)
Eventually(m) ==
    LET touching == {k \in 1..Len(submission) :
                        m \in submission[k].waits \cup submission[k].signals}
    IN  IF touching = {} THEN m \in signaled
        ELSE \E last \in touching :
                 /\ \A k \in touching : k <= last
                 /\ m \in submission[last].signals

(* An image on display is refused; the replay of binary payloads and the   *)
(* state of the fence decide the rest.                                     *)
Accepted(record) ==
    /\ record.image # None => open /\ record.image \in views /\ ~busy[record.image]
    /\ \A s \in record.waits : Eventually(s)
    /\ \A m \in record.signals : m \in record.waits \/ ~Eventually(m)

HeadGated(queue) == queue # <<>> /\ ~Head(queue).launched /\ Head(queue).gated /\ ~gate

(* start_submission for a head with work: its waits are consumed and its   *)
(* job is launched, or the device is lost and the head stays queued.       *)
Start(queue, payloads) ==
    IF queue = <<>> \/ HeadGated(queue)
    THEN submission' = queue /\ signaled' = payloads /\ UNCHANGED lost
    ELSE /\ signaled' = payloads \ Head(queue).waits
         /\ \/ /\ Head(queue).waits \subseteq payloads
               /\ submission' = [queue EXCEPT ![1].launched = TRUE]
               /\ UNCHANGED lost
            \/ submission' = queue /\ lost' = TRUE

(* vkQueueSubmit first drains the queue up to a head that waits on a       *)
(* timeline value; the submission joins what is left.                      *)
Submit(record) ==
    /\ call.op # "present" /\ ~lost /\ Len(submission) < MaxQueued
    /\ submission = <<>> \/ HeadGated(submission)
    /\ Accepted(record)
    /\ Start(Append(submission, record), signaled)
    /\ UNCHANGED <<chainVars, views, call, layout, gate>>

(* ps5vk_queue_poll: a head that has not started is tried again, a started *)
(* one is still running, done or failed.  A lost device stays as it is.    *)
Waiting == submission # <<>> /\ ~Head(submission).launched
Running == submission # <<>> /\ Head(submission).launched

PollIdle    == (submission = <<>> \/ lost) /\ UNCHANGED queueVars
PollWaiting == Waiting /\ ~lost /\ Start(submission, signaled) /\ UNCHANGED layout
PollRunning == Running /\ ~lost /\ UNCHANGED queueVars
PollFails   == /\ Running /\ ~lost /\ lost' = TRUE
               /\ UNCHANGED <<submission, signaled, layout>>
PollRetires ==
    /\ Running /\ ~lost
    /\ LET done == Head(submission)
       IN  /\ Start(Tail(submission), signaled \cup done.signals)
           /\ layout' = [n \in Slots |->
                             IF n = done.image THEN done.to ELSE layout[n]]

Poll == PollIdle \/ PollWaiting \/ PollRunning \/ PollFails \/ PollRetires

(* Another thread waits for the queue, or signals the timeline.            *)
OtherPolls == Poll /\ UNCHANGED <<chainVars, views, call, gate>>
HostSignals ==
    /\ ~gate /\ gate' = TRUE
    /\ UNCHANGED <<chainVars, views, call, queueVars>>

(* vkResetFences, on a fence no queued record signals.                     *)
ResetFence(f) ==
    /\ f \in signaled /\ ~Pending(f)
    /\ ~(call.op = "acquire" /\ f \in call.signals)
    /\ signaled' = signaled \ {f}
    /\ UNCHANGED <<chainVars, views, call, submission, layout, lost, gate>>

CreateView(n) ==
    /\ open /\ n \notin views /\ views' = views \cup {n}
    /\ UNCHANGED <<chainVars, call, queueVars, gate>>
DestroyView(n) ==
    /\ n \in views /\ ~Names(n) /\ views' = views \ {n}
    /\ UNCHANGED <<chainVars, call, queueVars, gate>>

-----------------------------------------------------------------------------
(* The swapchain.                                                          *)

(* Only one swapchain exists, and the presenter opens on an idle device.   *)
(* Any failure of the calls it makes releases what was made.               *)
CreateSwapchain ==
    /\ Idle /\ ~open /\ ~lost /\ submission = <<>>
    /\ open' = TRUE
    /\ acquired' = [n \in Slots |-> FALSE] /\ busy' = [n \in Slots |-> FALSE]
    /\ displayed' = None
    /\ layout' = [n \in Slots |-> "present"]
    /\ tokens' = [chain |-> 0, present |-> 0]
    /\ UNCHANGED <<views, call, submission, signaled, lost, gate>>

(* Refused, and counted as a lifetime error, while an image has a view or  *)
(* a queued use, and by the presenter while anything is queued.            *)
DestroySwapchain ==
    /\ Idle /\ open
    /\ views = {} /\ \A n \in Slots : Pins(n) = {}
    /\ submission = <<>>
    /\ open' = FALSE
    /\ busy' = [n \in Slots |-> FALSE]
    /\ acquired' = [n \in Slots |-> FALSE]
    /\ displayed' = None
    /\ tokens' = [chain |-> 0, present |-> 0]
    /\ UNCHANGED <<views, call, queueVars, gate>>

(* vkAcquireNextImageKHR looks at the semaphore and the fence without the  *)
(* lock, then takes the first free image under it.                         *)
AcquireCheck(signals, patience) ==
    /\ Idle /\ open /\ ~lost
    /\ signals # {}
    /\ \A m \in signals : ~Pending(m) /\ m \notin signaled
    /\ call' = [op |-> "acquire", signals |-> signals, patience |-> patience]
    /\ UNCHANGED <<chainVars, views, queueVars, gate>>

(* Slip: an image on display counts as free. *)
FreeThoughDisplayed(n) == ~acquired[n]

Free(n) == ~acquired[n] /\ ~busy[n]

AcquireTake ==
    /\ call.op = "acquire"
    /\ \E n \in Slots :
           /\ Free(n) /\ \A k \in Slots : k < n => ~Free(k)
           /\ acquired' = [acquired EXCEPT ![n] = TRUE]
    /\ signaled' = signaled \cup call.signals
    /\ call' = NoCall
    /\ UNCHANGED <<open, busy, displayed, tokens, views, submission, layout, lost, gate>>

(* VK_NOT_READY or VK_TIMEOUT; a call that waits for ever goes on looking. *)
AcquireGivesUp ==
    /\ call.op = "acquire" /\ call.patience # "forever"
    /\ \A n \in Slots : ~Free(n)
    /\ call' = NoCall
    /\ UNCHANGED <<chainVars, views, queueVars, gate>>

PresentCheck(slot, waits) ==
    /\ Idle /\ open /\ acquired[slot] /\ tokens.chain < MaxToken
    /\ call' = [op |-> "present", slot |-> slot, waits |-> waits,
                at |-> "look", polls |-> 0]
    /\ UNCHANGED <<chainVars, views, queueVars, gate>>

(* drain_before_present: look under the lock, poll, give up on an error or *)
(* when the clock or the number of polls says so.                          *)
DrainLook ==
    /\ Presenting("look")
    /\ call' = [call EXCEPT !.at = IF submission = <<>> THEN "consume" ELSE "poll"]
    /\ UNCHANGED <<chainVars, views, queueVars, gate>>

(* Slips: the drain reports success at its bound, or knows no bound. *)
DrainEndsWell ==
    \/ /\ call.polls + 1 < MaxPolls
       /\ call' = [call EXCEPT !.at = "look", !.polls = @ + 1]
    \/ call' = [call EXCEPT !.at = "consume"]

DrainGoesOnForever ==
    call' = [call EXCEPT !.at = "look",
                         !.polls = IF @ + 1 < MaxPolls THEN @ + 1 ELSE @]

(* What the drain does after a poll that succeeded: pause and look again   *)
(* unless a bound is reached.                                              *)
DrainGoesOn ==
    \/ /\ call.polls + 1 < MaxPolls
       /\ call' = [call EXCEPT !.at = "look", !.polls = @ + 1]
    \/ call' = NoCall

DrainPoll ==
    /\ Presenting("poll")
    /\ Poll
    /\ IF lost' THEN call' = NoCall ELSE DrainGoesOn
    /\ UNCHANGED <<chainVars, views, gate>>

(* The layout and all the wait semaphores are checked before the first     *)
(* semaphore is consumed.                                                  *)
PresentConsume ==
    /\ Presenting("consume")
    /\ IF layout[call.slot] = "present" /\ call.waits \subseteq signaled
       THEN /\ signaled' = signaled \ call.waits
            /\ call' = [call EXCEPT !.at = "frame"]
       ELSE call' = NoCall /\ UNCHANGED signaled
    /\ UNCHANGED <<chainVars, views, submission, layout, lost, gate>>

(* What the presenter refuses; the token has been taken all the same.      *)
FrameRefused ==
    \/ lost \/ submission # <<>>
    \/ tokens.chain + 1 <= tokens.present
    \/ Pins(call.slot) # {} \/ busy[call.slot]

(* The flip is submitted, then its fence and its event are awaited.  A     *)
(* hardware failure at any of these points retains the thread for ever.    *)
PresentFrame ==
    /\ Presenting("frame")
    /\ tokens' = [tokens EXCEPT !.chain = @ + 1]
    /\ call' = IF FrameRefused THEN NoCall ELSE [call EXCEPT !.at = "flip"]
    /\ UNCHANGED <<open, acquired, busy, displayed, views, queueVars, gate>>

PresentRetained ==
    /\ Presenting("flip")
    /\ call' = [call EXCEPT !.at = "retained"]
    /\ UNCHANGED <<chainVars, views, queueVars, gate>>

(* The presenter notes what the display shows and, later and like it       *)
(* without the lock, the swapchain takes the image from the application.   *)
PresentShown ==
    /\ Presenting("flip")
    /\ busy' = [n \in Slots |-> n = call.slot \/ (busy[n] /\ n # displayed)]
    /\ displayed' = call.slot
    /\ tokens' = [tokens EXCEPT !.present = tokens.chain]
    /\ call' = [call EXCEPT !.at = "shown"]
    /\ UNCHANGED <<open, acquired, views, queueVars, gate>>

PresentDone ==
    /\ Presenting("shown")
    /\ acquired' = [acquired EXCEPT ![call.slot] = FALSE]
    /\ call' = NoCall
    /\ UNCHANGED <<open, busy, displayed, tokens, views, queueVars, gate>>

-----------------------------------------------------------------------------
(* Marks are externally synchronised: a call in flight owns those it named. *)
Owned == IF call.op = "acquire" THEN call.signals ELSE {}

SubmitSome ==
    \E record \in Submissions :
        /\ (record.waits \cup record.signals) \cap Owned = {}
        /\ Submit(record)

PresenterStep ==
    \/ AcquireTake \/ AcquireGivesUp
    \/ DrainLook \/ DrainPoll \/ PresentConsume \/ PresentFrame
    \/ PresentRetained \/ PresentShown \/ PresentDone

Next ==
    \/ SubmitSome \/ OtherPolls \/ HostSignals
    \/ \E f \in Fences : ResetFence(f)
    \/ \E n \in Slots : CreateView(n) \/ DestroyView(n)
    \/ CreateSwapchain \/ DestroySwapchain
    \/ \E signals \in SUBSET Marks, patience \in {"bounded", "forever"} :
           AcquireCheck(signals, patience)
    \/ \E slot \in Slots, waits \in SUBSET Semaphores : PresentCheck(slot, waits)
    \/ PresenterStep

Spec     == Init /\ [][Next]_vars
FairSpec == Spec /\ WF_vars(PresenterStep)

-----------------------------------------------------------------------------
(* An image has one owner: what the display scans out is neither held by   *)
(* the application nor named by queued work, at most one image is out, and *)
(* the image of a flip under way is named by no queued work.  Only the     *)
(* present that shows an image still holds it while it is already on       *)
(* display.                                                                *)
DisplayedIsUntouched ==
    /\ \A n \in Slots : busy[n] =>
           /\ ~acquired[n] \/ (Presenting("shown") /\ n = call.slot)
           /\ ~Names(n) /\ displayed = n
    /\ Presenting("flip") => ~Names(call.slot) /\ acquired[call.slot] /\ ~busy[call.slot]

(* A present that has consumed its wait semaphores shows its image: it     *)
(* fails only before (vkQueuePresentKHR consumes first and asks the        *)
(* presenter afterwards).                                                  *)
ConsumedMeansShown ==
    [][Presenting("frame") => call'.op = "present"]_vars

(* A stalled GPU, or a timeline value nobody publishes, does not keep a    *)
(* present in its drain.                                                   *)
DrainEnds == Presenting("look") ~> ~(Presenting("look") \/ Presenting("poll"))
=============================================================================
