# Verification of the ps5-vulkan driver

TLA+ models of the parts of this Vulkan driver in which order, concurrency and
failure decide whether it is correct, the TLC runs that check them on small
instances, and the theorems TLAPS proves of them for every instance.

## 1. The system

A Vulkan implementation over one native GPU queue.  Application threads call
`vk*` functions; nothing runs in the background.  The only moving parts besides
the callers are the GPU, which finishes the one native batch in flight, and the
display.

| Component | State it keeps | Operations | Interacts with |
|---|---|---|---|
| Submission queue (`src/vk_queue.c`) | `d->submission` (list of segments), `queue.next_serial`, `queue.completed_serial`, `d->lost`, the device lock | `vkQueueSubmit`, `vkQueueWaitIdle`, `ps5vk_queue_poll` (progress hook of every waiting call), `start_submission` | everything below; the backend by prepare, launch, poll, release |
| Segmentation (`expand_records`, `segment_operations`) | none (pure) | a record's command buffers become ordered frontend and backend segments | recorded operations in, segments out |
| Semaphores and events (`src/vk_sync.c`) | payloads, `pending` counts; event bits, `pending`, `pending_waits` | signal, wait, counter query; set, reset | published by retirement; pinned by submission; drive the queue |
| Fences (`src/vk_fence.c`) | `signaled`, `pending_serial` | wait, status, reset | set by submission, published by retirement |
| Command buffers (`src/vk_command.c`, `vk_transfer.c`, ...) | state, `pending_count`, operations, parents | record, reset, execute secondaries | validated and pinned by submission |
| Queue router and native backends (`src/vk_queue_router.c`, `native/queue_ps5.c`, `native/graphics_queue_ps5.c`) | the jobs | prepare, launch, poll, release | the GPU; layout transactions; query publication |
| Compilation cache (`src/compilation_cache.c`, `native/runtime_graphics_cache.c`) | entries with reference counts, budgets, order of use | lookup, insert with eviction, release | pipeline creation on several threads |
| Swapchain (`src/vk_swapchain.c`, `src/ps5vk_present.c`) | owner of each image | acquire, present | drains the queue with a timeout, consumes and signals semaphores and fences |
| Query pools (`src/vk_query_pool.c`) | state of each query | reset, begin, end, results with wait | queue segments, host resets |
| Image layouts (`src/image_layout_state.c`) | committed layout, a transaction per job | stage, validate, commit | prepare and completion of jobs |
| Tessellation rings (`native/graphics_queue_ps5.c`, `native/tess_ring_lease.c`, `native/tess_shared_storage.c`) | two registers of the console, `ring_owner`, a lease of each per job, references to the storage | bind, submit, restore; create, destroy | the jobs of every device of the process; the console's driver |
| Objects (`src/vk_memory.c`, `vk_image_view.c`, `vk_framebuffer.c`, ...) | what each is made of, `pending` | create, bind, destroy | recordings, by `d->invalidate`; the queue, by pins |
| Descriptors (`src/vk_descriptor.c`) | pool capacities, set generations | allocate, update, free, reset | recordings; generations checked at submission |
| Memory coherence (`src/vk_memory.c`) | mapped ranges to flush | map, write back, invalidate | before launch, after completion |
| Pipelines, compiler, packet encoders, formats | immutable results | translation | no interaction of their own |

What is hard about it: every waiting call drives the same queue, so any step of
the queue may run on any thread; `vkQueueSubmit` gives the device lock up while
it drains; validation and execution are separated by queued work that has not
run; one record is split into many segments which share lifetimes; host signals
race queued signals; and after a failure half-way the device is lost and must
publish nothing more.  The hazards of `PROJECT.json` list these at their lines.

What makes each part correct: the queue is first-in first-out and accepts a
submission whole or not at all; timeline payloads only grow; an accepted
submission never loses the device for want of a semaphore; fences and lifetime
counts agree with the queued work; the backend sees each job prepared, launched
and released once, one in flight; segmentation neither drops, repeats nor
reorders work; `vkQueueSubmit` returns and waiters make progress.  Of the cache: an
entry lives as long as its users, the budgets hold, a program is stored no more
often than threads compiled it at once, and the least recently used goes first.
Of jobs: what a job found when it was prepared still holds when it commits, its
command arenas outlive the GPU's use of them, and results never overtake resets.
Of the rings: a running job finds its own, and whoever finds them free finds them as
the console left them.  Of the swapchain: an image has one owner, and a present
that has spent its semaphores shows its image.  Of objects: what the queue runs and
what a recording names exists, and is what was recorded.

## 2. Modules

| Module | Models | Of |
|---|---|---|
| `Segments` | segmentation as operators over recordings | `src/vk_queue.c` 771-1029 |
| `SegmentsProofs` | lemmas about what those operators return | |
| `Recorder` | every recording submission accepts, one `vkCmd*` at a time | `command_valid` |
| `RecorderProofs` | theorems about `Recorder` | |
| `Queue` | the queue, its threads, lock, semaphores, events, fences, pins, jobs | `src/vk_queue.c`, `src/vk_sync.c`, `src/vk_fence.c` |
| `QueueSpec` | what the queue promises: an atomic FIFO of records | the contract, no code of its own |
| `MCQueue` | instances for TLC; its segments are computed by `Segments` from recordings | |
| `QueueProofs` | theorems about `Queue`: serials, payloads and fences; jobs, progress and a lost device; lifetime counts; binary payloads, and that it implements `QueueSpec` | |
| `CompilationCache` | compiled programs, their leases and eviction | `src/compilation_cache.c`, the compute pipelines of `src/vk_pipeline.c` |
| `MCCompilationCache`, `CompilationCacheProofs` | its instance for TLC, its theorems | |
| `Swapchain` | images between application, queue and display; a present and its bounded drain | `src/vk_swapchain.c`, `native/present_ps5.c` |
| `MCSwapchain`, `SwapchainProofs` | its instance for TLC, its theorems | |
| `TessRing` | the ring registers of the console, borrowed by one job of one device at a time | `native/graphics_queue_ps5.c`, `native/tess_ring_lease.c`, `native/tess_shared_storage.c` |
| `TessRingProofs` | its theorems | |
| `GraphicsJobs` | jobs with their layouts, queries and arenas, and threads that wait for query results | `src/vk_queue_router.c`, `native/graphics_queue_ps5.c`, `src/image_layout_state.c`, `src/vk_query_pool.c` |
| `MCGraphicsJobs`, `GraphicsJobsProofs` | its instances for TLC, its theorems | |
| `Lifetimes` | objects, the recordings that name them, and the queue that runs those | `src/vk_command.c`, `src/vk_memory.c`, `src/vk_image_view.c`, `src/vk_framebuffer.c`, `src/vk_descriptor.c`, `pin` in `src/vk_queue.c` |
| `MCLifetimes`, `LifetimesProofs` | its instance for TLC (segments are computed by `Segments`), its theorems | |

### 2.1 Segments and Recorder

A recorded operation is abstracted to the kinds segmentation tells apart (host
work, event operations, indirect dispatch and draw, brackets of a render pass,
`vkCmdExecuteCommands`, other backend work).  `SegmentOperations` is the walk of
`segment_operations` as a recursive function over (buffer, index), `PassSegment`
is `emit_render_pass_segment`, `ExpandRecord` is `expand_records` for the buffers
of one record.  `Recorder` grows one primary by the scope rules `command_valid`
checks (draws inside a pass, plain children outside, continuation children
inside a pass begun for secondaries, no pass without work unless it has the narrow
shape of `ps5vk_dxvk_bgra8_clear_only_pass`, whose clear is its work), with the contents of a plain
and a continuation secondary chosen initially.  At most one `vkCmdExecuteCommands`
names two children, the same one twice.

### 2.2 Queue

One thread is one application thread.  `pc` says where it is in its call, `call`
holds the arguments.  A critical section of the device lock is split into the
steps of the code it runs:

* `AdmitSubmit` the checks before the drain; `DrainSubmit` one turn of
  `drain_locked` (ends, fails, or unlocks for a pause); `BuildRecord` validation
  of one `VkSubmitInfo` against the replayed end state (`find_state`) and its
  expansion; `PrepareJob` one turn of the loop over the chain: `deferred_prepare` of
  the next segment and, unless it is deferred, the preparation of its native job;
  `CommitSubmit` serials, fence, reference counts, `pin`, append; `RefuseSubmit` the
  failures, before that loop or at any turn of it, that make `discard_chain` release
  the jobs of the segments before (`PreparedInChain`, `Discarded`).
* `Progress`, `PollNothing`, `PollStart`, `PollPending`, `PollFailed`,
  `PollComplete` are `ps5vk_queue_poll` and `poll_locked`; `StartDone`,
  `ConsumeWaits`, `ExecuteFrontend`, `FrontendFailed`, `RetireEmpty`,
  `LaunchHead`, `LaunchFailed` are the loop of `start_submission`.
* `SignalCall`, `SignalSemaphore`, `SignalReturns` are `vkSignalSemaphore` (its
  test of `d->lost` is outside the lock, hence a step of its own);
  `Wait...` the polling loops of `vkWaitSemaphores` and `vkWaitForFences`;
  `EventCall`, `SetEvent`, `ResetEvent` the event calls, which take no lock.
* `Complete` is the GPU, external to the repository.

What a buffer recorded is constant (`Expansion`, `EventRefs`, `EventWaitRefs`,
`Secondaries`).  The lifetime counts modelled are those of semaphores, events
and command buffers; pipelines, sets, views and images follow the same `pin` and
are left out.  Left out as well: structure-type and handle checks, allocation
arithmetic, a missing `pause` or backend hook, a device without host memory to
write back.  `vkWaitForFences` reads the pending serials of its fences one by one
under the lock and is modelled as one read.  A semaphore is named at most once
as a wait and once as a signal of a record.  Fences start unsignaled.

Application rules assumed (Vulkan's external synchronisation): queue calls do
not overlap (`QueueIsFree`); a buffer is re-recorded only when it is not
pending, and a secondary only when no primary naming it pends.

### 2.3 CompilationCache

Every operation of the cache is one critical section of its mutex; compiling is
outside.  `LookupHit`, `LookupMiss` are `ps5vk_compilation_cache_lookup`;
`Insert` starts `insert_entry`, whose eviction loop is one `Evict` per turn with
the mutex held, and which ends in `Store` or `Refuse` (entries in use leave no
room, or allocation fails); `Release` is `ps5vk_cache_entry_release`.  They are
called from `create_pipeline_inner` (`Begin`, `CompileFails`, `Finish`, `GiveUp`
with its failures after the lookup) and `vkDestroyPipeline`.  A hash chain is
abstracted to the entries of one key, latest first, since a lookup skips the
others; an entry is identified by its memory, which is reused after it is freed.
Building the key, the content of programs, the statistics that steer nothing,
graphics payloads and destroying the cache are left out.  A pipeline that work
in flight keeps alive is not destroyed; the model need not distinguish it from
one the application has not destroyed yet.

### 2.4 Swapchain

One thread makes the swapchain calls, and `call` says where it is in one.
`AcquireCheck` tests the mark (semaphore or fence) an acquire will signal,
`AcquireTake` or `AcquireGivesUp` end it; a present is `PresentCheck`, then
`drain_before_present` turn by turn (`DrainLook`, `DrainPoll`, `DrainGoesOn` or its
ends), `PresentConsume` which takes the wait semaphores, `PresentFrame` and
`PresentRetained`, the presenter's copy and flip, `PresentShown` where it notes what
the display shows and `PresentDone` where the swapchain takes the image from the
application, both without the lock.  The queue is
that of `Queue` reduced to what a present reads: the records in order, their
marks, their image and whether the head still waits for a timeline value; `Poll`,
`OtherPolls` and `HostSignals` move it from other threads.  On a lost device queued
records stay for ever, so closing the swapchain is refused from then on.

Assumed of the application is what Vulkan asks for and the code does not check:
the queue belongs to the presenting thread during a present (`SubmitSome`), and
the mark of an acquire is used by nobody else meanwhile (`Owned`).  Surfaces,
formats and the copy into the display buffer are left out.

### 2.5 TessRing

A job that tessellates points two registers of the console (the factor ring and the
off-chip buffer) at the storage of its device and puts back what it found.  The
registers belong to the process, so devices contend for them across their locks.
`Claim` is the compare-and-exchange of `ring_owner`; `Save`, `Set`, `Check` bind
one register and `RollBack` undoes it; `Undo`, `Restored`, `Undone` restore.
Every call into the console's driver is a step of its own: a setter may fail with
or without effect and a getter may fail or read something else, whatever the
registers hold.  `CreatePipeline` and `DestroyPipeline` count references to the
storage.  A launch that finds the rings taken fails, which costs its device; that
is the code's choice and no property forbids it.

### 2.6 GraphicsJobs

What a buffer recorded is constant: segments of host work or native work with the
layouts they expect and leave, the queries they reset and count, and the number
of command arenas.  `Submit` is `vkQueueSubmit` after its drain: work with
nothing deferred in front of it is prepared at once (`Preparable`, `Prepared`: the
router's refusal of mixed segments and the snapshot of the committed layouts).
`StartEnds`, `ExecuteFrontend`, `LaunchHead` are turns of `start_submission`, with
`holder` inside it; a deferred job that cannot be prepared, or a launch whose
submission or suspend point fails (`LaunchFails`), loses the device, the latter with
the commands on the GPU or not.  `PollStart`, `NextArena`, `PollComplete`, `PollFails`,
`PollRunning` are the poll, which reads the label of the arena launched last,
submits the next arena or publishes queries and commits layouts.  `GpuRetires` and
`Elapse` are the GPU, which may hang, and the clock.  `HostReset` is
`vkResetQueryPool` and `GetResults`, `WaitLook`, `WaitQueued`, `WaitPoll`, `WaitAgain`,
`WaitReturns` are `vkGetQueryPoolResults` with its wait; they read and write queries
without the device lock, so each look is a step.

Layouts belong to an image or to one aspect of it; subresource ranges, timestamps,
the layout of results and the encoding of packets are left out.  Compute jobs are
jobs of one arena without layouts.

### 2.7 Lifetimes

`over[o]` says what an object is made of (the memory of a resource, the resource of
a view, the views of a framebuffer, the contents of a set).  `Create...`, `Bound`,
`AllocateSet`, `Write` build; `Destroy`, `DestroyFramebuffer`, `FreeMemory`, `FreeSets`
take down after asking `d->invalidate` (`Held` refuses, `Invalidate` drops the
recordings and, through their parents, those that execute them).  `Begin`, `Bind`,
`FillBuffer`, `WaitEvents`, `RenderPass`, `ExecuteCommands`, `End`, `ClearBuffers` are
recording; `Submit` validates (`CommandValid`, with the generations of sets), cuts
into segments by `Segments` and pins; `Retire` unpins.

Decisions:

* Imageless framebuffers, secondaries inside render passes (`Recorder` covers their
  segmentation) and pipeline variants are left out; pipelines are pinned as sets
  are; a copy of descriptors is a rewrite of the target; a set has one descriptor;
  pools of sets are one pool.
* An invalid recording is dropped at once: the driver never reads one before it
  clears it.  The head is not validated again at its turn, as the code does not.
* A name comes back for a new object (memory is reused), also while a set still
  holds the old one: the set then names the new object, as a pointer does.
* Assumed of the application: what it records exists, is backed, and its sets may
  be consumed (`Consumable`), so binding a set whose view is already gone is left
  out, although `vkCmdBindDescriptorSets` does not look; a secondary is left alone
  while a primary that names it is pending (`LeftAlone`), so that `pin` overwriting
  the poison of a pending primary is left out; calls come one at a time.  It may
  destroy anything at any time.
* Creating an object checks what decides whether it may name others (the memory of
  an image under a view, of the images under a framebuffer); formats, usages and
  extents are left out.
* The secondary of a continuation keeps the render pass and framebuffer it
  inherits without `references()` seeing them; since they are outside the recording
  proper, no property speaks of them.

## 3. Runs

| Run | Module | Question |
|---|---|---|
| `recorder` | Recorder | Does segmentation keep every operation, in order, with host work alone and indirect work deferred? |
| `recorder_pass` | Recorder | The comment at `src/vk_queue.c:925`, refuted by the code (section 5) |
| `queue_sync` | MCQueue | Semaphores, serials and fences with two threads; refinement of the FIFO promise |
| `queue_events` | MCQueue | Pins, time of preparation, backend use and progress with segments, events, secondaries |
| `queue_faults` | MCQueue | Any prepare, launch, poll or copy may fail |
| `queue_live` | MCQueue | Liveness of submission and of fence waits |
| `cache` | MCCompilationCache | Leases, budgets, copies and eviction with two threads creating and destroying pipelines |
| `swapchain` | MCSwapchain | Has an image one owner, is a present shown once its semaphores are spent, and does its drain end, while another thread drives the queue and the GPU stalls? |
| `tess_ring` | TessRing | Are the rings a job's own while it runs and given back as found, whatever call of the console's driver fails? |
| `jobs` | MCGraphicsJobs | Do layouts hold from prepare to commit, results stay behind resets, arenas outlive the GPU, and waits for results end? |
| `jobs_two_batches` | MCGraphicsJobs | The comment at `src/image_layout_state.h:40`, refuted by the code (section 5) |
| `lifetimes` | MCLifetimes | Does what the queue runs and what recordings name exist, is it as recorded, and do the counts add up? |

Bounds, and why they are enough:

* Two threads: every race here is between a queue call and one other call; a
  third thread repeats the second's role.  Thread symmetry is used for safety
  runs only.
* `MaxSerial` is both the width of the serial counter and the bound of a run;
  with 4 to 9 serials the counter runs out in the middle of a submission, which
  is how the exhaustion check of line 1206 is exercised.  The value 2^64 - 1 plays no other
  role.  `MaxValue` bounds timeline values; every submitted and host value is
  chosen so that some lie below, at and above those queued.
* `queue_sync`: a work waiting for a host value, a binary hand-over across and
  inside a submission, signals of value 4 and of the binary semaphore queued behind
  blocked work that will signal 2 and consume the binary one: the replay meets blocked heads, half-executed heads and conflicting
  values.
* `queue_faults`: one submission prepares a job before a segment whose preparation
  may fail, so a submission is refused half-way with jobs to release.
* `queue_events`: an event wait with work after it, a pair of a device set and a
  parent whose child waits, host work behind a timeline value, indirect work with
  ordinary work in one record; buffers with and without simultaneous use, one
  of them one-time.
* `recorder`: primaries of five operations and secondaries of at most one: enough
  for begin, execute, end with an operation on either side; the split of the finding
  already shows at four.
* `cache`: five programs of sizes 1, 1, 3, 4 and 7 under budgets of two entries
  and six bytes, so that either budget alone forces an eviction, one insertion
  needs two turns of it, entries in use block it, and one program never fits.
  Three pipelines and two threads can hold both entries and ask for a third.  Here
  deadlock is not checked because the system may stop with nothing to do.
* Deadlock is not checked for the queue either: applications owe no calls, the serials run out, and
  event waits may block for ever (below).
* `swapchain`: two images, one semaphore and one fence as marks, work that waits on
  the semaphore, signals it, or waits for a timeline value, for either image or
  none; a drain of few polls, so that it is given up with the queue still blocked.
* `tess_ring`: two devices and two pipelines: a register has at most one borrower
  and one contender; more of them repeat the contender.  Deadlock is not checked:
  devices that retained their thread or are lost stop.
* `jobs`: two threads, two images, two layouts, one query, three serials to hand out.
  The calls have one or two batches, jobs of one and two arenas, host work in
  front, a timeline wait, and a mixed segment that is refused when it reaches the head.
  Nothing stronger than three jobs is needed: one running, one prepared behind it,
  one deferred.
* `lifetimes`: one object of each kind, a primary and a secondary that record one
  operation each (so the primary either works or executes the secondary), three
  writes to the set, three queued segments.  A set may be freed and come back under
  its old name, with its generation counted from one again.  The primary is recorded for
  simultaneous use, so it may be queued more than once; the secondary also for one
  submission.  The usage without either flag is a subset of the behaviours of
  simultaneous use and not in the instance.

Fairness, in three runs.  `queue_live`: a thread inside a critical section keeps
running (weak fairness of `HoldsLock`), and a thread that asks for the lock again and
again eventually gets it (strong fairness of `TakesLock`: the holder releases
it at every pause and at the end of every call, each pause sleeps or yields, and the mutex
wakes its waiters).  The GPU completes what it runs (weak fairness of `Complete`).
No fairness of `NewCall`: applications owe nothing.  `swapchain`: the presenting
thread goes on (weak fairness of `PresenterStep`); nothing of the GPU, so `DrainEnds`
rests on the bound of the drain alone.  `jobs`: the lock is not held for
ever (weak fairness of `StartSubmission`), the clock goes on (`Elapse`) and waiting
threads keep polling (each `Wait(t)`); nothing of the GPU or of other calls.

## 4. Proofs

`QueueProofs` proves, for arbitrary constants satisfying `QueueAssumption` and
so for any number of threads, recordings, timelines and fences, with failures or without, in
four parts.  Serials, payloads and fences:

* `TypeCorrect`: `Spec => []TypeOK`
* `SerialsStayInOrder`: `Spec => []SerialsInOrder`
* `PayloadsNeverShrink`: `Spec => PayloadsOnlyGrow`
* `SignalsStayAhead`: `Spec => []SignalsAhead`
* `FencesStayMatched`: `Spec => []FencesMatchQueue`

The argument.  `StepKinds` shows that a step of `Next` treats the queue in one of
a few ways: quiet, build, mark (consume or launch the head), retire, commit, host
signal, fence reset; each invariant is then preserved kind by kind.
`SerialsInOrder` is inductive on top of the type invariant.  `SignalsAhead` is not:
the values were compared with the queue when the chain was built, and the chain
is appended later.  `SignalsPromised` adds that the chain itself rises and lies
above what is queued and published, and `Locking` (the owner of the lock is the only
thread in a critical section and without a builder there is no chain) shows
that no other thread moves a payload in between.  `FencesMatchQueue` is not inductive
either: the fence is checked in `AdmitSubmit`, the lock is given up while
draining, and the fence is used in `CommitSubmit`.  `FenceAdmitted` keeps the
check true in between, from `QueueCalls`: only one queue call is under way, and
only a queue call makes a fence pending.  A step of another thread can retire a
record but never its fence.

`PayloadsOnlyGrow` follows from the types of one step, since `RetireSignals` and
`MayPublish` both compare; it needs no inductive invariant besides typing.

Native jobs and progress:

* `BackendWithinContract`: `Spec => []BackendContract`
* `PreparedWhenFixed`: `Spec => []PreparedInTime`
* `QueueNeverStalls`: `Spec => []NothingStalls`
* `LostStaysSilent`: `Spec => LostPublishesNothing`

A job is as far as its segment (`JobsFollow`, `Assigning`): prepared from its turn in
the chain on and while it is queued, running
or done at a head whose waits are consumed, released behind the queue.  That a head
is launched once needs where the threads are (`Startable`): a thread in
`start_submission` finds a head that does not run, one that builds records finds the
queue drained, and neither is there on a lost device.  `NothingStalls` speaks of the moments when
nobody is in the queue; its invariant adds that otherwise somebody is about to
drive it (`Driven`) or has left it settled (`Settled`).  `PreparedInTime` is proved by
its generalisation over queue and payloads (`InTime`): payloads only grow, so a wait
that was met stays met (`MetStays`).  `LostPublishesNothing` follows from `Startable`
in one step.

Lifetime counts:

* `PinsStayMatched`: `Spec => []PinsMatchQueue`

The pending count of a semaphore is the number of positions of the queue at which a
record waits for it or signals it, that of a buffer the number of places in records that
name it, and an event is pinned by the buffers that are pending and use it.  The invariant is
inductive on top of the type invariant, but its numbers are cardinalities: those of a
queue with a suffix appended or its head removed have to be taken apart first.  Then
`pin` adds what the suffix counts, `unpin` takes what the head counts (a buffer whose
count ends at zero loses its events with it), and every other kind of step leaves the
names in the records as they are.

That the queue is what an application takes it for:

* `ReplaysStayValid`: `Spec => []BinariesReplay`
* `QueueKeepsPromise`: `Spec => ImplementsPromise`

A binary semaphore is seen in three ways: `find_state` looks for the last record that
waits for it or signals it (`After`), `BinariesReplay` for the nearest one in front of a
record (`Nearest`), and `QueueSpec` counts signals and waits (`Level`).  The three
agree about a list of records each of which waits and signals only as those before it allow
(`Consistent`), and they go on agreeing when a record is appended, consumes its
waits or leaves the head.  The invariant is that of the queued records followed by
those being built (`Replays`), for a validated record is appended only when all of
its call are; a record that starts finds its semaphores signaled, so the step of
`start_submission` that loses the device for a missing signal is never taken.
Each step then maps to one step of `QueueSpec` or to none: `CommitSubmit` to
`Submit`, `ConsumeWaits` to `Start`, `Retires` to `Retire`, a host signal to
`HostSignal` (or to no step where it is refused), `ResetFence` to itself, a failure to `Lose`, and building, launching,
draining and waiting to no step.  It uses `SignalsPromised` and `FenceAdmitted`
(what was validated before the lock was given up is still so), `Startable`, and
that a head which needs a job has it or may build it (`Preparable`), so that
only a failing backend makes a launch fail.

`RecorderProofs` proves, for recordings of any length, buffers and secondaries:

* `RecordedInvariant`: `Spec => []RecorderInv`
* `FrontendAlone`: `Spec => []FrontendStandsAlone`
* `IndirectDeferred`: `Spec => []IndirectIsDeferred`
* `ParentLast`: `Spec => []ParentOutlivesChildren`
* `InlinePassWhole`: `Spec => []InlinePassIsWhole`
* `OrderKept`: `Spec => []RecordedOrderKept`
* `OperationsOnce`: `Spec => []EveryOperationOnce`

None of the six is inductive: they speak of what submission makes of a recording,
which means nothing while a pass is open.  `RecorderInv` says what each buffer may
hold and what an open pass holds so far.  The rest is about segmentation, in
`SegmentsProofs`: the pieces of the walk follow each other from the first
operation to behind the last (`StartsWalk`), and what is concatenated per piece
is what would be concatenated per operation (`Regroup`).  The walk and
`FlattenSeq` need induction, and the theorems of the library that state it take an
operator, which the provers cannot instantiate.  Here it is over sets:
`LeastNumber` gives a least member of any set of numbers, from the
well-foundedness of strict inclusion on finite sets, which is stated of sets, and
`UpwardInduction` and `DownwardInduction` follow.  `FlattenSums` gives the
flattening of a sequence as partial concatenations, and what else is said of
`FlattenSeq` follows from those.

`CompilationCacheProofs` proves `TypeCorrect`, `LeasesStayCounted`
(`LeasesCounted`), `CopiesStayBounded` (`CopiesBounded`),
`LeastRecentGoesFirst` (`EvictsLeastRecent`) and `BudgetsHold` (`WithinBudget`).  A hit counts a use of the first entry of a
chain and an eviction frees an entry of the order of use, so `LeasesCounted` needs
`Indexed`: both lists hold entries of the cache, each once.  A finished creation hands
the lease of a thread to a pipeline, so it needs `OneMaker`: that pipeline had none.
`CopiesBounded` is inductive on top, and `EvictsLeastRecent` is a property of one
step from this invariant.  `WithinBudget` says that the counters are the number of stored entries and of the bytes
they stand for, within both budgets, and that the hash table and the order of use hold
each of them once (as many members as positions).  It needs the order of use without
repetition from the invariant above, and what one more or one less entry does to a
cardinality; the rest is that `Store` is reached only when both budgets have room.

`SwapchainProofs` proves `TypeCorrect`, `DisplayStaysApart` (`DisplayedIsUntouched`)
and `ShownOnceConsumed` (`ConsumedMeansShown`).  The second half of a present rests on
its first: the drained queue stays empty (`DrainedStaysEmpty`), its image stays
acquired (`PresentHoldsImage`), a lost device still has the record it was lost with
(`LostKeepsItsRecord`), so an empty queue means a device in order, and the
tokens of the chain are ahead of the presenter's (`TokensAhead`).

`TessRingProofs` proves `TypeCorrect`, `RingsGivenBack` (`GivenBackAsFound`) and
`RingsFound` (`GpuFindsItsRings`).  Neither is inductive: `Sound(d)` says for each
step of a launch and of a completion what the registers and the leases of device
`d` hold, and that a device that borrows is the owner, so a step of another device does
not touch what `Sound(d)` is about.

`GraphicsJobsProofs` proves `TypeCorrect`, `ArenasOutlive` (`CommandsOutliveGpu`),
`ResetsKeepOrder` (`ResetNotOvertaken`) and `SnapshotsStay` (`SnapshotsHold`).  `CommandsOutliveGpu` speaks only of a busy GPU;
`HeadRuns` adds that whatever has been launched, also when the GPU is done with it, is the
head, native, waits for nothing, and nobody is in `start_submission`.  A failed launch may
leave commands on the GPU that do not count as launched; they are the head's all the
same, and a lost device keeps its head.
`ResetNotOvertaken` speaks only of published results; `PromisesFresh` adds that no
reset is newer than queued work that will publish the query, which host resets respect because
`vkResetQueryPool` refuses a query some pending recording names, and queued work is
that of a recording (`Named`).

`SnapshotsStay` has a hypothesis, and needs one: `SnapshotsHold` is false of the calls of
`jobs_two_batches`, which the code accepts (section 5).  `Independent(call)` asks of
a call that of two segments prepared together (native, with no host work and no
wait in front of them in the call) the first leaves the images both name in the
layout it expects them in, and that this is not `VK_IMAGE_LAYOUT_UNDEFINED`.  The calls
of `jobs` are independent, which `MCGraphicsJobs` states as an assumption, so TLC
evaluates it.  Under this hypothesis nothing else can come between preparing and
committing: `Ahead` says that what is prepared is a prefix of the queue, of one call
and native, and that what is committed in front of a job keeps what it found.

`LifetimesProofs` proves

* `NamesStayLive`: `Spec => []RecordingsNameLive`
* `SetsStayRecorded`: `Spec => []SetsAsRecorded`
* `ChildrenStayRecorded`: `Spec => []ChildrenAsRecorded`
* `PinsStayQueued`: `Spec => []PinsAreQueued`
* `GpuFindsLive`: `Spec => []GpuTouchesLive`

None is inductive.  Two invariants are, one on top of the other.  `Inv` is about what
recordings name: it is made of sets and framebuffers, and those change while the recording
exists.  `Layered` says what objects are made of (the views of a live framebuffer
exist, and so do their images), `Sound` what a command buffer may name (no memory,
and nothing once it does not count, so nothing stale comes back when it is begun or
submitted again).  A step that changes objects leaves alone whatever a surviving
recording names (`Untouched`); what a buffer or image is made of does not matter to
recordings, so memory may come and go.

`Whole` adds the queue.  A command buffer is pending exactly when a queued segment has a
part of it, parts lie within recordings that count, and pending counts are tallies of
the queue, taken apart where a segment joins or leaves it (`Queued`).  The recording of a
secondary that a primary names is there unless the primary is invalid (`AllKept`).  What a recording
uses has its memory, and what it attaches has it once the recording is pending
(`AllSupplied`): that closes the gap between naming and touching, since a
framebuffer's images may lose their memory while a recording names them, but not
while the queue runs it.  The steps are of three kinds: changes of objects, with the
recordings they invalidate (`ObjectsChanged`); recording and clearing of buffers,
which leave objects and pending buffers alone (`BuffersChanged`); and `Submit` and
`Retire`.

Assumptions on constants, each evaluated by TLC on its runs: `QueueAssumption`,
`CacheAssumption`, `SwapchainAssumption`, `RingAssumption`, `JobsAssumption` type the
constants.  `LifetimesAssumption` also keeps the kinds of objects apart, and objects
and command buffers (they are different handle types), takes the objects to be
finitely many (the driver allocates each), and says that only render passes name
framebuffers (`vkCmdBeginRenderPass` is the only command that takes one).  That a
call is a sequence of pieces of recordings is not assumed but proved (`ChainPieces`).

Checked by TLC only: liveness, which is out of the prover's reach, for it rests on
fairness and `ENABLED`: `SubmitsReturn`, `WaitersDriveTheQueue`, `DrainEnds` and
`ResultsWaitEnds`.  Every invariant and every action property of a passing run is stated by a
theorem, `SnapshotsHold` under its hypothesis.

## 5. Findings

`recorder_pass`: the comment at `src/vk_queue.c:925` says that a render pass whose
work is named by secondaries is emitted whole before the generic boundary rules
may split it.  The rule is applied only when the walk stands at the begin of
the pass; a run of backend work before it (a dispatch or a barrier) does not stop at the
begin (lines 943-946) and swallows it, after which the pass is split at its
`vkCmdExecuteCommands`.

`jobs_two_batches`: the comment at `src/image_layout_state.h:40` says "Checks all
snapshots before committing any entry; queue serialization prohibits intervening
commits."  `vkQueueSubmit` prepares every native job of a call before the first one
runs (`src/vk_queue.c` 1209-1230).  Two batches of one call that render to one image,
where the first leaves it in another layout and the second expects
`VK_IMAGE_LAYOUT_UNDEFINED`, both snapshot the same layout; the commit of the first
invalidates the snapshot of the second, whose completed work then loses the
device.

Noted while modelling, not checked as findings:

* an event wait nothing queued will set can never be released, because
  `vkSetEvent` is refused while a pending buffer waits; `vkQueueWaitIdle` and the
  drain of the next `vkQueueSubmit` then never return.  Vulkan forbids such a
  submission, so no property promises otherwise.
* the branch of `start_submission` that loses the device for an unsignaled
  binary semaphore is unreachable: `BinariesReplay` is why, and it is proved.
* a deferred segment that mixes compute and graphics passes submission and
  loses the device at the head, where an undeferred one is refused (the call
  `wrong` of `MCGraphicsJobs`).
* two devices that tessellate at once: the second to claim the rings fails its
  launch and is lost.
* after a device is lost its queued records stay for ever, so a swapchain they name is
  not closed and `vkDestroyDevice` is refused.
* a query whose reset is still queued is refused at submission when the use is in
  another call: `CommandValid` looks at the state, not at the queue.
* lists of creation and destruction and the device's object counters are changed
  without the device lock.

## 6. Not modelled

* Translation without interaction: shader compiler, packet encoders, texture
  formats and layouts, copies between texels, synchronization2's masks, device
  properties and entry points, pipeline state, attachment descriptions.  They are
  functions of their arguments, compared against references by the repository's own
  tests, and are most of its lines.
* Code that calls the console's system (`native/memory_ps5.c`,
  `native/platform_ps5.c`): external to any model.  The examples, probes, witnesses
  and conformance adapters are programs about the driver, not part of it.
* Of modelled components: creation and destruction of semaphores and fences;
  capacities of descriptor pools; mapped memory and its flush ranges; timestamps
  and copies of query results; surfaces; transform feedback; building of cache
  keys.  Section 2 names what each module leaves out.

The models hold what the code keeps in shared state and changes from more than
one call; what is left is either data or sequential.

## 7. What could follow

The queue came first, for every other component drives it or is driven by it; then
the swapchain, the rings, the jobs and the objects.  Open, in order of worth:

* one composition of `GraphicsJobs` and `Queue`: both have the queue, each with
  the detail its properties need, and their product is out of TLC's reach;
* capacities of descriptor pools, where a call that allocates several sets fails half-way;
* the flush ranges of mapped memory before launch and after completion.
