----------------------------- MODULE Lifetimes ------------------------------
(***************************************************************************)
(* Which objects command buffers name, and when those objects may go:      *)
(* creation and destruction of memory, buffers, images, views,             *)
(* framebuffers, descriptor sets and pipelines against recordings that     *)
(* name them (src/vk_command.c, vk_memory.c, vk_image_view.c,              *)
(* vk_framebuffer.c, vk_descriptor.c and the destructors that ask          *)
(* d->invalidate), and against the segments of the queue that run them     *)
(* (src/vk_queue.c, pin and command_valid).                                *)
(*                                                                         *)
(* over[o] is what object o is made of: the memory of a buffer or image    *)
(* ({} before it is bound and after its memory is freed), the resource of  *)
(* a view, the views of a framebuffer, what the descriptors of a set name  *)
(* (with the image of each image view, which the driver keeps beside it).  *)
(* Everything else (pipelines, render passes, samplers, events, query      *)
(* pools) is a plain object.                                               *)
(*                                                                         *)
(* The application keeps to the valid usage the driver does not check:     *)
(*   - what it records exists, has memory, and sets hold usable contents;  *)
(*   - a secondary is left alone while a primary that names it is pending; *)
(*   - calls about one device come one at a time.                          *)
(* It may try to destroy or change anything at any time.  The address of a *)
(* destroyed object may come back for a new one, also while a descriptor   *)
(* set still holds it: the driver knows objects by their addresses only.   *)
(***************************************************************************)
EXTENDS Naturals, Sequences, FiniteSets, SequencesExt, Segments

CONSTANTS
    Memories, Buffers, Images, TexelViews, ImageViews, Framebuffers, Plain,
    Sets,           \* descriptor sets, of one pool that frees single sets
    Primaries, Secondaries,
    CommandPools,   \* all created with the flag that lets buffers be reset
    CommandPool,    \* the pool of each command buffer
    Usages,         \* the submission flags of each one's recordings
    Bindable,       \* what may be bound: sets, pipelines, vertex buffers
    Commands,       \* what may be recorded: [kind, uses, sets]
    MaxRecorded,    \* bound: operations of one recording
    MaxGeneration,  \* bound: writes to one set
    MaxQueued       \* bound: segments in the queue

Resources == Buffers \cup Images
Objects   == Memories \cup Resources \cup TexelViews \cup ImageViews
                 \cup Framebuffers \cup Plain \cup Sets
CommandBuffers == Primaries \cup Secondaries

Kinds == <<Memories, Buffers, Images, TexelViews, ImageViews, Framebuffers, Plain, Sets>>

ASSUME LifetimesAssumption ==
    /\ \A j, k \in DOMAIN Kinds : j # k => Kinds[j] \cap Kinds[k] = {}
    /\ Primaries \cap Secondaries = {} /\ Objects \cap CommandBuffers = {}
    /\ IsFiniteSet(Objects)
    /\ CommandPool \in [CommandBuffers -> CommandPools]
    /\ \A m \in Commands : /\ m.kind \in {"host", "wait", "dispatch", "pass"}
                           /\ m.uses \subseteq Objects \ (Sets \cup Memories)
                           /\ m.sets \subseteq Sets
                           /\ m.kind # "pass" => m.uses \cap Framebuffers = {}
    /\ Usages \in [CommandBuffers -> SUBSET {"none", "oneTime", "simultaneous"}]
    /\ Bindable \subseteq Sets \cup Plain \cup Buffers
    /\ {MaxRecorded, MaxGeneration, MaxQueued} \subseteq Nat \ {0}

VARIABLES
    live,       \* the objects that exist
    over,       \* what each is made of
    everBound,  \* the resources that were bound to memory once
    gen,        \* set->generation
    cmd,        \* each command buffer: state, usage, bound, ops
    pins,       \* the pending counts of objects and command buffers
    queue       \* the segments submitted and not retired

objects == <<live, over, everBound, gen>>
vars    == <<objects, cmd, pins, queue>>

(* A command buffer that names nothing.  The driver keeps what an invalid  *)
(* one recorded until it is cleared but does not look at it again.         *)
Nothing(state) ==
    [state |-> state, usage |-> "none", bound |-> {}, ops |-> <<>>]

In(c, states) == cmd[c].state \in states

(* The states in which a recording counts for what it names. *)
Counts(c) == In(c, {"recording", "executable", "pending"})

Init ==
    /\ live = {}
    /\ over = [o \in Objects |-> {}]
    /\ everBound = {}
    /\ gen = [s \in Sets |-> 1]
    /\ cmd = [c \in CommandBuffers |-> Nothing("none")]
    /\ pins = [o \in Objects \cup CommandBuffers |-> 0]
    /\ queue = <<>>

-----------------------------------------------------------------------------
(* What recordings name. *)

(* set_uses *)
SetUses(s) ==
    {s} \cup over[s] \cup (UNION {over[t] : t \in over[s] \cap TexelViews})

(* The attachments of the framebuffer an operation renders to. *)
Attachments(op) == UNION {over[f] : f \in op.uses \cap Framebuffers}

OpUses(op) ==
    op.uses \cup (UNION {SetUses(s) : s \in op.sets})
        \cup Attachments(op) \cup (UNION {over[v] : v \in Attachments(op)})

(* references: everything a recording names, directly or through sets and  *)
(* framebuffers, once it counts.                                           *)
References(c) ==
    IF Counts(c)
    THEN (cmd[c].bound \ Sets)
             \cup (UNION {SetUses(s) : s \in cmd[c].bound \cap Sets})
             \cup (UNION {OpUses(op) : op \in ToSet(cmd[c].ops)})
    ELSE {}

NamesChild(p, child) ==
    \E op \in ToSet(cmd[p].ops) : child \in ToSet(op.children)

(* invalidate_resource refuses while a pending command buffer names o ... *)
Held(o) == \E c \in CommandBuffers : In(c, {"pending"}) /\ o \in References(c)

(* Slip: only finished recordings are invalidated. *)
InvalidateFinished(gone) ==
    [c \in CommandBuffers |->
        IF In(c, {"executable"}) /\ References(c) \cap gone # {}
        THEN Nothing("invalid") ELSE cmd[c]]

(* ... and otherwise invalidates every recording that names one of gone. *)
Invalidate(gone) ==
    [c \in CommandBuffers |->
        IF References(c) \cap gone # {}
        THEN Nothing("invalid") ELSE cmd[c]]

-----------------------------------------------------------------------------
(* Creation and binding. *)

(* A new object takes a free address. *)
Create(o, of) ==
    /\ o \notin live
    /\ live' = live \cup {o}
    /\ over' = [over EXCEPT ![o] = of]
    /\ UNCHANGED <<cmd, pins, queue>>

AllocateMemory(m) == m \in Memories /\ Create(m, {}) /\ UNCHANGED <<everBound, gen>>
CreatePlain(o)    == o \in Plain    /\ Create(o, {}) /\ UNCHANGED <<everBound, gen>>

CreateUnbound(r) ==
    /\ Create(r, {})
    /\ everBound' = everBound \ {r}
    /\ UNCHANGED gen

CreateBuffer(b) == b \in Buffers /\ CreateUnbound(b)
CreateImage(i)  == i \in Images  /\ CreateUnbound(i)

(* A resource is bound to memory once in its life. *)
Bound(r, m) ==
    /\ r \in live \ everBound /\ m \in live
    /\ over' = [over EXCEPT ![r] = {m}]
    /\ everBound' = everBound \cup {r}
    /\ UNCHANGED <<live, gen, cmd, pins, queue>>

BindBufferMemory(b, m) == b \in Buffers /\ Bound(b, m)
BindImageMemory(i, m)  == i \in Images  /\ Bound(i, m)

Backed(r) == r \in live /\ over[r] # {}

(* Views and framebuffers need memory behind what they show; it may be     *)
(* freed under them later.                                                 *)
CreateBufferView(t) ==
    /\ t \in TexelViews
    /\ \E b \in Buffers : Backed(b) /\ Create(t, {b})
    /\ UNCHANGED <<everBound, gen>>

CreateImageView(v) ==
    /\ v \in ImageViews
    /\ \E i \in Images : Backed(i) /\ Create(v, {i})
    /\ UNCHANGED <<everBound, gen>>

CreateFramebuffer(f) ==
    /\ f \in Framebuffers
    /\ \E views \in (SUBSET (ImageViews \cap live)) \ {{}} :
           /\ \A v \in views : \A i \in over[v] : Backed(i)
           /\ Create(f, views)
    /\ UNCHANGED <<everBound, gen>>

(* vkAllocateDescriptorSets *)
AllocateSet(s) ==
    /\ s \in Sets
    /\ Create(s, {})
    /\ gen' = [gen EXCEPT ![s] = 1]
    /\ UNCHANGED everBound

-----------------------------------------------------------------------------
(* Destruction. *)

(* A live object of the given kind that is made of o. *)
Under(o, kind) == \E p \in kind \cap live : o \in over[p]

(* Slip: the pending counts and recordings do not stop a destruction. *)
DestroyableAlways(o) == o \in live

(* Not pending, and no pending recording names it. *)
Destroyable(o) == o \in live /\ pins[o] = 0 /\ ~Held(o)

(* A refused call changes nothing; otherwise recordings that name the      *)
(* object become invalid and it is gone, with what it kept of itself.      *)
Destroy(o) ==
    /\ Destroyable(o)
    /\ live' = live \ {o}
    /\ over' = [over EXCEPT ![o] = {}]
    /\ everBound' = everBound \ {o}
    /\ cmd' = Invalidate({o})
    /\ UNCHANGED <<gen, pins, queue>>

DestroyPlain(o)       == o \in Plain /\ Destroy(o)
DestroyBuffer(b)      == b \in Buffers /\ ~Under(b, TexelViews) /\ Destroy(b)
DestroyBufferView(t)  == t \in TexelViews /\ Destroy(t)
DestroyImage(i)       == i \in Images /\ ~Under(i, ImageViews) /\ Destroy(i)
DestroyImageView(v)   == v \in ImageViews /\ ~Under(v, Framebuffers) /\ Destroy(v)
DestroyFramebuffer(f) == f \in Framebuffers /\ Destroy(f)

(* vkFreeMemory detaches the resources over m, after asking for the images *)
(* and then for the buffers, one by one.  The first that is held stops the *)
(* call: nothing is freed, but the recordings of those asked before it are *)
(* invalid.                                                                *)
FreeMemory(m) ==
    /\ m \in Memories \cap live
    /\ LET users(kind) == {r \in kind \cap live : over[r] = {m}}
           blocked(r)  == Held(r) \/ (r \in Images /\ pins[r] > 0)
           all         == users(Images) \cup users(Buffers)
           held        == {r \in all : blocked(r)}
       IN  \/ /\ held = {}
              /\ live' = live \ {m}
              /\ over' = [r \in Objects |-> IF r \in all THEN {} ELSE over[r]]
              /\ cmd' = Invalidate(all)
           \/ /\ held # {}
              /\ \E asked \in SUBSET (all \ held) :
                     /\ IF held \cap Images # {} THEN asked \subseteq Images
                        ELSE users(Images) \subseteq asked
                     /\ cmd' = Invalidate(asked)
              /\ UNCHANGED <<live, over>>
    /\ UNCHANGED <<everBound, gen, pins, queue>>

-----------------------------------------------------------------------------
(* Descriptor sets. *)

(* What one write may put into a set: a buffer, a view, or an image view   *)
(* with its image; a sampler.                                              *)
Descriptors ==
    {{r} : r \in {b \in Buffers : Backed(b)} \cup (TexelViews \cap live)}
        \cup {{v} \cup over[v] : v \in ImageViews \cap live}

(* Slip: recordings that named the set stay as they are. *)
WriteUnasked(s, contents) ==
    /\ pins[s] = 0 /\ ~Held(s)
    /\ over' = [over EXCEPT ![s] = contents]
    /\ gen' = [gen EXCEPT ![s] = @ + 1]
    /\ UNCHANGED <<live, everBound, cmd, pins, queue>>

Write(s, contents) ==
    /\ pins[s] = 0 /\ ~Held(s)
    /\ over' = [over EXCEPT ![s] = contents]
    /\ gen' = [gen EXCEPT ![s] = @ + 1]
    /\ cmd' = Invalidate({s})
    /\ UNCHANGED <<live, everBound, pins, queue>>

(* vkUpdateDescriptorSets: a write, or a copy, which may move what is no   *)
(* longer usable.                                                          *)
UpdateSet(s) ==
    /\ s \in live /\ gen[s] < MaxGeneration
    /\ \/ \E contents \in Descriptors : Write(s, contents)
       \/ \E source \in (Sets \cap live) \ {s} : Write(s, over[source])

(* vkFreeDescriptorSets and vkResetDescriptorPool, which is refused when   *)
(* one of its sets is held, with the recordings that name the sets asked   *)
(* before it invalid.                                                      *)
FreeSets(sets) ==
    /\ sets # {} /\ sets \subseteq live
    /\ \A s \in sets : pins[s] = 0
    /\ \/ /\ \A s \in sets : ~Held(s)
          /\ live' = live \ sets
          /\ over' = [o \in Objects |-> IF o \in sets THEN {} ELSE over[o]]
          /\ gen' = [s \in Sets |-> IF s \in sets THEN 1 ELSE gen[s]]
          /\ cmd' = Invalidate(sets)
       \/ /\ \E s \in sets : Held(s)
          /\ \E asked \in SUBSET {s \in sets : ~Held(s)} : cmd' = Invalidate(asked)
          /\ UNCHANGED <<live, over, gen>>
    /\ UNCHANGED <<everBound, pins, queue>>

-----------------------------------------------------------------------------
(* Command buffers. *)

(* Valid usage the driver relies on: a secondary is left alone while a     *)
(* primary that names it is pending.                                       *)
LeftAlone(c) == \A p \in Primaries : In(p, {"pending"}) => ~NamesChild(p, c)

(* Slip: the primaries that name what is cleared keep their recordings. *)
ClearedOnly(cleared, become) ==
    [p \in CommandBuffers |->
        IF p \in cleared THEN Nothing(become) ELSE cmd[p]]

(* clear, of each of the given buffers: invalidate_parents_referencing     *)
(* poisons the primaries that name a secondary.                            *)
Cleared(cleared, become) ==
    [p \in CommandBuffers |->
        IF p \in cleared THEN Nothing(become)
        ELSE IF \E c \in cleared \cap Secondaries : NamesChild(p, c)
        THEN Nothing("invalid") ELSE cmd[p]]

(* vkAllocateCommandBuffers *)
AllocateBuffer(c) ==
    /\ In(c, {"none"})
    /\ cmd' = [cmd EXCEPT ![c] = Nothing("initial")]
    /\ UNCHANGED <<objects, pins, queue>>

(* vkResetCommandBuffer, and vkResetCommandPool of all buffers of a pool;  *)
(* vkFreeCommandBuffers and vkDestroyCommandPool likewise.                 *)
ClearBuffers(cleared, become) ==
    /\ \A c \in cleared : ~In(c, {"none", "pending"}) /\ LeftAlone(c)
    /\ cmd' = Cleared(cleared, become)
    /\ UNCHANGED <<objects, pins, queue>>

ResetBuffer(c) == ClearBuffers({c}, "initial")
FreeBuffer(c)  == ClearBuffers({c}, "none")

OfPool(pool) == {c \in CommandBuffers : CommandPool[c] = pool /\ ~In(c, {"none"})}

ResetPool(pool)   == OfPool(pool) # {} /\ ClearBuffers(OfPool(pool), "initial")
DestroyPool(pool) == OfPool(pool) # {} /\ ClearBuffers(OfPool(pool), "none")

(* vkBeginCommandBuffer *)
Begin(c) ==
    /\ In(c, {"initial", "executable", "invalid"}) /\ LeftAlone(c)
    /\ \E usage \in Usages[c] :
           cmd' = [Cleared({c}, "recording") EXCEPT ![c].usage = usage]
    /\ UNCHANGED <<objects, pins, queue>>

(* A set whose descriptors were written and may all be consumed. *)
Consumable(s) ==
    /\ s \in live /\ over[s] # {} /\ over[s] \subseteq live
    /\ \A r \in SetUses(s) \cap Resources : Backed(r)

(* vkCmdBindDescriptorSets, vkCmdBindPipeline, vkCmdBindVertexBuffers: what *)
(* is bound stays named until the recording is cleared.                     *)
Bind(c, o) ==
    /\ In(c, {"recording"}) /\ o \in Bindable
    /\ \/ o \in Sets /\ Consumable(o)
       \/ o \in live \cap Plain
       \/ o \in Buffers /\ Backed(o)
    /\ cmd' = [cmd EXCEPT ![c].bound = @ \cup {o}]
    /\ UNCHANGED <<objects, pins, queue>>

Operation(kind, uses, sets, children) ==
    [kind |-> kind, uses |-> uses, sets |-> sets, children |-> children,
     generations |-> [s \in sets |-> gen[s]],
     \* What was meant, for the properties only.
     contents |-> [s \in sets |-> over[s]],
     recorded |-> [n \in DOMAIN children |-> cmd[children[n]].ops]]

AppendOperation(c, op) == cmd' = [cmd EXCEPT ![c].ops = Append(@, op)]

(* One operation.  Its sets are the bound ones its pipeline reads. *)
Record(c, kind) ==
    /\ In(c, {"recording"}) /\ Len(cmd[c].ops) < MaxRecorded
    /\ \E command \in {m \in Commands : m.kind = kind} :
           /\ command.uses \subseteq live
           /\ \A r \in command.uses \cap Resources : Backed(r)
           /\ \A s \in command.sets : s \in cmd[c].bound /\ Consumable(s)
           /\ AppendOperation(c,
                  Operation(kind, command.uses, command.sets, <<>>))
    /\ UNCHANGED <<objects, pins, queue>>

Dispatch(c)   == Record(c, "dispatch")
FillBuffer(c) == Record(c, "host")
WaitEvents(c) == Record(c, "wait")

(* vkCmdBeginRenderPass to vkCmdEndRenderPass, with the draws between. *)
RenderPass(c) == c \in Primaries /\ Record(c, "pass")

Simultaneous(c) == cmd[c].usage = "simultaneous"
Runnable(c) ==
    In(c, {"executable"}) \/ (In(c, {"pending"}) /\ Simultaneous(c))

(* vkCmdExecuteCommands of one child; a child it refuses spoils the        *)
(* recording.                                                              *)
ExecuteCommands(p, child) ==
    /\ p \in Primaries /\ In(p, {"recording"})
    /\ Len(cmd[p].ops) < MaxRecorded
    /\ ~In(child, {"none"})
    /\ IF Runnable(child)
       THEN AppendOperation(p, Operation("execute", {}, {}, <<child>>))
       ELSE cmd' = [cmd EXCEPT ![p] = Nothing("invalid")]
    /\ UNCHANGED <<objects, pins, queue>>

(* vkEndCommandBuffer *)
End(c) ==
    /\ In(c, {"recording"})
    /\ cmd' = [cmd EXCEPT ![c].state = "executable"]
    /\ UNCHANGED <<objects, pins, queue>>

-----------------------------------------------------------------------------
(* The queue. *)

(* The parts of segments, each by its segment and its place in there.      *)
PartsOf(segs) == UNION {{i} \X DOMAIN segs[i].parts : i \in DOMAIN segs}

PartAt(segs, at) == segs[at[1]].parts[at[2]]

InSegments(segs) == {PartAt(segs, at).buffer : at \in PartsOf(segs)}

Operations(part) ==
    SubSeq(cmd[part.buffer].ops, part.first, part.first + part.count - 1)

(* Through what one operation pins object o.  An image is pinned once for  *)
(* each attachment that views it.                                          *)
PinnedThrough(op, o) ==
    IF op.kind \notin {"dispatch", "pass"} THEN {}
    ELSE {x \in op.uses \cup op.sets \cup Attachments(op) :
             x = o \/ (x \in Attachments(op) /\ o \in over[x])}

(* A part pins its command buffer and what its operations name: one pair   *)
(* for each time it pins o.                                                *)
PartPins(part, o) ==
    LET ops == Operations(part)
    IN  IF o = part.buffer THEN {<<0, o>>}
        ELSE UNION {{k} \X PinnedThrough(ops[k], o) : k \in DOMAIN ops}

SegmentPins(segs, o) ==
    UNION {{at} \X PartPins(PartAt(segs, at), o) : at \in PartsOf(segs)}

(* Events are pinned for as long as a command buffer is pending at all. *)
EventPins(buffers, o) ==
    UNION {{c} \X {k \in DOMAIN cmd[c].ops :
                      cmd[c].ops[k].kind = "wait" /\ o \in cmd[c].ops[k].uses} :
           c \in buffers}

PinsOf(segs, buffers, o) ==
    Cardinality(SegmentPins(segs, o)) + Cardinality(EventPins(buffers, o))

(* pin(s, 1), for all the segments of a submission. *)
Pin(segs) ==
    LET starting == {c \in InSegments(segs) : pins[c] = 0}
    IN  /\ pins' = [o \in DOMAIN pins |-> pins[o] + PinsOf(segs, starting, o)]
        /\ cmd' = [c \in CommandBuffers |->
                      IF c \in InSegments(segs)
                      THEN [cmd[c] EXCEPT !.state = "pending"] ELSE cmd[c]]

(* Slip: a retired segment lets go of its command buffers altogether. *)
UnpinWhole(segs) ==
    /\ pins' = [o \in DOMAIN pins |->
                   IF o \in InSegments(segs) THEN 0
                   ELSE pins[o] - PinsOf(segs, InSegments(segs), o)]
    /\ cmd' = [c \in CommandBuffers |->
                  IF c \notin InSegments(segs) THEN cmd[c]
                  ELSE [cmd[c] EXCEPT !.state = "executable"]]

(* pin(s, 0): a command buffer named by no other segment stops pending. *)
Unpin(segs) ==
    LET ended == {c \in InSegments(segs) :
                     pins[c] = Cardinality(SegmentPins(segs, c))}
    IN  /\ pins' = [o \in DOMAIN pins |-> pins[o] - PinsOf(segs, ended, o)]
        /\ cmd' = [c \in CommandBuffers |->
                      IF c \notin ended THEN cmd[c]
                      ELSE IF cmd[c].usage = "oneTime" THEN Nothing("invalid")
                      ELSE [cmd[c] EXCEPT !.state = "executable"]]

(* command_valid looks at everything the recording names once more. *)
ChildrenValid(op) ==
    \A n \in DOMAIN op.children :
        /\ Runnable(op.children[n])
        /\ Simultaneous(op.children[n]) \/ pins[op.children[n]] = 0

OperationValid(op) ==
    /\ \A s \in op.sets : gen[s] = op.generations[s]
    /\ \A r \in (op.uses \cup (UNION {over[v] : v \in Attachments(op)}))
                    \cap Resources : Backed(r)
    /\ ChildrenValid(op)

CommandValid(p) ==
    /\ Runnable(p)
    /\ \A k \in DOMAIN cmd[p].ops : OperationValid(cmd[p].ops[k])

(* vkQueueSubmit of one primary; one that is refused changes nothing.  The *)
(* same child twice in one primary needs simultaneous use (see Segments).  *)
Submit(p) ==
    LET segs == ExpandRecord([c \in CommandBuffers |-> cmd[c].ops], <<p>>)
    IN  /\ p \in Primaries /\ CommandValid(p)
        /\ Len(queue) + Len(segs) <= MaxQueued
        /\ Pin(segs)
        /\ queue' = queue \o segs
        /\ UNCHANGED objects

(* The segment at the head has run. *)
Retire ==
    /\ queue # <<>>
    /\ Unpin(<<Head(queue)>>)
    /\ queue' = Tail(queue)
    /\ UNCHANGED objects

Next ==
    \/ \E o \in Objects :
           \/ AllocateMemory(o) \/ CreatePlain(o) \/ CreateBuffer(o)
           \/ CreateImage(o) \/ CreateBufferView(o) \/ CreateImageView(o)
           \/ CreateFramebuffer(o) \/ AllocateSet(o)
           \/ DestroyPlain(o) \/ DestroyBuffer(o) \/ DestroyBufferView(o)
           \/ DestroyImage(o) \/ DestroyImageView(o) \/ DestroyFramebuffer(o)
           \/ FreeMemory(o)
           \/ \E m \in Memories : BindBufferMemory(o, m) \/ BindImageMemory(o, m)
    \/ \E s \in Sets : UpdateSet(s)
    \/ \E sets \in SUBSET Sets : FreeSets(sets)
    \/ \E pool \in CommandPools : ResetPool(pool) \/ DestroyPool(pool)
    \/ \E c \in CommandBuffers :
           \/ AllocateBuffer(c) \/ ResetBuffer(c) \/ FreeBuffer(c)
           \/ Begin(c) \/ End(c)
           \/ \E o \in Objects : Bind(c, o)
           \/ Dispatch(c) \/ FillBuffer(c) \/ WaitEvents(c) \/ RenderPass(c)
    \/ \E p \in Primaries :
           \/ \E child \in Secondaries : ExecuteCommands(p, child)
           \/ Submit(p)
    \/ Retire

Spec == Init /\ [][Next]_vars

-----------------------------------------------------------------------------
(* Types. *)

TypeOK ==
    /\ live \subseteq Objects
    /\ over \in [Objects -> SUBSET Objects]
    /\ everBound \subseteq Resources
    /\ gen \in [Sets -> 1..MaxGeneration]
    /\ \A c \in CommandBuffers :
           /\ cmd[c].state \in {"none", "initial", "recording", "executable",
                                "pending", "invalid"}
           /\ cmd[c].usage \in Usages[c] \cup {"none"}
           /\ cmd[c].bound \subseteq Objects
           /\ Len(cmd[c].ops) <= MaxRecorded
    /\ pins \in [Objects \cup CommandBuffers -> Nat]
    /\ Len(queue) <= MaxQueued

-----------------------------------------------------------------------------
(* What must hold. *)

(* Until a segment retires, the recordings it runs are there, everything   *)
(* their operations reach exists, and the buffers and images among it have *)
(* memory, whatever the application tried to destroy, free or rewrite      *)
(* meanwhile (invalidate_resource and the pending counts, vk_command.c:253 *)
(* and vk_queue.c:28).                                                     *)
GpuTouchesLive ==
    \A at \in PartsOf(queue) :
        LET part == PartAt(queue, at)
        IN  /\ part.first + part.count <= Len(cmd[part.buffer].ops) + 1
            /\ \A op \in ToSet(Operations(part)) :
                   /\ OpUses(op) \subseteq live
                   /\ \A r \in OpUses(op) \cap Resources : Backed(r)

(* What recording, submission and the queue read through a command buffer  *)
(* exists: no call walks a recording into an object that was destroyed     *)
(* (vk_command.c:33, "submit-time validation would read freed memory").    *)
RecordingsNameLive ==
    \A c \in CommandBuffers : References(c) \subseteq live

(* A recording that may still run sees each set as it was when the command *)
(* was recorded, also when the set was freed and a new one has its address *)
(* and its generation (vkUpdateDescriptorSets, free_set).                  *)
SetsAsRecorded ==
    \A c \in CommandBuffers : Counts(c) =>
        \A k \in DOMAIN cmd[c].ops : \A s \in cmd[c].ops[k].sets :
            over[s] = cmd[c].ops[k].contents[s]

(* A primary that may still run names secondaries that exist and still     *)
(* hold the recording it named (vk_command.c:29).                          *)
ChildrenAsRecorded ==
    \A p \in Primaries : Counts(p) =>
        \A k \in DOMAIN cmd[p].ops : \A n \in DOMAIN cmd[p].ops[k].children :
            LET child == cmd[p].ops[k].children[n]
            IN  /\ ~In(child, {"none", "initial"})
                /\ Counts(child) => cmd[child].ops = cmd[p].ops[k].recorded[n]

(* The pending counts are what the segments still queued account for, so   *)
(* they are all zero again once the queue is empty, and a command buffer   *)
(* is pending exactly while a segment names it (pin, vk_queue.c:28).       *)
PinsAreQueued ==
    LET pending == InSegments(queue)
    IN  /\ \A o \in DOMAIN pins : pins[o] = PinsOf(queue, pending, o)
        /\ \A c \in CommandBuffers : In(c, {"pending"}) <=> c \in pending
=============================================================================
