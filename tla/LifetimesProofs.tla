-------------------------- MODULE LifetimesProofs --------------------------
(***************************************************************************)
(* Theorems of module Lifetimes, for any objects, command buffers and      *)
(* menus of commands, and any bounds:                                      *)
(*                                                                         *)
(*   NamesStayLive          Spec => []RecordingsNameLive                   *)
(*   SetsStayRecorded       Spec => []SetsAsRecorded                       *)
(*   ChildrenStayRecorded   Spec => []ChildrenAsRecorded                   *)
(*   PinsStayQueued         Spec => []PinsAreQueued                        *)
(*   GpuFindsLive           Spec => []GpuTouchesLive                       *)
(*                                                                         *)
(* None is inductive.  Two invariants are, one on top of the other.        *)
(*                                                                         *)
(* Inv is about what recordings name, which changes while they exist: it   *)
(* adds what objects are made of (Layered: the views of a live framebuffer *)
(* exist, and so do their images) and what a command buffer may have       *)
(* recorded (Sound: no memory; nothing at all once it does not count, so   *)
(* that nothing stale comes back when it is submitted or begun again).     *)
(*                                                                         *)
(* Whole adds the queue.  A pending command buffer is one that a queued    *)
(* segment is of, every queued part lies within its recording, and the     *)
(* pending counts are tallies of the queue, to be split where a segment    *)
(* joins or leaves it (Queued).  The recordings of named secondaries stay  *)
(* or are invalid (AllKept), and what a recording that counts uses keeps   *)
(* its memory, what it attaches once it is pending (AllSupplied).          *)
(*                                                                         *)
(* The steps are of three kinds.  One changes objects and invalidates the  *)
(* recordings that name what it took (ObjectsChanged); one records and     *)
(* clears command buffers and leaves objects and pending buffers alone     *)
(* (BuffersChanged); Submit and Retire change the queue.                   *)
(***************************************************************************)
EXTENDS Lifetimes, SegmentsProofs

(* x is what set s names, when objects are made of what of says, ...       *)
InSet(of, s, x) ==
    x = s \/ x \in of[s] \/ \E t \in of[s] \cap TexelViews : x \in of[t]

(* ... an attachment of an operation, ...                                  *)
Attached(of, op, x) == \E f \in op.uses \cap Framebuffers : x \in of[f]

(* ... what the operation names ...                                        *)
InOperation(of, op, x) ==
    \/ x \in op.uses
    \/ \E s \in op.sets : InSet(of, s, x)
    \/ Attached(of, op, x)
    \/ \E v : Attached(of, op, v) /\ x \in of[v]

(* ... and what a recording names, whether it counts or not.               *)
Named(of, r, x) ==
    \/ x \in r.bound \ Sets
    \/ \E s \in r.bound \cap Sets : InSet(of, s, x)
    \/ \E op \in ToSet(r.ops) : InOperation(of, op, x)

Counting == {"recording", "executable", "pending"}

(* The record of a command buffer.                                         *)
Shaped(r) ==
    /\ r = [state |-> r.state, usage |-> r.usage, bound |-> r.bound, ops |-> r.ops]
    /\ \E S : r.ops \in Seq(S)

(* What it may name.                                                       *)
Allowed(r) ==
    /\ r.bound \subseteq Objects \ Memories
    /\ \A op \in ToSet(r.ops) : /\ op.uses \subseteq Objects \ (Sets \cup Memories)
                                /\ op.sets \subseteq Sets

(* Everything it names exists, and its sets are as they were.              *)
Current(of, alive, r) ==
    /\ \A x : Named(of, r, x) => x \in alive
    /\ \A op \in ToSet(r.ops) : \A s \in op.sets : of[s] = op.contents[s]

Blank(r) == r.bound = {} /\ r.ops = <<>>

Sound(of, alive, r) ==
    /\ Shaped(r) /\ Allowed(r)
    /\ IF r.state \in Counting THEN Current(of, alive, r) ELSE Blank(r)

Layered(of, alive) ==
    /\ of = [o \in Objects |-> of[o]]
    /\ alive \subseteq Objects
    /\ \A t \in TexelViews \cap alive : of[t] \subseteq Buffers \cap alive
    /\ \A v \in ImageViews \cap alive : of[v] \subseteq Images \cap alive
    /\ \A f \in Framebuffers \cap alive : of[f] \subseteq ImageViews \cap alive
    /\ \A s \in Sets \cap alive :
           of[s] \subseteq Resources \cup TexelViews \cup ImageViews

Inv ==
    /\ cmd = [c \in CommandBuffers |-> cmd[c]]
    /\ \A c \in CommandBuffers : Sound(over, live, cmd[c])
    /\ Layered(over, live)

-----------------------------------------------------------------------------
(* Names.                                                                  *)

LEMMA KindsApart ==
    /\ Memories \cap Resources = {} /\ Memories \cap TexelViews = {}
    /\ Memories \cap ImageViews = {} /\ Memories \cap Framebuffers = {}
    /\ Memories \cap Plain = {} /\ Memories \cap Sets = {}
    /\ Resources \cap TexelViews = {} /\ Resources \cap ImageViews = {}
    /\ Resources \cap Framebuffers = {} /\ Resources \cap Plain = {}
    /\ Resources \cap Sets = {} /\ Buffers \cap Images = {}
    /\ TexelViews \cap ImageViews = {} /\ TexelViews \cap Framebuffers = {}
    /\ TexelViews \cap Plain = {} /\ TexelViews \cap Sets = {}
    /\ ImageViews \cap Framebuffers = {} /\ ImageViews \cap Plain = {}
    /\ ImageViews \cap Sets = {} /\ Framebuffers \cap Plain = {}
    /\ Framebuffers \cap Sets = {} /\ Plain \cap Sets = {}
<1>1. \A j, k \in 1..8 : j # k => Kinds[j] \cap Kinds[k] = {}
  BY LifetimesAssumption DEF Kinds
<1>2. /\ Kinds[1] = Memories /\ Kinds[2] = Buffers /\ Kinds[3] = Images
      /\ Kinds[4] = TexelViews /\ Kinds[5] = ImageViews /\ Kinds[6] = Framebuffers
      /\ Kinds[7] = Plain /\ Kinds[8] = Sets
  BY DEF Kinds
<1>3. /\ Memories \cap Buffers = {} /\ Memories \cap Images = {}
      /\ Memories \cap TexelViews = {} /\ Memories \cap ImageViews = {}
      /\ Memories \cap Framebuffers = {} /\ Memories \cap Plain = {}
      /\ Memories \cap Sets = {}
  BY <1>1, <1>2
<1>4. /\ Buffers \cap Images = {} /\ Buffers \cap TexelViews = {}
      /\ Buffers \cap ImageViews = {} /\ Buffers \cap Framebuffers = {}
      /\ Buffers \cap Plain = {} /\ Buffers \cap Sets = {}
  BY <1>1, <1>2
<1>5. /\ Images \cap TexelViews = {} /\ Images \cap ImageViews = {}
      /\ Images \cap Framebuffers = {} /\ Images \cap Plain = {} /\ Images \cap Sets = {}
  BY <1>1, <1>2
<1>6. /\ TexelViews \cap ImageViews = {} /\ TexelViews \cap Framebuffers = {}
      /\ TexelViews \cap Plain = {} /\ TexelViews \cap Sets = {}
      /\ ImageViews \cap Framebuffers = {} /\ ImageViews \cap Plain = {}
      /\ ImageViews \cap Sets = {}
  BY <1>1, <1>2
<1>7. /\ Framebuffers \cap Plain = {} /\ Framebuffers \cap Sets = {} /\ Plain \cap Sets = {}
  BY <1>1, <1>2
<1> QED  BY <1>3, <1>4, <1>5, <1>6, <1>7 DEF Resources

LEMMA SetUsesNamed ==
    ASSUME NEW s, NEW x
    PROVE  x \in SetUses(s) <=> InSet(over, s, x)
BY DEF SetUses, InSet

LEMMA AttachmentsNamed ==
    ASSUME NEW op, NEW x
    PROVE  x \in Attachments(op) <=> Attached(over, op, x)
BY DEF Attachments, Attached

LEMMA OpUsesNamed ==
    ASSUME NEW op, NEW x
    PROVE  x \in OpUses(op) <=> InOperation(over, op, x)
<1>1. x \in OpUses(op) <=>
          \/ x \in op.uses
          \/ \E s \in op.sets : x \in SetUses(s)
          \/ x \in Attachments(op)
          \/ \E v \in Attachments(op) : x \in over[v]
  BY DEF OpUses
<1> QED  BY <1>1, SetUsesNamed, AttachmentsNamed DEF InOperation

LEMMA ReferencesNamed ==
    ASSUME NEW c, NEW x
    PROVE  x \in References(c) <=> cmd[c].state \in Counting /\ Named(over, cmd[c], x)
<1>1. x \in References(c) <=>
          /\ Counts(c)
          /\ \/ x \in cmd[c].bound \ Sets
             \/ \E s \in cmd[c].bound \cap Sets : x \in SetUses(s)
             \/ \E op \in ToSet(cmd[c].ops) : x \in OpUses(op)
  BY DEF References
<1> QED  BY <1>1, SetUsesNamed, OpUsesNamed DEF Named, Counts, In, Counting

LEMMA AppendedSet ==
    ASSUME NEW S, NEW s \in Seq(S), NEW e
    PROVE  /\ ToSet(Append(s, e)) = ToSet(s) \cup {e}
           /\ \E T : Append(s, e) \in Seq(T)
<1>1. s \in Seq(S \cup {e})
  OBVIOUS
<1>2. Append(s, e) \in Seq(S \cup {e})
  BY <1>1
<1>3. /\ DOMAIN Append(s, e) = 1..(Len(s) + 1) /\ DOMAIN s = 1..Len(s) /\ Len(s) \in Nat
      /\ \A i \in 1..Len(s) : Append(s, e)[i] = s[i]
      /\ Append(s, e)[Len(s) + 1] = e
  BY <1>1
<1>4. \A i \in 1..(Len(s) + 1) : i \in 1..Len(s) \/ i = Len(s) + 1
  BY <1>3
<1>5. ToSet(Append(s, e)) = ToSet(s) \cup {e}
  BY <1>3, <1>4 DEF ToSet
<1> QED  BY <1>2, <1>5

(* An empty recording is sound whatever there is.                          *)
LEMMA BlankSound ==
    ASSUME NEW of, NEW alive, NEW state, NEW usage
    PROVE  Sound(of, alive, [state |-> state, usage |-> usage, bound |-> {}, ops |-> <<>>])
<1> DEFINE r == [state |-> state, usage |-> usage, bound |-> {}, ops |-> <<>>]
<1>1. ToSet(<<>>) = {} /\ <<>> \in Seq({})
  BY DEF ToSet
<1>2. Shaped(r)
  BY <1>1 DEF Shaped
<1>3. Allowed(r) /\ Current(of, alive, r) /\ Blank(r)
  BY <1>1 DEF Allowed, Current, Blank, Named
<1> QED  BY <1>2, <1>3 DEF Sound

(* One field of a recording changed, written out.                          *)
LEMMA Fields ==
    ASSUME NEW r, Shaped(r), NEW y
    PROVE  /\ [r EXCEPT !.state = y] =
                  [state |-> y, usage |-> r.usage, bound |-> r.bound, ops |-> r.ops]
           /\ [r EXCEPT !.bound = y] =
                  [state |-> r.state, usage |-> r.usage, bound |-> y, ops |-> r.ops]
           /\ [r EXCEPT !.ops = y] =
                  [state |-> r.state, usage |-> r.usage, bound |-> r.bound, ops |-> y]
<1>1. \A a, b, d, e :
         /\ [[state |-> a, usage |-> b, bound |-> d, ops |-> e] EXCEPT !.state = y]
              = [state |-> y, usage |-> b, bound |-> d, ops |-> e]
         /\ [[state |-> a, usage |-> b, bound |-> d, ops |-> e] EXCEPT !.bound = y]
              = [state |-> a, usage |-> b, bound |-> y, ops |-> e]
         /\ [[state |-> a, usage |-> b, bound |-> d, ops |-> e] EXCEPT !.ops = y]
              = [state |-> a, usage |-> b, bound |-> d, ops |-> y]
  OBVIOUS
<1>2. r = [state |-> r.state, usage |-> r.usage, bound |-> r.bound, ops |-> r.ops]
  BY DEF Shaped
<1> QED  BY ONLY <1>1, <1>2

(* The state of a recording that counts may change to one that counts, and *)
(* that of a blank one to any.                                             *)
LEMMA KeptSound ==
    ASSUME NEW of, NEW alive, NEW r, Sound(of, alive, r), NEW state,
           state \in Counting
    PROVE  Sound(of, alive, [r EXCEPT !.state = state])
<1> DEFINE q == [state |-> state, usage |-> r.usage, bound |-> r.bound, ops |-> r.ops]
<1>1. [r EXCEPT !.state = state] = q
  BY Fields DEF Sound
<1>2. Shaped(q)
  BY DEF Sound, Shaped
<1>3. Allowed(q)
  BY DEF Sound, Allowed
<1>4. Current(of, alive, q)
  <2>1. CASE r.state \in Counting
    BY <2>1 DEF Sound, Current, Named
  <2>2. CASE r.state \notin Counting
    BY <2>2, BlankSound DEF Sound, Blank, Current, Named, ToSet
  <2> QED  BY <2>1, <2>2
<1> QED  BY <1>1, <1>2, <1>3, <1>4 DEF Sound

(* What a sound recording names is layered, and no memory.                 *)
LEMMA Reached ==
    ASSUME NEW of, NEW alive, Layered(of, alive), NEW r, Sound(of, alive, r),
           r.state \in Counting
    PROVE  /\ \A op \in ToSet(r.ops) : \A v : Attached(of, op, v) => v \in ImageViews
           /\ \A x : Named(of, r, x) => x \in alive \ Memories
<1>0. Current(of, alive, r)
  BY DEF Sound
<1>1. ASSUME NEW op \in ToSet(r.ops), NEW v, Attached(of, op, v)
      PROVE  v \in ImageViews
  <2>1. PICK f \in op.uses \cap Framebuffers : v \in of[f]
    BY <1>1 DEF Attached
  <2>2. f \in alive
    BY <1>0, <2>1 DEF Current, Named, InOperation
  <2> QED  BY <2>1, <2>2 DEF Layered
<1>2. ASSUME NEW s \in Sets, NEW x, InSet(of, s, x),
             \A y : InSet(of, s, y) => y \in alive
      PROVE  x \notin Memories
  <2>1. s \in alive
    BY <1>2 DEF InSet
  <2>2. CASE x = s
    BY <2>2, KindsApart
  <2>3. CASE x \in of[s]
    BY <2>1, <2>3, KindsApart DEF Layered
  <2>4. ASSUME NEW t \in of[s] \cap TexelViews, x \in of[t] PROVE x \notin Memories
    <3>1. t \in alive
      BY <1>2 DEF InSet
    <3> QED  BY <2>4, <3>1, KindsApart DEF Layered, Resources
  <2> QED  BY <1>2, <2>2, <2>3, <2>4 DEF InSet
<1>3. ASSUME NEW s \in r.bound \cap Sets, NEW x, InSet(of, s, x)
      PROVE  x \notin Memories
  <2>1. \A y : InSet(of, s, y) => y \in alive
    BY <1>0 DEF Current, Named
  <2> QED  BY <1>2, <1>3, <2>1
<1>4. ASSUME NEW op \in ToSet(r.ops), NEW x, InOperation(of, op, x)
      PROVE  x \notin Memories
  <2>1. \A y : InOperation(of, op, y) => y \in alive
    BY <1>0 DEF Current, Named
  <2>2. CASE x \in op.uses
    BY <2>2 DEF Sound, Allowed
  <2>3. ASSUME NEW s \in op.sets, InSet(of, s, x) PROVE x \notin Memories
    <3>1. s \in Sets
      BY DEF Sound, Allowed
    <3>2. \A y : InSet(of, s, y) => y \in alive
      BY <2>1 DEF InOperation
    <3> QED  BY <1>2, <2>3, <3>1, <3>2
  <2>4. CASE Attached(of, op, x)
    BY <1>1, <2>4, KindsApart
  <2>5. ASSUME NEW v, Attached(of, op, v), x \in of[v] PROVE x \notin Memories
    <3>1. v \in ImageViews \cap alive
      BY <1>1, <2>1, <2>5 DEF InOperation
    <3> QED  BY <2>5, <3>1, KindsApart DEF Layered, Resources
  <2> QED  BY <1>4, <2>2, <2>3, <2>4, <2>5 DEF InOperation
<1>5. ASSUME NEW x, Named(of, r, x) PROVE x \in alive \ Memories
  <2>1. x \in alive
    BY <1>0, <1>5 DEF Current
  <2>2. CASE x \in r.bound \ Sets
    BY <2>1, <2>2 DEF Sound, Allowed
  <2> QED  BY <1>3, <1>4, <1>5, <2>1, <2>2 DEF Named
<1> QED  BY <1>1, <1>5

-----------------------------------------------------------------------------
(* Steps that change objects.                                              *)

(* A recording names the same when everything it names stays, made of the  *)
(* same; what buffers and images are made of does not matter to it.        *)
Unmoved(of, r, of2, alive2) ==
    /\ \A x : Named(of, r, x) => x \in alive2 /\ (x \notin Resources => of2[x] = of[x])
    /\ \A s \in Sets : (\A y : InSet(of, s, y) => Named(of, r, y)) =>
           of2[s] = of[s] /\ \A x : InSet(of2, s, x) => InSet(of, s, x)
    /\ \A op \in ToSet(r.ops) : \A s \in op.sets :
           of2[s] = of[s] /\ \A x : InSet(of2, s, x) => InSet(of, s, x)
    /\ \A op \in ToSet(r.ops) : \A f \in op.uses \cap Framebuffers : of2[f] = of[f]
    /\ \A op \in ToSet(r.ops) : \A v :
           /\ Attached(of2, op, v) => Attached(of, op, v)
           /\ Attached(of, op, v) => of2[v] = of[v]

LEMMA SameNames ==
    ASSUME NEW of, NEW alive, Layered(of, alive), NEW r, Sound(of, alive, r),
           r.state \in Counting, NEW of2, NEW alive2,
           \A o : Named(of, r, o) =>
                      /\ o \in alive \ Memories => o \in alive2
                      /\ o \in alive \ (Memories \cup Resources) => of2[o] = of[o]
    PROVE  Unmoved(of, r, of2, alive2)
<1>1. \A x : Named(of, r, x) => x \in alive2 /\ (x \notin Resources => of2[x] = of[x])
  BY Reached
<1>2. ASSUME NEW s \in Sets, \A y : InSet(of, s, y) => Named(of, r, y), NEW x
      PROVE  of2[s] = of[s] /\ (InSet(of2, s, x) => InSet(of, s, x))
  <2>1. of2[s] = of[s]
    BY <1>1, <1>2, KindsApart DEF InSet
  <2>2. \A t \in of[s] \cap TexelViews : of2[t] = of[t]
    BY <1>1, <1>2, KindsApart DEF InSet
  <2> QED  BY <2>1, <2>2 DEF InSet
<1>3. ASSUME NEW op \in ToSet(r.ops), NEW s \in op.sets, NEW x
      PROVE  of2[s] = of[s] /\ (InSet(of2, s, x) => InSet(of, s, x))
  <2>1. s \in Sets
    BY DEF Sound, Allowed
  <2>2. \A y : InSet(of, s, y) => Named(of, r, y)
    BY DEF Named, InOperation
  <2> QED  BY <1>2, <2>1, <2>2
<1>4. ASSUME NEW op \in ToSet(r.ops), NEW v
      PROVE  Attached(of2, op, v) => Attached(of, op, v)
  <2>1. \A f \in op.uses \cap Framebuffers : of2[f] = of[f]
    BY <1>1, KindsApart DEF Named, InOperation
  <2> QED  BY <2>1 DEF Attached
<1>5. ASSUME NEW op \in ToSet(r.ops), NEW f \in op.uses \cap Framebuffers
      PROVE  of2[f] = of[f]
  BY <1>1, KindsApart DEF Named, InOperation
<1>6. ASSUME NEW op \in ToSet(r.ops), NEW v, Attached(of, op, v)
      PROVE  of2[v] = of[v]
  <2>1. v \in ImageViews
    BY <1>6, Reached
  <2> QED  BY <1>1, <1>6, <2>1, KindsApart DEF Named, InOperation
<1> QED  BY <1>1, <1>2, <1>3, <1>4, <1>5, <1>6 DEF Unmoved

(* So it stays sound.                                                      *)
LEMMA Untouched ==
    ASSUME NEW of, NEW alive, Layered(of, alive), NEW r, Sound(of, alive, r),
           NEW of2, NEW alive2,
           \A o : Named(of, r, o) =>
                      /\ o \in alive \ Memories => o \in alive2
                      /\ o \in alive \ (Memories \cup Resources) => of2[o] = of[o]
    PROVE  Sound(of2, alive2, r)
<1>1. CASE r.state \notin Counting
  BY <1>1 DEF Sound
<1>2. CASE r.state \in Counting
  <2>1. Unmoved(of, r, of2, alive2)
    BY <1>2, SameNames
  <2>2. ASSUME NEW op \in ToSet(r.ops), NEW x, InOperation(of2, op, x)
        PROVE  InOperation(of, op, x)
    BY <2>1, <2>2 DEF InOperation, Unmoved
  <2>3. ASSUME NEW s \in r.bound \cap Sets, NEW x, InSet(of2, s, x)
        PROVE  InSet(of, s, x)
    <3>1. \A y : InSet(of, s, y) => Named(of, r, y)
      BY DEF Named
    <3> QED  BY <2>1, <2>3, <3>1 DEF Unmoved
  <2>4. ASSUME NEW x, Named(of2, r, x) PROVE Named(of, r, x)
    BY <2>2, <2>3, <2>4 DEF Named
  <2>5. \A op \in ToSet(r.ops) : \A s \in op.sets : of2[s] = op.contents[s]
    BY <1>2, <2>1 DEF Sound, Current, Unmoved
  <2> QED  BY <1>2, <2>1, <2>4, <2>5 DEF Sound, Current, Unmoved
<1> QED  BY <1>1, <1>2

(* Of what exists, only what is gone, memories and the memory behind       *)
(* buffers and images change, and the recordings that name what is gone    *)
(* are invalidated; no pending one does.                                   *)
Changed(gone) ==
    /\ cmd' = Invalidate(gone) /\ \A o \in gone : ~Held(o)
    /\ Layered(over', live')
    /\ \A o \in live \ (gone \cup Memories) :
           /\ o \in live'
           /\ o \notin Resources => over'[o] = over[o]
           /\ o \in Resources /\ over[o] # {} => over'[o] # {}
    /\ UNCHANGED <<pins, queue>>

ObjectsChanged == \E gone : Changed(gone)

LEMMA ObjectStep ==
    ASSUME Inv, NEW gone, Changed(gone)
    PROVE  Inv'
<1>0. /\ cmd' = Invalidate(gone) /\ Layered(over', live')
      /\ \A o \in live \ (gone \cup Memories) :
             o \in live' /\ (o \notin Resources => over'[o] = over[o])
  BY DEF Changed
<1>1. cmd' = [c \in CommandBuffers |-> cmd'[c]]
  BY <1>0 DEF Invalidate
<1>2. ASSUME NEW c \in CommandBuffers PROVE Sound(over', live', cmd'[c])
  <2>1. CASE References(c) \cap gone # {}
    <3>1. cmd'[c] = [state |-> "invalid", usage |-> "none", bound |-> {}, ops |-> <<>>]
      BY <1>0, <2>1 DEF Invalidate, Nothing
    <3> QED  BY <3>1, BlankSound
  <2>2. CASE References(c) \cap gone = {}
    <3>1. cmd'[c] = cmd[c]
      BY <1>0, <2>2 DEF Invalidate
    <3>2. Sound(over, live, cmd[c]) /\ Layered(over, live)
      BY DEF Inv
    <3>3. CASE cmd[c].state \notin Counting
      BY <3>1, <3>2, <3>3 DEF Sound
    <3>4. CASE cmd[c].state \in Counting
      <4>1. ASSUME NEW o, Named(over, cmd[c], o)
            PROVE  /\ o \in live \ Memories => o \in live'
                   /\ o \in live \ (Memories \cup Resources) => over'[o] = over[o]
        <5>1. o \notin gone
          BY <2>2, <3>4, <4>1, ReferencesNamed
        <5> QED  BY <1>0, <5>1
      <4>2. Sound(over', live', cmd[c])
        BY <3>2, <4>1, Untouched
      <4> QED  BY <3>1, <4>2
    <3> QED  BY <3>3, <3>4
  <2> QED  BY <2>1, <2>2
<1> QED  BY <1>0, <1>1, <1>2 DEF Inv

LEMMA NobodyInvalidated ==
    ASSUME Inv, cmd' = cmd PROVE cmd' = Invalidate({})
BY DEF Inv, Invalidate

LEMMA CreateStep ==
    ASSUME Inv, NEW o \in Objects, NEW of, Create(o, of),
           o \in TexelViews => of \subseteq Buffers \cap live,
           o \in ImageViews => of \subseteq Images \cap live,
           o \in Framebuffers => of \subseteq ImageViews \cap live,
           o \in Sets => of \subseteq Resources \cup TexelViews \cup ImageViews
    PROVE  ObjectsChanged
<1>1. /\ o \notin live /\ live' = live \cup {o} /\ cmd' = cmd
      /\ over' = [over EXCEPT ![o] = of]
  BY DEF Create
<1>2. Layered(over, live)
  BY DEF Inv
<1>3. /\ over' = [p \in Objects |-> over'[p]] /\ over'[o] = of
      /\ \A p \in Objects \ {o} : over'[p] = over[p]
  BY <1>1, <1>2 DEF Layered
<1>4. Layered(over', live')
  <2>1. live' \subseteq Objects
    BY <1>1, <1>2 DEF Layered
  <2>2. \A t \in TexelViews \cap live' : over'[t] \subseteq Buffers \cap live'
    BY <1>1, <1>2, <1>3 DEF Layered
  <2>3. \A v \in ImageViews \cap live' : over'[v] \subseteq Images \cap live'
    BY <1>1, <1>2, <1>3 DEF Layered
  <2>4. \A f \in Framebuffers \cap live' : over'[f] \subseteq ImageViews \cap live'
    BY <1>1, <1>2, <1>3 DEF Layered
  <2>5. \A s \in Sets \cap live' :
            over'[s] \subseteq Resources \cup TexelViews \cup ImageViews
    BY <1>1, <1>2, <1>3 DEF Layered
  <2> QED  BY <1>3, <2>1, <2>2, <2>3, <2>4, <2>5 DEF Layered
<1>5. \A p \in live : p \in live' /\ over'[p] = over[p]
  BY <1>1, <1>2, <1>3 DEF Layered
<1>6. UNCHANGED <<pins, queue>> /\ cmd' = Invalidate({})
  BY <1>1, NobodyInvalidated DEF Create
<1>7. Changed({})
  BY <1>4, <1>5, <1>6 DEF Changed
<1> QED  BY <1>7 DEF ObjectsChanged

(* The memory of a buffer or image changes, and nothing else.              *)
LEMMA MemoryLayered ==
    ASSUME NEW of, NEW alive, Layered(of, alive), NEW of2,
           of2 = [o \in Objects |-> of2[o]],
           \A o \in Objects \ Resources : of2[o] = of[o],
           NEW alive2, alive2 \subseteq alive,
           \A o \in alive \ Memories : o \in alive2
    PROVE  Layered(of2, alive2)
<1>1. \A o \in alive \ Resources : of2[o] = of[o]
  BY DEF Layered
<1>2. alive2 \subseteq Objects
  BY DEF Layered
<1>3. \A t \in TexelViews \cap alive2 : of2[t] \subseteq Buffers \cap alive2
  BY <1>1, KindsApart DEF Layered, Resources
<1>4. \A v \in ImageViews \cap alive2 : of2[v] \subseteq Images \cap alive2
  BY <1>1, KindsApart DEF Layered, Resources
<1>5. \A f \in Framebuffers \cap alive2 : of2[f] \subseteq ImageViews \cap alive2
  BY <1>1, KindsApart DEF Layered
<1>6. \A s \in Sets \cap alive2 :
          of2[s] \subseteq Resources \cup TexelViews \cup ImageViews
  BY <1>1, KindsApart DEF Layered
<1> QED  BY <1>2, <1>3, <1>4, <1>5, <1>6 DEF Layered

LEMMA BoundStep ==
    ASSUME Inv, NEW r \in Resources, NEW m, Bound(r, m)
    PROVE  ObjectsChanged
<1>1. over' = [over EXCEPT ![r] = {m}] /\ live' = live /\ cmd' = cmd
  BY DEF Bound
<1>2. Layered(over, live) /\ live \subseteq Objects
  BY DEF Inv, Layered
<1>3. /\ over' = [o \in Objects |-> over'[o]]
      /\ \A o \in Objects \ Resources : over'[o] = over[o]
  BY <1>1, <1>2 DEF Layered
<1>4. Layered(over', live')
  BY <1>1, <1>2, <1>3, MemoryLayered
<1>5. UNCHANGED <<pins, queue>> /\ cmd' = Invalidate({})
  BY <1>1, NobodyInvalidated DEF Bound
<1>6. \A o \in live : over[o] # {} => over'[o] # {}
  BY <1>1, <1>2 DEF Layered
<1>7. \A o \in live : o \in live' /\ (o \notin Resources => over'[o] = over[o])
  BY <1>1, <1>2, <1>3
<1>8. Changed({})
  BY <1>4, <1>5, <1>6, <1>7 DEF Changed
<1> QED  BY <1>8 DEF ObjectsChanged

LEMMA DestroyStep ==
    ASSUME Inv, NEW o \in Objects, Destroy(o),
           o \in Buffers => ~Under(o, TexelViews),
           o \in Images => ~Under(o, ImageViews),
           o \in ImageViews => ~Under(o, Framebuffers)
    PROVE  ObjectsChanged
<1>1. /\ live' = live \ {o} /\ over' = [over EXCEPT ![o] = {}]
      /\ cmd' = Invalidate({o})
  BY DEF Destroy
<1>2. Layered(over, live)
  BY DEF Inv
<1>3. /\ over' = [p \in Objects |-> over'[p]]
      /\ \A p \in Objects \ {o} : over'[p] = over[p]
  BY <1>1, <1>2 DEF Layered
<1>4. \A p \in live \ {o} : p \in live' /\ over'[p] = over[p]
  BY <1>1, <1>2, <1>3 DEF Layered
<1>5. Layered(over', live')
  <2>1. live' \subseteq Objects
    BY <1>1, <1>2 DEF Layered
  <2>2. \A t \in TexelViews \cap live' : over'[t] \subseteq Buffers \cap live'
    BY <1>1, <1>2, <1>4 DEF Layered, Under
  <2>3. \A v \in ImageViews \cap live' : over'[v] \subseteq Images \cap live'
    BY <1>1, <1>2, <1>4 DEF Layered, Under
  <2>4. \A f \in Framebuffers \cap live' : over'[f] \subseteq ImageViews \cap live'
    BY <1>1, <1>2, <1>4 DEF Layered, Under
  <2>5. \A s \in Sets \cap live' :
            over'[s] \subseteq Resources \cup TexelViews \cup ImageViews
    BY <1>1, <1>2, <1>4 DEF Layered
  <2> QED  BY <1>3, <2>1, <2>2, <2>3, <2>4, <2>5 DEF Layered
<1>6. ~Held(o) /\ UNCHANGED <<pins, queue>>
  BY DEF Destroy, Destroyable
<1>7. Changed({o})
  BY <1>1, <1>4, <1>5, <1>6 DEF Changed
<1> QED  BY <1>7 DEF ObjectsChanged

LEMMA FreeMemoryStep ==
    ASSUME Inv, NEW m, FreeMemory(m)
    PROVE  ObjectsChanged
<1> DEFINE users(kind) == {r \in kind \cap live : over[r] = {m}}
           all  == users(Images) \cup users(Buffers)
           held == {r \in all : Held(r) \/ (r \in Images /\ pins[r] > 0)}
<1>1. Layered(over, live) /\ live \subseteq Objects /\ m \in Memories
  BY DEF Inv, Layered, FreeMemory
<1>2. \/ /\ live' = live \ {m}
         /\ over' = [r \in Objects |-> IF r \in all THEN {} ELSE over[r]]
         /\ cmd' = Invalidate(all) /\ held = {}
      \/ /\ \E asked \in SUBSET (all \ held) : cmd' = Invalidate(asked)
         /\ UNCHANGED <<live, over>>
  BY DEF FreeMemory
<1>3. /\ \A r \in all \ held : ~Held(r)
      /\ UNCHANGED <<pins, queue>>
  BY DEF FreeMemory
<1>4. all \subseteq Resources
  BY DEF Resources
<1> HIDE DEF all, held
<1>5. CASE /\ live' = live \ {m}
           /\ over' = [r \in Objects |-> IF r \in all THEN {} ELSE over[r]]
           /\ cmd' = Invalidate(all) /\ held = {}
  <2>1. \A o \in Objects \ Resources : over'[o] = over[o]
    BY <1>4, <1>5
  <2>2. live' \subseteq live /\ \A o \in live \ Memories : o \in live'
    BY <1>1, <1>5
  <2>3. over' = [r \in Objects |-> over'[r]]
    BY <1>5
  <2>4. Layered(over', live')
    BY <1>1, <2>1, <2>2, <2>3, MemoryLayered
  <2>5. \A o \in live \ all : over'[o] = over[o]
    BY <1>1, <1>5
  <2>6. \A o \in live \ (all \cup Memories) : o \in live'
    BY <2>2
  <2>7. \A o \in all : ~Held(o)
    BY <1>5, <1>3
  <2>8. Changed(all)
    BY <1>5, <1>3, <2>4, <2>5, <2>6, <2>7 DEF Changed
  <2> QED  BY <2>8 DEF ObjectsChanged
<1>6. CASE /\ \E asked \in SUBSET (all \ held) : cmd' = Invalidate(asked)
           /\ UNCHANGED <<live, over>>
  <2>1. PICK asked \in SUBSET (all \ held) : cmd' = Invalidate(asked)
    BY <1>6
  <2>2. Changed(asked)
    BY <1>1, <1>6, <1>3, <2>1 DEF Changed
  <2> QED  BY <2>2 DEF ObjectsChanged
<1> QED  BY <1>2, <1>5, <1>6

(* What is made of the sets changes, and which sets exist.                 *)
LEMMA SetsLayered ==
    ASSUME NEW of, NEW alive, Layered(of, alive), NEW of2, NEW alive2,
           of2 = [o \in Objects |-> of2[o]],
           \A o \in Objects \ Sets : of2[o] = of[o],
           alive2 \subseteq alive, \A o \in alive \ Sets : o \in alive2,
           \A s \in Sets \cap alive2 :
               of2[s] \subseteq Resources \cup TexelViews \cup ImageViews
    PROVE  Layered(of2, alive2)
<1>1. alive2 \subseteq Objects /\ \A o \in alive2 \ Sets : of2[o] = of[o]
  BY DEF Layered
<1>2. \A t \in TexelViews \cap alive2 : of2[t] \subseteq Buffers \cap alive2
  BY <1>1, KindsApart DEF Layered, Resources
<1>3. \A v \in ImageViews \cap alive2 : of2[v] \subseteq Images \cap alive2
  BY <1>1, KindsApart DEF Layered, Resources
<1>4. \A f \in Framebuffers \cap alive2 : of2[f] \subseteq ImageViews \cap alive2
  BY <1>1, KindsApart DEF Layered
<1> QED  BY <1>1, <1>2, <1>3, <1>4 DEF Layered

LEMMA UpdateStep ==
    ASSUME Inv, NEW s \in Sets, UpdateSet(s)
    PROVE  ObjectsChanged
<1>1. Layered(over, live) /\ live \subseteq Objects
  BY DEF Inv, Layered
<1>2. PICK contents :
          /\ contents \subseteq Resources \cup TexelViews \cup ImageViews
          /\ Write(s, contents)
  <2>1. ASSUME NEW contents \in Descriptors, Write(s, contents)
        PROVE  contents \subseteq Resources \cup TexelViews \cup ImageViews
    BY <1>1, <2>1 DEF Descriptors, Layered, Resources
  <2>2. ASSUME NEW source \in (Sets \cap live) \ {s}, Write(s, over[source])
        PROVE  over[source] \subseteq Resources \cup TexelViews \cup ImageViews
    BY <1>1 DEF Layered
  <2> QED  BY <2>1, <2>2 DEF UpdateSet
<1>3. /\ over' = [over EXCEPT ![s] = contents] /\ live' = live
      /\ cmd' = Invalidate({s})
  BY <1>2 DEF Write
<1>4. /\ over' = [o \in Objects |-> over'[o]]
      /\ \A o \in Objects \ {s} : over'[o] = over[o]
      /\ over'[s] = contents
  BY <1>1, <1>3 DEF Layered, Objects
<1>5. Layered(over', live')
  <2>1. \A o \in Objects \ Sets : over'[o] = over[o]
    BY <1>4
  <2>2. \A t \in Sets \cap live :
            over'[t] \subseteq Resources \cup TexelViews \cup ImageViews
    BY <1>1, <1>2, <1>4 DEF Layered
  <2> QED  BY <1>1, <1>3, <1>4, <2>1, <2>2, SetsLayered
<1>6. ~Held(s) /\ UNCHANGED <<pins, queue>>
  BY <1>2 DEF Write
<1>7. \A o \in live \ {s} : over'[o] = over[o]
  BY <1>1, <1>4
<1>8. Changed({s})
  BY <1>3, <1>5, <1>6, <1>7 DEF Changed
<1> QED  BY <1>8 DEF ObjectsChanged

LEMMA FreeSetsStep ==
    ASSUME Inv, NEW sets \in SUBSET Sets, FreeSets(sets)
    PROVE  ObjectsChanged
<1>1. Layered(over, live) /\ live \subseteq Objects
  BY DEF Inv, Layered
<1>2. \/ /\ live' = live \ sets
         /\ over' = [o \in Objects |-> IF o \in sets THEN {} ELSE over[o]]
         /\ cmd' = Invalidate(sets) /\ \A s \in sets : ~Held(s)
      \/ /\ \E asked \in SUBSET {s \in sets : ~Held(s)} : cmd' = Invalidate(asked)
         /\ UNCHANGED <<live, over>>
  BY DEF FreeSets
<1>3. UNCHANGED <<pins, queue>>
  BY DEF FreeSets
<1>4. CASE /\ live' = live \ sets
           /\ over' = [o \in Objects |-> IF o \in sets THEN {} ELSE over[o]]
           /\ cmd' = Invalidate(sets) /\ \A s \in sets : ~Held(s)
  <2>1. /\ over' = [o \in Objects |-> over'[o]]
        /\ \A o \in Objects \ sets : over'[o] = over[o]
    BY <1>4
  <2>2. Layered(over', live')
    <3>1. \A o \in Objects \ Sets : over'[o] = over[o]
      BY <2>1
    <3>2. \A s \in Sets \cap live' :
              over'[s] \subseteq Resources \cup TexelViews \cup ImageViews
      BY <1>1, <1>4, <2>1 DEF Layered
    <3>3. live' \subseteq live /\ \A o \in live \ Sets : o \in live'
      BY <1>4
    <3> QED  BY <1>1, <2>1, <3>1, <3>2, <3>3, SetsLayered
  <2>3. \A o \in live \ sets : o \in live' /\ over'[o] = over[o]
    BY <1>1, <1>4, <2>1
  <2>4. Changed(sets)
    BY <1>4, <1>3, <2>2, <2>3 DEF Changed
  <2> QED  BY <2>4 DEF ObjectsChanged
<1>5. CASE /\ \E asked \in SUBSET {s \in sets : ~Held(s)} : cmd' = Invalidate(asked)
           /\ UNCHANGED <<live, over>>
  <2>1. PICK asked \in SUBSET {s \in sets : ~Held(s)} : cmd' = Invalidate(asked)
    BY <1>5
  <2>2. Changed(asked)
    BY <1>1, <1>5, <1>3, <2>1 DEF Changed
  <2> QED  BY <2>2 DEF ObjectsChanged
<1> QED  BY <1>2, <1>4, <1>5

-----------------------------------------------------------------------------
(* Steps that change command buffers.                                      *)

(* A command buffer stays as it is, is emptied, or moves to a state in     *)
(* which it counts; or what it names now is sound for another reason.      *)
LEMMA BufferStep ==
    ASSUME Inv, UNCHANGED objects, cmd' = [c \in CommandBuffers |-> cmd'[c]],
           \A c \in CommandBuffers :
               \/ cmd'[c] = cmd[c]
               \/ \E state, usage :
                      cmd'[c] = [state |-> state, usage |-> usage, bound |-> {}, ops |-> <<>>]
               \/ \E state \in Counting : cmd'[c] = [cmd[c] EXCEPT !.state = state]
               \/ Sound(over, live, cmd'[c])
    PROVE  Inv'
<1>1. live' = live /\ over' = over
  BY DEF objects
<1>2. ASSUME NEW c \in CommandBuffers PROVE Sound(over, live, cmd'[c])
  <2>1. Sound(over, live, cmd[c])
    BY DEF Inv
  <2> QED  BY <2>1, BlankSound, KeptSound
<1>3. Layered(over, live)
  BY DEF Inv
<1> QED  BY <1>1, <1>2, <1>3 DEF Inv

(* One command buffer changes.                                             *)
LEMMA OneBuffer ==
    ASSUME Inv, NEW c \in CommandBuffers, NEW r, cmd' = [cmd EXCEPT ![c] = r],
           UNCHANGED objects, Sound(over, live, r)
    PROVE  Inv'
<1>1. \A d \in CommandBuffers : cmd'[d] = IF d = c THEN r ELSE cmd[d]
  BY DEF Inv
<1>2. cmd' = [d \in CommandBuffers |-> cmd'[d]]
  BY DEF Inv
<1> QED  BY <1>1, <1>2, BufferStep

LEMMA AllocateStep ==
    ASSUME Inv, NEW c \in CommandBuffers, AllocateBuffer(c)
    PROVE  Inv'
BY BlankSound, OneBuffer DEF AllocateBuffer, Nothing

(* Command buffers as they were, or blank. *)
Blanked(c) ==
    /\ c = [p \in CommandBuffers |-> c[p]]
    /\ \A p \in CommandBuffers :
           \/ c[p] = cmd[p]
           \/ \E state : c[p] =
                 [state |-> state, usage |-> "none", bound |-> {}, ops |-> <<>>]

LEMMA ClearedBlank ==
    ASSUME Inv, NEW cleared, NEW become, NEW c, c = Cleared(cleared, become)
    PROVE  Blanked(c)
<1>1. c = [p \in CommandBuffers |-> c[p]]
  BY DEF Cleared
<1>2. \A x : Nothing(x) = [state |-> x, usage |-> "none", bound |-> {}, ops |-> <<>>]
  BY DEF Nothing
<1>3. ASSUME NEW p \in CommandBuffers
      PROVE  \/ c[p] = cmd[p]
             \/ \E state : c[p] =
                   [state |-> state, usage |-> "none", bound |-> {}, ops |-> <<>>]
  <2>1. c[p] = cmd[p] \/ c[p] = Nothing(become) \/ c[p] = Nothing("invalid")
    BY DEF Cleared
  <2> QED  BY ONLY <1>2, <2>1
<1> QED  BY ONLY <1>1, <1>3 DEF Blanked

LEMMA ClearStep ==
    ASSUME Inv, NEW cleared, NEW become, ClearBuffers(cleared, become)
    PROVE  Inv'
<1>1. cmd' = Cleared(cleared, become) /\ UNCHANGED objects
  BY DEF ClearBuffers
<1>2. PICK c : c = Cleared(cleared, become)
  OBVIOUS
<1>3. Blanked(c) /\ cmd' = c
  BY <1>1, <1>2, ClearedBlank
<1>4. /\ cmd' = [p \in CommandBuffers |-> cmd'[p]]
      /\ \A p \in CommandBuffers :
             \/ cmd'[p] = cmd[p]
             \/ \E state : cmd'[p] =
                   [state |-> state, usage |-> "none", bound |-> {}, ops |-> <<>>]
  BY ONLY <1>3 DEF Blanked
<1> QED  BY <1>1, <1>4, BufferStep

LEMMA BeginStep ==
    ASSUME Inv, NEW c \in CommandBuffers, Begin(c)
    PROVE  Inv'
<1> DEFINE before == Cleared({c}, "recording")
<1>1. PICK usage : cmd' = [before EXCEPT ![c].usage = usage]
  BY DEF Begin
<1>2. UNCHANGED objects
  BY DEF Begin
<1>3. before[c] = [state |-> "recording", usage |-> "none", bound |-> {}, ops |-> <<>>]
  BY DEF Cleared, Nothing
<1>4. /\ before = [p \in CommandBuffers |-> before[p]]
      /\ \A p \in CommandBuffers :
             \/ before[p] = cmd[p]
             \/ \E state : before[p] =
                   [state |-> state, usage |-> "none", bound |-> {}, ops |-> <<>>]
  <2>1. Blanked(before)
    BY ClearedBlank
  <2> HIDE DEF before
  <2> QED  BY <2>1 DEF Blanked
<1> HIDE DEF before
<1>5. /\ cmd' = [p \in CommandBuffers |-> cmd'[p]]
      /\ \A p \in CommandBuffers \ {c} : cmd'[p] = before[p]
      /\ cmd'[c] = [before[c] EXCEPT !.usage = usage]
  BY <1>1, <1>4
<1>6. cmd'[c] = [state |-> "recording", usage |-> usage, bound |-> {}, ops |-> <<>>]
  BY <1>3, <1>5
<1> QED  BY <1>2, <1>4, <1>5, <1>6, BufferStep

LEMMA EndStep ==
    ASSUME Inv, NEW c \in CommandBuffers, End(c)
    PROVE  Inv'
<1>1. cmd' = [cmd EXCEPT ![c] = [cmd[c] EXCEPT !.state = "executable"]] /\ UNCHANGED objects
  BY DEF End
<1>2. Sound(over, live, [cmd[c] EXCEPT !.state = "executable"])
  BY KeptSound DEF Inv, Counting
<1> QED  BY <1>1, <1>2, OneBuffer

(* A set that may be consumed names what exists.                           *)
LEMMA ConsumableNames ==
    ASSUME Layered(over, live), NEW s \in Sets, Consumable(s), NEW x, InSet(over, s, x)
    PROVE  x \in live
<1>1. s \in live /\ over[s] \subseteq live
  BY DEF Consumable
<1>2. ASSUME NEW t \in over[s] \cap TexelViews, x \in over[t] PROVE x \in live
  BY <1>1, <1>2 DEF Layered
<1> QED  BY <1>1, <1>2 DEF InSet

LEMMA BindStep ==
    ASSUME Inv, NEW c \in CommandBuffers, NEW o, Bind(c, o)
    PROVE  Inv'
<1> DEFINE b == cmd[c].bound \cup {o}
           r == [state |-> cmd[c].state, usage |-> cmd[c].usage, bound |-> b,
                 ops |-> cmd[c].ops]
<1>1. /\ cmd[c].state \in Counting /\ UNCHANGED objects
      /\ cmd' = [cmd EXCEPT ![c] = [cmd[c] EXCEPT !.bound = b]]
      /\ o \in live /\ (o \in Sets => Consumable(o))
  BY LifetimesAssumption, KindsApart DEF Bind, In, Counting, Consumable, Backed, Resources
<1>2. Sound(over, live, cmd[c]) /\ Layered(over, live)
  BY DEF Inv
<1>3. [cmd[c] EXCEPT !.bound = b] = r
  BY <1>2, Fields DEF Sound
<1>4. Shaped(r)
  BY <1>2 DEF Sound, Shaped
<1>5. o \in Objects \ Memories
  BY <1>1, <1>2, LifetimesAssumption, KindsApart DEF Bind, Layered, Resources
<1>6. Allowed(r)
  BY <1>2, <1>5 DEF Sound, Allowed
<1>7. ASSUME NEW x, Named(over, r, x) PROVE x \in live
  <2>1. CASE Named(over, cmd[c], x)
    BY <1>1, <1>2, <2>1 DEF Sound, Current
  <2>2. CASE x = o
    BY <1>1, <2>2
  <2>3. CASE o \in Sets /\ InSet(over, o, x)
    BY <1>1, <1>2, <2>3, ConsumableNames
  <2> QED  BY <1>7, <2>1, <2>2, <2>3 DEF Named
<1>8. Sound(over, live, r)
  BY <1>1, <1>2, <1>4, <1>6, <1>7 DEF Sound, Current
<1> QED  BY <1>1, <1>3, <1>8, OneBuffer

(* An operation is recorded whose objects exist and whose sets may be      *)
(* consumed.                                                               *)
LEMMA AppendStep ==
    ASSUME Inv, NEW c \in CommandBuffers, In(c, {"recording"}), UNCHANGED objects,
           NEW op, AppendOperation(c, op),
           op.uses \subseteq live, op.uses \subseteq Objects \ (Sets \cup Memories),
           op.sets \subseteq Sets, \A s \in op.sets : Consumable(s),
           \A s \in op.sets : op.contents[s] = over[s]
    PROVE  Inv'
<1> DEFINE ops == Append(cmd[c].ops, op)
           r == [state |-> cmd[c].state, usage |-> cmd[c].usage,
                 bound |-> cmd[c].bound, ops |-> ops]
<1>1. cmd' = [cmd EXCEPT ![c] = [cmd[c] EXCEPT !.ops = ops]] /\ cmd[c].state \in Counting
  BY DEF AppendOperation, In, Counting
<1>2. Sound(over, live, cmd[c]) /\ Layered(over, live)
  BY DEF Inv
<1>3. [cmd[c] EXCEPT !.ops = ops] = r
  BY <1>2, Fields DEF Sound
<1>4. ToSet(ops) = ToSet(cmd[c].ops) \cup {op} /\ \E T : ops \in Seq(T)
  BY <1>2, AppendedSet DEF Sound, Shaped
<1> HIDE DEF ops
<1>5. Shaped(r)
  BY <1>4 DEF Shaped
<1>6. Allowed(r)
  BY <1>2, <1>4 DEF Sound, Allowed
<1>7. ASSUME NEW v, Attached(over, op, v) PROVE v \in ImageViews \cap live
  BY <1>2, <1>7 DEF Attached, Layered
<1>8. ASSUME NEW x, InOperation(over, op, x) PROVE x \in live
  <2>1. ASSUME NEW v, Attached(over, op, v), x \in over[v] PROVE x \in live
    BY <1>2, <1>7, <2>1 DEF Layered
  <2>2. ASSUME NEW s \in op.sets, InSet(over, s, x) PROVE x \in live
    BY <1>2, <2>2, ConsumableNames
  <2> QED  BY <1>7, <1>8, <2>1, <2>2 DEF InOperation
<1>9. ASSUME NEW x, Named(over, r, x) PROVE x \in live
  <2>1. CASE Named(over, cmd[c], x)
    BY <1>1, <1>2, <2>1 DEF Sound, Current
  <2>2. Named(over, cmd[c], x) \/ InOperation(over, op, x)
    BY <1>4, <1>9 DEF Named
  <2> QED  BY <1>8, <2>1, <2>2
<1>10. \A p \in ToSet(r.ops) : \A s \in p.sets : over[s] = p.contents[s]
  BY <1>1, <1>2, <1>4 DEF Sound, Current
<1>11. Sound(over, live, r)
  BY <1>1, <1>5, <1>6, <1>9, <1>10 DEF Sound, Current
<1> QED  BY <1>1, <1>3, <1>11, OneBuffer

LEMMA OperationFields ==
    ASSUME NEW kind, NEW uses, NEW sets, NEW children
    PROVE  LET op == Operation(kind, uses, sets, children)
           IN  /\ op.uses = uses /\ op.sets = sets
               /\ \A s \in sets : op.contents[s] = over[s]
BY DEF Operation

LEMMA RecordStep ==
    ASSUME Inv, NEW c \in CommandBuffers, NEW kind, Record(c, kind)
    PROVE  Inv'
<1>1. PICK m \in Commands :
          /\ m.uses \subseteq live
          /\ \A s \in m.sets : Consumable(s)
          /\ AppendOperation(c, Operation(kind, m.uses, m.sets, <<>>))
  BY DEF Record
<1>2. In(c, {"recording"}) /\ UNCHANGED objects
  BY DEF Record
<1>3. m.uses \subseteq Objects \ (Sets \cup Memories) /\ m.sets \subseteq Sets
  BY LifetimesAssumption
<1> QED  BY <1>1, <1>2, <1>3, OperationFields, AppendStep

LEMMA ExecuteStep ==
    ASSUME Inv, NEW p \in CommandBuffers, NEW child, ExecuteCommands(p, child)
    PROVE  Inv'
<1>1. In(p, {"recording"}) /\ UNCHANGED objects
  BY DEF ExecuteCommands
<1>2. CASE AppendOperation(p, Operation("execute", {}, {}, <<child>>))
  BY <1>1, <1>2, OperationFields, AppendStep
<1>3. CASE cmd' = [cmd EXCEPT ![p] = Nothing("invalid")]
  BY <1>1, <1>3, BlankSound, OneBuffer DEF Nothing
<1> QED  BY <1>2, <1>3 DEF ExecuteCommands

LEMMA SubmitStep ==
    ASSUME Inv, NEW p, Submit(p)
    PROVE  Inv'
<1>1. UNCHANGED objects /\ \E segs : Pin(segs)
  BY DEF Submit
<1>2. PICK segs : cmd' = [c \in CommandBuffers |->
                              IF c \in InSegments(segs)
                              THEN [cmd[c] EXCEPT !.state = "pending"] ELSE cmd[c]]
  BY <1>1 DEF Pin
<1>3. "pending" \in Counting
  BY DEF Counting
<1> QED  BY <1>1, <1>2, <1>3, BufferStep

LEMMA RetireStep ==
    ASSUME Inv, Retire
    PROVE  Inv'
<1>1. UNCHANGED objects /\ \E segs : Unpin(segs)
  BY DEF Retire
<1>2. PICK ended : cmd' = [c \in CommandBuffers |->
                              IF c \notin ended THEN cmd[c]
                              ELSE IF cmd[c].usage = "oneTime" THEN Nothing("invalid")
                              ELSE [cmd[c] EXCEPT !.state = "executable"]]
  BY <1>1 DEF Unpin
<1>3. "executable" \in Counting
  BY DEF Counting
<1>4. ASSUME NEW c \in CommandBuffers
      PROVE  \/ cmd'[c] = cmd[c]
             \/ \E state, usage :
                    cmd'[c] = [state |-> state, usage |-> usage, bound |-> {}, ops |-> <<>>]
             \/ \E state \in Counting : cmd'[c] = [cmd[c] EXCEPT !.state = state]
  BY <1>2, <1>3 DEF Nothing
<1> QED  BY <1>1, <1>2, <1>4, BufferStep

-----------------------------------------------------------------------------
(* Counting pins.  A tally of segments takes a set for each of their parts; *)
(* it grows by the tally of what is queued and shrinks by that of what      *)
(* retires.                                                                *)

Queues == Seq(SegmentRecords(CommandBuffers))

Tally(segs, w) == UNION {{at} \X w[PartAt(segs, at)] : at \in PartsOf(segs)}

LEMMA PartsAre ==
    ASSUME NEW segs \in Queues
    PROVE  /\ \A at : at \in PartsOf(segs) <=>
                  \E i \in 1..Len(segs) : \E n \in 1..Len(segs[i].parts) : at = <<i, n>>
           /\ \A i, n : PartAt(segs, <<i, n>>) = segs[i].parts[n]
           /\ \A at \in PartsOf(segs) :
                  /\ PartAt(segs, at) \in PartRecords(CommandBuffers)
                  /\ PartAt(segs, at) \in ToSet(segs[at[1]].parts)
                  /\ segs[at[1]] \in ToSet(segs)
           /\ IsFiniteSet(PartsOf(segs))
<1>1. /\ DOMAIN segs = 1..Len(segs) /\ Len(segs) \in Nat
      /\ \A i \in 1..Len(segs) : segs[i] \in SegmentRecords(CommandBuffers)
  BY DEF Queues
<1>2. \A i \in 1..Len(segs) : /\ segs[i].parts \in Seq(PartRecords(CommandBuffers))
                              /\ DOMAIN segs[i].parts = 1..Len(segs[i].parts)
                              /\ Len(segs[i].parts) \in Nat
  BY <1>1 DEF SegmentRecords
<1>3. \A at : at \in PartsOf(segs) <=>
          \E i \in 1..Len(segs) : \E n \in 1..Len(segs[i].parts) : at = <<i, n>>
  BY <1>1, <1>2 DEF PartsOf
<1>4. \A i, n : PartAt(segs, <<i, n>>) = segs[i].parts[n]
  BY DEF PartAt
<1>5. ASSUME NEW at \in PartsOf(segs)
      PROVE  /\ PartAt(segs, at) \in PartRecords(CommandBuffers)
             /\ PartAt(segs, at) \in ToSet(segs[at[1]].parts)
             /\ segs[at[1]] \in ToSet(segs)
  <2>0. PICK i \in 1..Len(segs) : \E n \in 1..Len(segs[i].parts) : at = <<i, n>>
    BY <1>3
  <2>1. PICK n \in 1..Len(segs[i].parts) : at = <<i, n>>
    BY <2>0
  <2>2. PartAt(segs, at) = segs[i].parts[n] /\ at[1] = i
    BY <1>4, <2>1
  <2>3. segs[i].parts[n] \in PartRecords(CommandBuffers)
    BY <1>2, ElementOfSeq
  <2>4. segs[i].parts[n] \in ToSet(segs[i].parts)
    BY <1>2 DEF ToSet
  <2>5. segs[i] \in ToSet(segs)
    BY <1>1 DEF ToSet
  <2> QED  BY <2>2, <2>3, <2>4, <2>5
<1>6. IsFiniteSet(PartsOf(segs))
  <2> DEFINE F == [i \in DOMAIN segs |-> {i} \X DOMAIN segs[i].parts]
             R == {{i} \X DOMAIN segs[i].parts : i \in DOMAIN segs}
  <2>1. F \in Surjection(DOMAIN segs, R)
    BY DEF Surjection
  <2>2. IsFiniteSet(DOMAIN segs)
    BY <1>1, FS_Interval
  <2>3. IsFiniteSet(R)
    <3> HIDE DEF F, R
    <3> QED  BY <2>1, <2>2, FS_Surjection
  <2>4. ASSUME NEW i \in DOMAIN segs PROVE IsFiniteSet({i} \X DOMAIN segs[i].parts)
    <3>1. PICK k \in Nat : k = Len(segs[i].parts)
      BY <1>1, <1>2
    <3>2. PICK N : N = 1..k
      OBVIOUS
    <3>3. IsFiniteSet(N)
      BY <3>2, FS_Interval
    <3>4. PICK I : I = {i}
      OBVIOUS
    <3>5. IsFiniteSet(I)
      BY <3>4, FS_Singleton
    <3>6. IsFiniteSet(I \X N)
      BY ONLY <3>3, <3>5, FS_Product
    <3>7. DOMAIN segs[i].parts = N
      BY <1>1, <1>2, <3>1, <3>2
    <3> QED  BY <3>4, <3>6, <3>7
  <2>5. \A T \in R : IsFiniteSet(T)
    BY <2>4
  <2> HIDE DEF R
  <2>6. IsFiniteSet(UNION R)
    BY <2>3, <2>5, FS_UNION
  <2> QED  BY <2>6 DEF PartsOf, R
<1> QED  BY <1>3, <1>4, <1>5, <1>6

(* The parts of queued segments are those of the first and, further back,  *)
(* those of the rest.                                                      *)
Behind(n, at) == <<at[1] + n, at[2]>>

LEMMA PartsJoin ==
    ASSUME NEW s \in Queues, NEW t \in Queues
    PROVE  /\ s \o t \in Queues /\ Len(s) \in Nat
           /\ \A at : at \in PartsOf(s \o t) <=>
                  \/ at \in PartsOf(s)
                  \/ \E b \in PartsOf(t) : at = Behind(Len(s), b)
           /\ \A at \in PartsOf(s) : PartAt(s \o t, at) = PartAt(s, at)
           /\ \A at \in PartsOf(t) : PartAt(s \o t, Behind(Len(s), at)) = PartAt(t, at)
           /\ \A at \in PartsOf(s) : \A b \in PartsOf(t) : at # Behind(Len(s), b)
           /\ \A at, b \in PartsOf(t) : Behind(Len(s), at) = Behind(Len(s), b) => at = b
<1> DEFINE u == s \o t
<1>1. /\ u \in Queues /\ Len(s) \in Nat /\ Len(t) \in Nat /\ Len(u) = Len(s) + Len(t)
      /\ \A i \in 1..Len(s) : u[i] = s[i]
      /\ \A i \in 1..Len(t) : u[i + Len(s)] = t[i]
  <2>1. /\ u \in Queues /\ Len(s) \in Nat /\ Len(t) \in Nat /\ Len(u) = Len(s) + Len(t)
        /\ \A i \in 1..Len(s) + Len(t) : u[i] = IF i <= Len(s) THEN s[i] ELSE t[i - Len(s)]
    BY ConcatProperties DEF Queues
  <2> HIDE DEF u
  <2>2. \A i \in 1..Len(t) : /\ i + Len(s) \in 1..Len(s) + Len(t) /\ ~(i + Len(s) <= Len(s))
                             /\ (i + Len(s)) - Len(s) = i
    BY <2>1
  <2>3. \A i \in 1..Len(s) : i \in 1..Len(s) + Len(t) /\ i <= Len(s)
    BY <2>1
  <2> QED  BY <2>1, <2>2, <2>3
<1> HIDE DEF u
<1>2. \A at : at \in PartsOf(s) <=>
          \E i \in 1..Len(s) : \E n \in 1..Len(s[i].parts) : at = <<i, n>>
  BY PartsAre
<1>3. \A at : at \in PartsOf(t) <=>
          \E i \in 1..Len(t) : \E n \in 1..Len(t[i].parts) : at = <<i, n>>
  BY PartsAre
<1>4. \A at : at \in PartsOf(u) <=>
          \E i \in 1..Len(u) : \E n \in 1..Len(u[i].parts) : at = <<i, n>>
  BY <1>1, PartsAre
<1>5. ASSUME NEW at \in PartsOf(u)
      PROVE  at \in PartsOf(s) \/ \E b \in PartsOf(t) : at = Behind(Len(s), b)
  <2>0. PICK i \in 1..Len(u) : \E n \in 1..Len(u[i].parts) : at = <<i, n>>
    BY <1>4
  <2>1. PICK n \in 1..Len(u[i].parts) : at = <<i, n>>
    BY <2>0
  <2>2. CASE i <= Len(s)
    BY <1>1, <1>2, <2>1, <2>2
  <2>3. CASE ~(i <= Len(s))
    <3>1. i - Len(s) \in 1..Len(t) /\ (i - Len(s)) + Len(s) = i
      BY <1>1, <2>3
    <3>2. u[i] = t[i - Len(s)]
      BY <1>1, <3>1
    <3>3. <<i - Len(s), n>> \in PartsOf(t)
      BY <1>3, <2>1, <3>1, <3>2
    <3>4. at = Behind(Len(s), <<i - Len(s), n>>)
      BY <2>1, <3>1 DEF Behind
    <3> QED  BY <3>3, <3>4
  <2> QED  BY <2>2, <2>3
<1>6. ASSUME NEW at \in PartsOf(s)
      PROVE  at \in PartsOf(u) /\ PartAt(u, at) = PartAt(s, at)
  <2>0. PICK i \in 1..Len(s) : \E n \in 1..Len(s[i].parts) : at = <<i, n>>
    BY <1>2
  <2>1. PICK n \in 1..Len(s[i].parts) : at = <<i, n>>
    BY <2>0
  <2>2. u[i] = s[i] /\ i \in 1..Len(u)
    BY <1>1
  <2>3. at \in PartsOf(u)
    BY <1>4, <2>1, <2>2
  <2>4. PartAt(u, at) = u[i].parts[n] /\ PartAt(s, at) = s[i].parts[n]
    BY <2>1 DEF PartAt
  <2> QED  BY <2>2, <2>3, <2>4
<1>7. ASSUME NEW b \in PartsOf(t)
      PROVE  /\ Behind(Len(s), b) \in PartsOf(u)
             /\ PartAt(u, Behind(Len(s), b)) = PartAt(t, b)
             /\ b[1] \in 1..Len(t) /\ b = <<b[1], b[2]>>
  <2>0. PICK i \in 1..Len(t) : \E n \in 1..Len(t[i].parts) : b = <<i, n>>
    BY <1>3
  <2>1. PICK n \in 1..Len(t[i].parts) : b = <<i, n>>
    BY <2>0
  <2>2. u[i + Len(s)] = t[i] /\ i + Len(s) \in 1..Len(u)
    BY <1>1
  <2>3. Behind(Len(s), b) = <<i + Len(s), n>>
    BY <2>1 DEF Behind
  <2>4. Behind(Len(s), b) \in PartsOf(u)
    BY <1>4, <2>1, <2>2, <2>3
  <2>5. PartAt(u, <<i + Len(s), n>>) = u[i + Len(s)].parts[n] /\ PartAt(t, b) = t[i].parts[n]
    BY <2>1 DEF PartAt
  <2> QED  BY <2>1, <2>2, <2>3, <2>4, <2>5
<1>8. \A at \in PartsOf(s) : at[1] \in 1..Len(s)
  BY <1>2
<1>9. \A b \in PartsOf(t) : Behind(Len(s), b)[1] = b[1] + Len(s)
                            /\ Behind(Len(s), b)[2] = b[2]
  BY DEF Behind
<1>10. \A at \in PartsOf(s) : \A b \in PartsOf(t) : at # Behind(Len(s), b)
  <2>1. ASSUME NEW at \in PartsOf(s), NEW b \in PartsOf(t), at = Behind(Len(s), b)
        PROVE  FALSE
    <3>1. at[1] \in 1..Len(s) /\ at[1] = b[1] + Len(s) /\ b[1] \in 1..Len(t)
      BY <1>7, <1>8, <1>9, <2>1
    <3> QED  BY <1>1, <3>1
  <2> QED  BY <2>1
<1>11. ASSUME NEW at \in PartsOf(t), NEW b \in PartsOf(t),
              Behind(Len(s), at) = Behind(Len(s), b)
       PROVE  at = b
  <2>1. at[1] + Len(s) = b[1] + Len(s) /\ at[2] = b[2]
    BY <1>9, <1>11
  <2>2. at[1] \in Nat /\ b[1] \in Nat
    BY <1>1, <1>7
  <2>3. at[1] = b[1]
    BY <1>1, <2>1, <2>2
  <2>4. at = <<at[1], at[2]>> /\ b = <<b[1], b[2]>>
    BY <1>7
  <2> QED  BY <2>1, <2>3, <2>4
<1> QED  BY <1>1, <1>5, <1>6, <1>7, <1>10, <1>11 DEF u

LEMMA DisjointCount ==
    ASSUME NEW S, IsFiniteSet(S), NEW T, IsFiniteSet(T), S \cap T = {}
    PROVE  Cardinality(S \cup T) = Cardinality(S) + Cardinality(T)
<1>1. Cardinality(S \cup T) = Cardinality(S) + Cardinality(T) - Cardinality(S \cap T)
  BY FS_Union
<1>2. /\ Cardinality(S \cap T) = 0 /\ Cardinality(S) \in Nat /\ Cardinality(T) \in Nat
  BY FS_EmptySet, FS_CardinalityType
<1> QED  BY <1>1, <1>2

LEMMA TallyIs ==
    ASSUME NEW segs, NEW w, NEW x
    PROVE  x \in Tally(segs, w) <=>
               \E at \in PartsOf(segs) : \E y \in w[PartAt(segs, at)] : x = <<at, y>>
BY DEF Tally

LEMMA TallyFinite ==
    ASSUME NEW segs \in Queues, NEW w,
           \A at \in PartsOf(segs) : IsFiniteSet(w[PartAt(segs, at)])
    PROVE  IsFiniteSet(Tally(segs, w)) /\ Cardinality(Tally(segs, w)) \in Nat
<1> DEFINE F == [at \in PartsOf(segs) |-> {at} \X w[PartAt(segs, at)]]
           R == {{at} \X w[PartAt(segs, at)] : at \in PartsOf(segs)}
<1>1. F \in Surjection(PartsOf(segs), R)
  BY DEF Surjection
<1>2. IsFiniteSet(R)
  <2> HIDE DEF F, R
  <2> QED  BY <1>1, PartsAre, FS_Surjection
<1>3. ASSUME NEW at \in PartsOf(segs) PROVE IsFiniteSet({at} \X w[PartAt(segs, at)])
  <2>1. PICK I : I = {at}
    OBVIOUS
  <2>2. PICK N : N = w[PartAt(segs, at)]
    OBVIOUS
  <2>3. IsFiniteSet(I) /\ IsFiniteSet(N)
    BY <2>1, <2>2, FS_Singleton
  <2>4. IsFiniteSet(I \X N)
    BY ONLY <2>3, FS_Product
  <2> QED  BY <2>1, <2>2, <2>4
<1>4. \A T \in R : IsFiniteSet(T)
  BY <1>3
<1> HIDE DEF R
<1>5. IsFiniteSet(UNION R)
  BY <1>2, <1>4, FS_UNION
<1>6. IsFiniteSet(Tally(segs, w))
  BY <1>5 DEF Tally, R
<1> QED  BY <1>6, FS_CardinalityType

LEMMA TallyJoin ==
    ASSUME NEW s \in Queues, NEW t \in Queues, NEW w,
           \A at \in PartsOf(s) : IsFiniteSet(w[PartAt(s, at)]),
           \A at \in PartsOf(t) : IsFiniteSet(w[PartAt(t, at)])
    PROVE  Cardinality(Tally(s \o t, w)) =
               Cardinality(Tally(s, w)) + Cardinality(Tally(t, w))
<1> DEFINE u == s \o t
           G == [x \in Tally(t, w) |-> <<Behind(Len(s), x[1]), x[2]>>]
           M == {G[x] : x \in Tally(t, w)}
<1>0. /\ u \in Queues
      /\ \A at : at \in PartsOf(u) <=>
                  \/ at \in PartsOf(s)
                  \/ \E b \in PartsOf(t) : at = Behind(Len(s), b)
      /\ \A at \in PartsOf(s) : PartAt(u, at) = PartAt(s, at)
      /\ \A at \in PartsOf(t) : PartAt(u, Behind(Len(s), at)) = PartAt(t, at)
      /\ \A at \in PartsOf(s) : \A b \in PartsOf(t) : at # Behind(Len(s), b)
      /\ \A at, b \in PartsOf(t) : Behind(Len(s), at) = Behind(Len(s), b) => at = b
  BY PartsJoin
<1>1. /\ IsFiniteSet(Tally(s, w)) /\ Cardinality(Tally(s, w)) \in Nat
      /\ IsFiniteSet(Tally(t, w)) /\ Cardinality(Tally(t, w)) \in Nat
  BY TallyFinite
<1>2. \A x \in Tally(t, w) : /\ x[1] \in PartsOf(t) /\ x = <<x[1], x[2]>>
                             /\ x[2] \in w[PartAt(t, x[1])]
                             /\ G[x] = <<Behind(Len(s), x[1]), x[2]>>
  BY TallyIs
<1> HIDE DEF u
<1>3. G \in Bijection(Tally(t, w), M)
  <2>1. ASSUME NEW x \in Tally(t, w), NEW y \in Tally(t, w), G[x] = G[y]
        PROVE  x = y
    <3>1. <<Behind(Len(s), x[1]), x[2]>> = <<Behind(Len(s), y[1]), y[2]>>
      BY <1>2, <2>1
    <3>2. Behind(Len(s), x[1]) = Behind(Len(s), y[1]) /\ x[2] = y[2]
      BY <3>1
    <3> QED  BY <1>0, <1>2, <3>2
  <2>2. G \in [Tally(t, w) -> M] /\ \A m \in M : \E x \in Tally(t, w) : G[x] = m
    OBVIOUS
  <2> HIDE DEF G, M
  <2> QED  BY <2>1, <2>2 DEF Bijection, Injection, Surjection, IsInjective
<1>4. \A m \in M : \E x \in Tally(t, w) : m = <<Behind(Len(s), x[1]), x[2]>>
  BY <1>2
<1>5. \A x \in Tally(t, w) : <<Behind(Len(s), x[1]), x[2]>> \in M
  BY <1>2
<1> HIDE DEF G, M
<1>6. IsFiniteSet(M) /\ Cardinality(M) = Cardinality(Tally(t, w))
  BY <1>1, <1>3, FS_Bijection DEF ExistsBijection
<1>7. ASSUME NEW x PROVE x \in Tally(u, w) <=> x \in Tally(s, w) \/ x \in M
  <2>1. ASSUME x \in Tally(u, w) PROVE x \in Tally(s, w) \/ x \in M
    <3>1. PICK at \in PartsOf(u) : \E y \in w[PartAt(u, at)] : x = <<at, y>>
      BY <2>1, TallyIs
    <3>2. PICK y \in w[PartAt(u, at)] : x = <<at, y>>
      BY <3>1
    <3>3. CASE at \in PartsOf(s)
      BY <1>0, <3>2, <3>3, TallyIs
    <3>4. CASE \E b \in PartsOf(t) : at = Behind(Len(s), b)
      <4>1. PICK b \in PartsOf(t) : at = Behind(Len(s), b)
        BY <3>4
      <4>2. y \in w[PartAt(t, b)]
        BY <1>0, <3>2, <4>1
      <4>3. <<b, y>> \in Tally(t, w)
        BY <4>2, TallyIs
      <4>4. <<b, y>>[1] = b /\ <<b, y>>[2] = y
        OBVIOUS
      <4> QED  BY <1>5, <3>2, <4>1, <4>3, <4>4
    <3> QED  BY <1>0, <3>3, <3>4
  <2>2. ASSUME x \in Tally(s, w) PROVE x \in Tally(u, w)
    <3>1. PICK at \in PartsOf(s) : \E y \in w[PartAt(s, at)] : x = <<at, y>>
      BY <2>2, TallyIs
    <3> QED  BY <1>0, <3>1, TallyIs
  <2>3. ASSUME x \in M PROVE x \in Tally(u, w)
    <3>1. PICK z \in Tally(t, w) : x = <<Behind(Len(s), z[1]), z[2]>>
      BY <1>4, <2>3
    <3>2. /\ z[1] \in PartsOf(t) /\ z[2] \in w[PartAt(t, z[1])]
      BY <1>2
    <3>3. Behind(Len(s), z[1]) \in PartsOf(u) /\ z[2] \in w[PartAt(u, Behind(Len(s), z[1]))]
      BY <1>0, <3>2
    <3> QED  BY <3>1, <3>3, TallyIs
  <2> QED  BY <2>1, <2>2, <2>3
<1>8. Tally(s, w) \cap M = {}
  <2>1. ASSUME NEW x \in Tally(s, w), x \in M PROVE FALSE
    <3>1. PICK at \in PartsOf(s) : \E y \in w[PartAt(s, at)] : x = <<at, y>>
      BY TallyIs
    <3>2. PICK z \in Tally(t, w) : x = <<Behind(Len(s), z[1]), z[2]>>
      BY <1>4, <2>1
    <3>3. at = Behind(Len(s), z[1]) /\ z[1] \in PartsOf(t)
      BY <1>2, <3>1, <3>2
    <3> QED  BY <1>0, <3>3
  <2> QED  BY <2>1
<1>9. Tally(u, w) = Tally(s, w) \cup M
  BY <1>7
<1>10. Cardinality(Tally(s, w) \cup M) = Cardinality(Tally(s, w)) + Cardinality(M)
  BY <1>1, <1>6, <1>8, DisjointCount
<1> QED  BY <1>1, <1>6, <1>9, <1>10 DEF u

-----------------------------------------------------------------------------
(* What segments pin.  The parts of a queue, and of a submission, are of   *)
(* recordings that count and lie within them.                              *)
Within(part) ==
    /\ cmd[part.buffer].state \in Counting
    /\ part.first \in 1..Len(cmd[part.buffer].ops) + 1 /\ part.count \in Nat
    /\ part.first + part.count <= Len(cmd[part.buffer].ops) + 1

Ready(segs) == segs \in Queues /\ \A at \in PartsOf(segs) : Within(PartAt(segs, at))

LEMMA OperationsAre ==
    ASSUME Inv, NEW part \in PartRecords(CommandBuffers), Within(part)
    PROVE  /\ DOMAIN Operations(part) = 1..part.count
           /\ \A op \in ToSet(Operations(part)) : op \in ToSet(cmd[part.buffer].ops)
<1>1. PICK S : cmd[part.buffer].ops \in Seq(S)
  BY DEF Inv, Sound, Shaped, PartRecords
<1>2. PICK ops \in Seq(S) : ops = cmd[part.buffer].ops
  BY <1>1
<1>3. PICK first \in 1..Len(ops) + 1 : first = part.first
  BY <1>2 DEF Within
<1>4. PICK count \in Nat : count = part.count /\ first + count <= Len(ops) + 1
  BY <1>2, <1>3 DEF Within
<1>5. /\ DOMAIN SubSeq(ops, first, first + count - 1) = 1..count
      /\ \A k \in 1..count : /\ SubSeq(ops, first, first + count - 1)[k] = ops[first + k - 1]
                             /\ first + k - 1 \in 1..Len(ops)
  <2> DEFINE last == first + count - 1
             part2 == SubSeq(ops, first, last)
  <2>1. first \in Int /\ last \in Int /\ Len(ops) \in Nat
        /\ \A i \in first..last : i \in 1..Len(ops)
    BY <1>4
  <2>2. \A i \in first..last : ops[i] \in S
    BY <2>1, ElementOfSeq
  <2> HIDE DEF last, part2
  <2>3. /\ SubSeq(ops, first, last) \in Seq(S)
        /\ Len(SubSeq(ops, first, last)) = IF first <= last THEN last - first + 1 ELSE 0
        /\ \A i \in 1..last - first + 1 : SubSeq(ops, first, last)[i] = ops[first + i - 1]
    BY ONLY <2>1, <2>2, SubSeqProperties
  <2>4. last - first + 1 = count /\ (first <= last <=> count > 0)
    BY DEF last
  <2>5. /\ part2 \in Seq(S) /\ Len(part2) = count
        /\ \A k \in 1..count : part2[k] = ops[first + k - 1]
    BY <2>3, <2>4 DEF part2
  <2>6. DOMAIN part2 = 1..count
    BY <2>5
  <2>7. \A k \in 1..count : first + k - 1 \in 1..Len(ops)
    BY <1>4, <2>1
  <2> QED  BY <2>5, <2>6, <2>7 DEF part2, last
<1>6. Operations(part) = SubSeq(ops, first, first + count - 1)
  BY <1>2, <1>3, <1>4 DEF Operations
<1>7. \A k \in 1..Len(ops) : ops[k] \in ToSet(ops)
  BY DEF ToSet
<1>8. PICK run : run = SubSeq(ops, first, first + count - 1)
  OBVIOUS
<1>9. /\ DOMAIN run = 1..count
      /\ \A k \in 1..count : run[k] = ops[first + k - 1] /\ first + k - 1 \in 1..Len(ops)
  BY ONLY <1>5, <1>8
<1>10. \A k \in 1..count : run[k] \in ToSet(ops)
  BY ONLY <1>7, <1>9
<1>11. ToSet(run) = {run[k] : k \in DOMAIN run}
  BY DEF ToSet
<1>12. \A op \in ToSet(run) : op \in ToSet(ops)
  BY ONLY <1>9, <1>10, <1>11
<1>13. Operations(part) = run
  BY ONLY <1>6, <1>8
<1> QED  BY ONLY <1>2, <1>4, <1>9, <1>12, <1>13

(* An operation pins objects through objects, and no command buffer.       *)
LEMMA PinnedAre ==
    ASSUME Inv, NEW c \in CommandBuffers, cmd[c].state \in Counting,
           NEW op \in ToSet(cmd[c].ops), NEW o
    PROVE  /\ PinnedThrough(op, o) \subseteq Objects
           /\ o \in CommandBuffers => PinnedThrough(op, o) = {}
<1>1. Sound(over, live, cmd[c]) /\ Layered(over, live)
  BY DEF Inv
<1>2. op.uses \subseteq Objects /\ op.sets \subseteq Objects
  BY <1>1 DEF Sound, Allowed, Objects
<1>3. ASSUME NEW v \in Attachments(op) PROVE v \in ImageViews \cap live
  <2>1. Attached(over, op, v)
    BY AttachmentsNamed
  <2>2. v \in ImageViews
    BY <1>1, <2>1, Reached
  <2>3. v \in live
    BY <1>1, <2>1 DEF Sound, Current, Named, InOperation
  <2> QED  BY <2>2, <2>3
<1>4. \A v \in Attachments(op) : v \in Objects /\ over[v] \subseteq Objects
  BY <1>1, <1>3 DEF Layered, Objects, Resources
<1>5. PinnedThrough(op, o) \subseteq Objects
  BY <1>2, <1>4 DEF PinnedThrough
<1>6. ASSUME o \in CommandBuffers, NEW x \in PinnedThrough(op, o) PROVE FALSE
  <2>1. x \in Objects /\ (x = o \/ (x \in Attachments(op) /\ o \in over[x]))
    BY <1>5 DEF PinnedThrough
  <2>2. o \in Objects
    BY <1>4, <2>1
  <2> QED  BY <1>6, <2>2, LifetimesAssumption
<1> QED  BY <1>5, <1>6

LEMMA PartPinsAre ==
    ASSUME Inv, NEW part \in PartRecords(CommandBuffers), Within(part), NEW o
    PROVE  /\ IsFiniteSet(PartPins(part, o))
           /\ o \in CommandBuffers =>
                  PartPins(part, o) = IF o = part.buffer THEN {<<0, o>>} ELSE {}
<1> DEFINE ops == Operations(part)
           F == [k \in DOMAIN ops |-> {k} \X PinnedThrough(ops[k], o)]
           R == {{k} \X PinnedThrough(ops[k], o) : k \in DOMAIN ops}
<1>1. /\ DOMAIN ops = 1..part.count /\ part.count \in Nat
      /\ part.buffer \in CommandBuffers /\ cmd[part.buffer].state \in Counting
      /\ \A k \in DOMAIN ops : ops[k] \in ToSet(cmd[part.buffer].ops)
  BY OperationsAre DEF ToSet, PartRecords, Within
<1>2. \A k \in DOMAIN ops : PinnedThrough(ops[k], o) \subseteq Objects
  BY <1>1, PinnedAre
<1>3. CASE o = part.buffer
  <2>1. PartPins(part, o) = {<<0, o>>}
    BY <1>3 DEF PartPins
  <2> QED  BY <1>3, <2>1, FS_Singleton
<1>4. CASE o # part.buffer
  <2>1. PartPins(part, o) = UNION R
    BY <1>4 DEF PartPins
  <2>2. F \in Surjection(DOMAIN ops, R)
    BY DEF Surjection
  <2>3. IsFiniteSet(DOMAIN ops)
    BY <1>1, FS_Interval
  <2>4. IsFiniteSet(R)
    <3> HIDE DEF F, R, ops
    <3> QED  BY <2>2, <2>3, FS_Surjection
  <2>5. ASSUME NEW k \in DOMAIN ops PROVE IsFiniteSet({k} \X PinnedThrough(ops[k], o))
    <3>1. PICK I : I = {k}
      OBVIOUS
    <3>2. PICK N : N = PinnedThrough(ops[k], o)
      OBVIOUS
    <3>3. IsFiniteSet(I)
      BY <3>1, FS_Singleton
    <3>4. N \in SUBSET Objects
      BY <1>2, <3>2
    <3>5. IsFiniteSet(N)
      BY <3>4, LifetimesAssumption, FS_Subset
    <3>6. IsFiniteSet(I \X N)
      BY ONLY <3>3, <3>5, FS_Product
    <3> QED  BY <3>1, <3>2, <3>6
  <2>6. \A T \in R : IsFiniteSet(T)
    BY <2>5
  <2>7. IsFiniteSet(UNION R)
    <3> HIDE DEF R
    <3> QED  BY <2>4, <2>6, FS_UNION
  <2>8. ASSUME o \in CommandBuffers PROVE UNION R = {}
    <3>1. \A k \in DOMAIN ops : PinnedThrough(ops[k], o) = {}
      BY <1>1, <2>8, PinnedAre
    <3>2. \A k \in DOMAIN ops : {k} \X PinnedThrough(ops[k], o) = {}
      BY <3>1
    <3> QED  BY <3>2
  <2> QED  BY <1>4, <2>1, <2>7, <2>8
<1> QED  BY <1>3, <1>4

Weight(o) == [part \in PartRecords(CommandBuffers) |-> PartPins(part, o)]

LEMMA SegmentPinsTally ==
    ASSUME NEW segs \in Queues, NEW o
    PROVE  SegmentPins(segs, o) = Tally(segs, Weight(o))
<1>1. \A at \in PartsOf(segs) : Weight(o)[PartAt(segs, at)] = PartPins(PartAt(segs, at), o)
  BY PartsAre DEF Weight
<1>2. {{at} \X Weight(o)[PartAt(segs, at)] : at \in PartsOf(segs)} =
          {{at} \X PartPins(PartAt(segs, at), o) : at \in PartsOf(segs)}
  BY <1>1
<1> QED  BY <1>2 DEF SegmentPins, Tally

LEMMA ReadyWeights ==
    ASSUME Inv, NEW segs, Ready(segs), NEW o
    PROVE  \A at \in PartsOf(segs) : IsFiniteSet(Weight(o)[PartAt(segs, at)])
<1>1. ASSUME NEW at \in PartsOf(segs) PROVE IsFiniteSet(Weight(o)[PartAt(segs, at)])
  <2>1. PartAt(segs, at) \in PartRecords(CommandBuffers) /\ Within(PartAt(segs, at))
    BY PartsAre DEF Ready
  <2> QED  BY <2>1, PartPinsAre DEF Weight
<1> QED  BY <1>1

LEMMA SegmentPinsCount ==
    ASSUME Inv, NEW segs, Ready(segs), NEW o
    PROVE  IsFiniteSet(SegmentPins(segs, o)) /\ Cardinality(SegmentPins(segs, o)) \in Nat
<1>1. segs \in Queues
  BY DEF Ready
<1> QED  BY <1>1, SegmentPinsTally, ReadyWeights, TallyFinite

LEMMA SegmentPinsJoin ==
    ASSUME Inv, NEW s, Ready(s), NEW t, Ready(t), NEW o
    PROVE  Cardinality(SegmentPins(s \o t, o)) =
               Cardinality(SegmentPins(s, o)) + Cardinality(SegmentPins(t, o))
<1>1. s \in Queues /\ t \in Queues
  BY DEF Ready
<1>2. s \o t \in Queues
  BY <1>1, PartsJoin
<1>3. /\ \A at \in PartsOf(s) : IsFiniteSet(Weight(o)[PartAt(s, at)])
      /\ \A at \in PartsOf(t) : IsFiniteSet(Weight(o)[PartAt(t, at)])
  BY ReadyWeights
<1>4. Cardinality(Tally(s \o t, Weight(o))) =
          Cardinality(Tally(s, Weight(o))) + Cardinality(Tally(t, Weight(o)))
  BY <1>1, <1>3, TallyJoin
<1> QED  BY <1>1, <1>2, <1>4, SegmentPinsTally

(* A command buffer is pinned by the parts that are of it.                 *)
LEMMA BufferPins ==
    ASSUME Inv, NEW segs, Ready(segs), NEW c \in CommandBuffers
    PROVE  Cardinality(SegmentPins(segs, c)) = 0 <=> c \notin InSegments(segs)
<1>1. segs \in Queues
  BY DEF Ready
<1>2. ASSUME NEW at \in PartsOf(segs)
      PROVE  PartPins(PartAt(segs, at), c) =
                 IF c = PartAt(segs, at).buffer THEN {<<0, c>>} ELSE {}
  <2>1. PartAt(segs, at) \in PartRecords(CommandBuffers) /\ Within(PartAt(segs, at))
    BY <1>1, PartsAre DEF Ready
  <2> QED  BY <2>1, PartPinsAre
<1>3. SegmentPins(segs, c) = {} <=> \A at \in PartsOf(segs) : PartPins(PartAt(segs, at), c) = {}
  <2>1. \A x : x \in SegmentPins(segs, c) <=>
            \E at \in PartsOf(segs) : \E y \in PartPins(PartAt(segs, at), c) : x = <<at, y>>
    BY DEF SegmentPins
  <2>2. \A at \in PartsOf(segs) : \A y \in PartPins(PartAt(segs, at), c) :
            <<at, y>> \in SegmentPins(segs, c)
    BY <2>1
  <2> QED  BY <2>1, <2>2
<1>4. SegmentPins(segs, c) = {} <=> \A at \in PartsOf(segs) : c # PartAt(segs, at).buffer
  BY <1>2, <1>3
<1>5. SegmentPins(segs, c) = {} <=> c \notin InSegments(segs)
  BY <1>4 DEF InSegments
<1> QED  BY <1>5, SegmentPinsCount, FS_EmptySet

LEMMA InSegmentsJoin ==
    ASSUME NEW s \in Queues, NEW t \in Queues
    PROVE  /\ InSegments(s \o t) = InSegments(s) \cup InSegments(t)
           /\ InSegments(s) \subseteq CommandBuffers /\ IsFiniteSet(InSegments(s))
<1>1. \A c : c \in InSegments(s \o t) <=>
          \E at \in PartsOf(s \o t) : c = PartAt(s \o t, at).buffer
  BY DEF InSegments
<1>2. \A c : c \in InSegments(s) <=> \E at \in PartsOf(s) : c = PartAt(s, at).buffer
  BY DEF InSegments
<1>3. \A c : c \in InSegments(t) <=> \E at \in PartsOf(t) : c = PartAt(t, at).buffer
  BY DEF InSegments
<1>4. InSegments(s \o t) = InSegments(s) \cup InSegments(t)
  BY <1>1, <1>2, <1>3, PartsJoin
<1>5. InSegments(s) \subseteq CommandBuffers
  BY <1>2, PartsAre DEF PartRecords
<1> DEFINE F == [at \in PartsOf(s) |-> PartAt(s, at).buffer]
<1>6. F \in Surjection(PartsOf(s), InSegments(s))
  BY <1>2 DEF Surjection
<1> HIDE DEF F
<1>7. IsFiniteSet(InSegments(s))
  BY <1>6, PartsAre, FS_Surjection
<1> QED  BY <1>4, <1>5, <1>7

(* Events are pinned by buffers.                                           *)
LEMMA EventPinsAre ==
    ASSUME NEW buffers, NEW o, NEW x
    PROVE  x \in EventPins(buffers, o) <=>
               \E c \in buffers : \E k \in DOMAIN cmd[c].ops :
                   /\ cmd[c].ops[k].kind = "wait" /\ o \in cmd[c].ops[k].uses
                   /\ x = <<c, k>>
BY DEF EventPins

LEMMA EventPinsCount ==
    ASSUME Inv, NEW buffers \in SUBSET CommandBuffers, IsFiniteSet(buffers), NEW o
    PROVE  /\ IsFiniteSet(EventPins(buffers, o)) /\ Cardinality(EventPins(buffers, o)) \in Nat
           /\ o \in CommandBuffers => EventPins(buffers, o) = {}
<1> DEFINE waits(c) == {k \in DOMAIN cmd[c].ops :
                            cmd[c].ops[k].kind = "wait" /\ o \in cmd[c].ops[k].uses}
           F == [c \in buffers |-> {c} \X waits(c)]
           R == {{c} \X waits(c) : c \in buffers}
<1>1. ASSUME NEW c \in buffers
      PROVE  /\ IsFiniteSet(waits(c))
             /\ o \in CommandBuffers => waits(c) = {}
  <2>1. Sound(over, live, cmd[c])
    BY DEF Inv
  <2>2. PICK S : cmd[c].ops \in Seq(S)
    BY <2>1 DEF Sound, Shaped
  <2>3. DOMAIN cmd[c].ops = 1..Len(cmd[c].ops) /\ Len(cmd[c].ops) \in Nat
    BY <2>2
  <2>4. PICK n \in Nat : DOMAIN cmd[c].ops = 1..n
    BY <2>3
  <2>5. IsFiniteSet(DOMAIN cmd[c].ops)
    BY <2>4, FS_Interval
  <2>6. waits(c) \in SUBSET (DOMAIN cmd[c].ops)
    OBVIOUS
  <2>7. IsFiniteSet(waits(c))
    <3> HIDE DEF waits
    <3> QED  BY <2>5, <2>6, FS_Subset
  <2>8. ASSUME o \in CommandBuffers, NEW k \in waits(c) PROVE FALSE
    <3>1. cmd[c].ops[k] \in ToSet(cmd[c].ops)
      BY DEF ToSet
    <3>2. o \in Objects
      BY <2>1, <3>1 DEF Sound, Allowed
    <3> QED  BY <2>8, <3>2, LifetimesAssumption
  <2> QED  BY <2>7, <2>8
<1>2. EventPins(buffers, o) = UNION R
  BY DEF EventPins
<1>3. F \in Surjection(buffers, R)
  BY DEF Surjection
<1>4. IsFiniteSet(R)
  <2> HIDE DEF F, R
  <2> QED  BY <1>3, FS_Surjection
<1>5. ASSUME NEW c \in buffers PROVE IsFiniteSet({c} \X waits(c))
  <2>1. PICK I : I = {c}
    OBVIOUS
  <2>2. PICK N : N = waits(c)
    OBVIOUS
  <2>3. IsFiniteSet(I) /\ IsFiniteSet(N)
    <3> HIDE DEF waits
    <3> QED  BY <1>1, <2>1, <2>2, FS_Singleton
  <2>4. IsFiniteSet(I \X N)
    BY ONLY <2>3, FS_Product
  <2> QED  BY <2>1, <2>2, <2>4
<1>6. \A T \in R : IsFiniteSet(T)
  <2> HIDE DEF waits
  <2> QED  BY <1>5
<1>7. IsFiniteSet(UNION R)
  <2> HIDE DEF R
  <2> QED  BY <1>4, <1>6, FS_UNION
<1>8. ASSUME o \in CommandBuffers PROVE EventPins(buffers, o) = {}
  <2>1. \A c \in buffers : waits(c) = {}
    BY <1>1, <1>8
  <2> HIDE DEF waits
  <2>2. \A c \in buffers : {c} \X waits(c) = {}
    BY <2>1
  <2> QED  BY <1>2, <2>2
<1> HIDE DEF R
<1> QED  BY <1>2, <1>7, <1>8, FS_CardinalityType

LEMMA EventPinsJoin ==
    ASSUME Inv, NEW A \in SUBSET CommandBuffers, IsFiniteSet(A),
           NEW B \in SUBSET CommandBuffers, IsFiniteSet(B), A \cap B = {}, NEW o
    PROVE  Cardinality(EventPins(A \cup B, o)) =
               Cardinality(EventPins(A, o)) + Cardinality(EventPins(B, o))
<1>1. /\ IsFiniteSet(EventPins(A, o)) /\ Cardinality(EventPins(A, o)) \in Nat
      /\ IsFiniteSet(EventPins(B, o)) /\ Cardinality(EventPins(B, o)) \in Nat
  BY EventPinsCount
<1>2. EventPins(A \cup B, o) = EventPins(A, o) \cup EventPins(B, o)
  <2>1. \A x : x \in EventPins(A \cup B, o) <=> x \in EventPins(A, o) \/ x \in EventPins(B, o)
    BY EventPinsAre
  <2> QED  BY <2>1
<1>3. EventPins(A, o) \cap EventPins(B, o) = {}
  <2>1. \A x \in EventPins(A, o) : x[1] \in A
    BY EventPinsAre
  <2>2. \A x \in EventPins(B, o) : x[1] \in B
    BY EventPinsAre
  <2> QED  BY <2>1, <2>2
<1>4. PICK S, T : S = EventPins(A, o) /\ T = EventPins(B, o)
  OBVIOUS
<1>5. Cardinality(S \cup T) = Cardinality(S) + Cardinality(T)
  BY ONLY <1>1, <1>3, <1>4, DisjointCount
<1> QED  BY <1>2, <1>4, <1>5

(* Steps that leave a recording and what its render passes attach as they  *)
(* are leave what it pins as it is.                                        *)
Steady(c) ==
    /\ cmd'[c].ops = cmd[c].ops
    /\ \A op \in ToSet(cmd[c].ops) :
           /\ \A f \in op.uses \cap Framebuffers : over'[f] = over[f]
           /\ \A v : Attached(over, op, v) => over'[v] = over[v]

LEMMA SamePins ==
    ASSUME Inv, NEW segs, Ready(segs), \A c \in InSegments(segs) : Steady(c), NEW o,
           NEW buffers, buffers \subseteq InSegments(segs)
    PROVE  /\ SegmentPins(segs, o)' = SegmentPins(segs, o)
           /\ EventPins(buffers, o)' = EventPins(buffers, o)
<1>1. segs \in Queues
  BY DEF Ready
<1>2. ASSUME NEW c \in InSegments(segs), NEW op \in ToSet(cmd[c].ops)
      PROVE  PinnedThrough(op, o)' = PinnedThrough(op, o)
  <2>1. Attachments(op)' = Attachments(op)
    BY <1>2 DEF Attachments, Steady
  <2>2. \A x \in Attachments(op) : over'[x] = over[x]
    BY <1>2, AttachmentsNamed DEF Steady
  <2> QED  BY <2>1, <2>2 DEF PinnedThrough
<1>3. ASSUME NEW at \in PartsOf(segs)
      PROVE  PartPins(PartAt(segs, at), o)' = PartPins(PartAt(segs, at), o)
  <2>1. PICK part \in PartRecords(CommandBuffers) : part = PartAt(segs, at) /\ Within(part)
    BY <1>1, PartsAre DEF Ready
  <2>2. part.buffer \in InSegments(segs)
    BY <2>1 DEF InSegments
  <2>3. Operations(part)' = Operations(part)
    BY <2>2 DEF Steady, Operations
  <2>4. \A k \in DOMAIN Operations(part) :
            Operations(part)[k] \in ToSet(cmd[part.buffer].ops)
    BY <2>1, OperationsAre DEF ToSet
  <2>5. PICK ops : ops = Operations(part)
    OBVIOUS
  <2>6. \A k \in DOMAIN ops : PinnedThrough(ops[k], o)' = PinnedThrough(ops[k], o)
    BY <1>2, <2>2, <2>4, <2>5
  <2>7. PartPins(part, o) = IF o = part.buffer THEN {<<0, o>>}
                            ELSE UNION {{k} \X PinnedThrough(ops[k], o) : k \in DOMAIN ops}
    BY <2>5 DEF PartPins
  <2>8. PartPins(part, o)' = IF o = part.buffer THEN {<<0, o>>}
                             ELSE UNION {{k} \X PinnedThrough(ops[k], o)' : k \in DOMAIN ops}
    BY <2>3, <2>5 DEF PartPins
  <2>9. {{k} \X PinnedThrough(ops[k], o)' : k \in DOMAIN ops} =
            {{k} \X PinnedThrough(ops[k], o) : k \in DOMAIN ops}
    BY <2>6
  <2>10. PartPins(part, o)' = PartPins(part, o)
    BY <2>7, <2>8, <2>9
  <2> QED  BY <2>1, <2>10
<1>4. {{at} \X PartPins(PartAt(segs, at), o)' : at \in PartsOf(segs)} =
          {{at} \X PartPins(PartAt(segs, at), o) : at \in PartsOf(segs)}
  BY <1>3
<1>5. SegmentPins(segs, o)' = SegmentPins(segs, o)
  BY <1>4 DEF SegmentPins
<1>6. \A c \in buffers : cmd'[c].ops = cmd[c].ops
  BY DEF Steady
<1>7. \A x : x \in EventPins(buffers, o)' <=> x \in EventPins(buffers, o)
  BY <1>6 DEF EventPins
<1>8. EventPins(buffers, o)' = EventPins(buffers, o)
  BY <1>7
<1> QED  BY <1>5, <1>8

(* The queue and the pending counts.                                       *)
Accounted(segs, count) ==
    /\ count = [o \in Objects \cup CommandBuffers |-> count[o]]
    /\ \A o \in Objects \cup CommandBuffers :
           count[o] = PinsOf(segs, InSegments(segs), o)

Queued ==
    /\ Ready(queue)
    /\ \A c \in CommandBuffers : cmd[c].state = "pending" <=> c \in InSegments(queue)
    /\ Accounted(queue, pins)

LEMMA ReadyJoin ==
    ASSUME NEW s \in Queues, NEW t \in Queues
    PROVE  Ready(s \o t) <=> Ready(s) /\ Ready(t)
<1>1. s \o t \in Queues
  BY PartsJoin
<1>2. ASSUME Ready(s \o t) PROVE Ready(s) /\ Ready(t)
  <2>1. \A at \in PartsOf(s) : Within(PartAt(s, at))
    BY <1>2, PartsJoin DEF Ready
  <2>2. \A at \in PartsOf(t) : Within(PartAt(t, at))
    <3>1. ASSUME NEW at \in PartsOf(t) PROVE Within(PartAt(t, at))
      <4>1. Behind(Len(s), at) \in PartsOf(s \o t)
        BY PartsJoin
      <4>2. Within(PartAt(s \o t, Behind(Len(s), at)))
        BY <1>2, <4>1 DEF Ready
      <4>3. PartAt(s \o t, Behind(Len(s), at)) = PartAt(t, at)
        BY PartsJoin
      <4> QED  BY <4>2, <4>3
    <3> QED  BY <3>1
  <2> QED  BY <2>1, <2>2 DEF Ready
<1>3. ASSUME Ready(s), Ready(t) PROVE Ready(s \o t)
  <2>1. ASSUME NEW at \in PartsOf(s \o t) PROVE Within(PartAt(s \o t, at))
    <3>1. CASE at \in PartsOf(s)
      <4>1. PartAt(s \o t, at) = PartAt(s, at)
        BY <3>1, PartsJoin
      <4> QED  BY <1>3, <3>1, <4>1 DEF Ready
    <3>2. CASE \E b \in PartsOf(t) : at = Behind(Len(s), b)
      <4>1. PICK b \in PartsOf(t) : at = Behind(Len(s), b)
        BY <3>2
      <4>2. PartAt(s \o t, Behind(Len(s), b)) = PartAt(t, b)
        BY PartsJoin
      <4> QED  BY <1>3, <4>1, <4>2 DEF Ready
    <3> QED  BY <3>1, <3>2, PartsJoin
  <2> QED  BY <1>1, <2>1 DEF Ready
<1> QED  BY <1>2, <1>3

(* Parts that were within their recordings still are.                      *)
LEMMA StillReady ==
    ASSUME NEW segs, Ready(segs),
           \A c \in InSegments(segs) : /\ cmd'[c].ops = cmd[c].ops
                                       /\ cmd'[c].state \in Counting
    PROVE  Ready(segs)'
<1>1. ASSUME NEW at \in PartsOf(segs) PROVE Within(PartAt(segs, at))'
  <2>1. PICK part : part = PartAt(segs, at) /\ Within(part) /\ part.buffer \in InSegments(segs)
    BY DEF Ready, InSegments
  <2>2. Within(part)'
    BY <2>1 DEF Within
  <2> QED  BY <2>1, <2>2
<1> QED  BY <1>1 DEF Ready

(* Nothing pending changes.                                                *)
LEMMA QueueKept ==
    ASSUME Inv, Queued, UNCHANGED <<pins, queue>>,
           \A c \in CommandBuffers :
               /\ cmd[c].state = "pending" => Steady(c) /\ cmd'[c].state = "pending"
               /\ cmd'[c].state = "pending" => cmd[c].state = "pending"
    PROVE  Queued'
<1>1. PICK q : q = queue
  OBVIOUS
<1>2. q \in Queues /\ Ready(q)
  BY <1>1 DEF Queued, Ready
<1>3. \A c \in InSegments(q) : Steady(c) /\ cmd'[c].state = "pending"
  <2>1. InSegments(q) \subseteq CommandBuffers
    BY <1>2, InSegmentsJoin
  <2> QED  BY <1>1, <2>1 DEF Queued
<1>4. Ready(q)'
  BY <1>2, <1>3, StillReady DEF Steady, Counting
<1>5. \A c \in CommandBuffers : cmd'[c].state = "pending" <=> c \in InSegments(q)
  BY <1>1 DEF Queued
<1>6. ASSUME NEW o \in Objects \cup CommandBuffers
      PROVE  PinsOf(q, InSegments(q), o)' = PinsOf(q, InSegments(q), o)
  <2>1. PICK b : b = InSegments(q)
    OBVIOUS
  <2>2. SegmentPins(q, o)' = SegmentPins(q, o) /\ EventPins(b, o)' = EventPins(b, o)
    BY <1>2, <1>3, <2>1, SamePins
  <2> QED  BY <2>1, <2>2 DEF PinsOf
<1>7. Accounted(q, pins)
  BY <1>1 DEF Queued
<1>8. Accounted(q, pins)'
  BY <1>6, <1>7 DEF Accounted
<1> QED  BY <1>1, <1>4, <1>5, <1>8 DEF Queued

(* The pins of a command buffer are the parts that are of it.              *)
LEMMA BufferCount ==
    ASSUME Inv, Queued, NEW c \in CommandBuffers
    PROVE  pins[c] = Cardinality(SegmentPins(queue, c))
<1>1. queue \in Queues
  BY DEF Queued, Ready
<1>2. InSegments(queue) \in SUBSET CommandBuffers /\ IsFiniteSet(InSegments(queue))
  BY <1>1, InSegmentsJoin
<1>3. EventPins(InSegments(queue), c) = {}
  BY <1>2, EventPinsCount
<1>4. Cardinality(SegmentPins(queue, c)) \in Nat
  BY SegmentPinsCount DEF Queued
<1>5. pins[c] = Cardinality(SegmentPins(queue, c)) + Cardinality(EventPins(InSegments(queue), c))
  BY DEF Queued, Accounted, PinsOf
<1> QED  BY <1>3, <1>4, <1>5, FS_EmptySet

(* A submission of runnable recordings.                                    *)
LEMMA QueueSubmit ==
    ASSUME Inv, Queued, NEW segs, Ready(segs), Pin(segs), queue' = queue \o segs,
           UNCHANGED objects
    PROVE  Queued'
<1>1. PICK q : q = queue /\ q \in Queues /\ Ready(q)
  BY DEF Queued, Ready
<1>2. segs \in Queues
  BY DEF Ready
<1> DEFINE A == InSegments(q)
           B == InSegments(segs)
           starting == {c \in B : pins[c] = 0}
<1>3. PICK u : u = q \o segs
  OBVIOUS
<1>4. u \in Queues /\ Ready(u)
  BY <1>1, <1>2, <1>3, PartsJoin, ReadyJoin
<1>5. /\ InSegments(u) = A \cup B
      /\ A \in SUBSET CommandBuffers /\ IsFiniteSet(A)
      /\ B \in SUBSET CommandBuffers /\ IsFiniteSet(B)
  BY <1>1, <1>2, <1>3, InSegmentsJoin
<1>6. starting = B \ A
  <2>1. ASSUME NEW c \in B PROVE pins[c] = 0 <=> c \notin A
    BY <1>1, <1>5, BufferCount, BufferPins
  <2> QED  BY <2>1
<1>7. /\ pins' = [o \in DOMAIN pins |-> pins[o] + PinsOf(segs, starting, o)]
      /\ cmd' = [c \in CommandBuffers |->
                    IF c \in B THEN [cmd[c] EXCEPT !.state = "pending"] ELSE cmd[c]]
  BY DEF Pin
<1> HIDE DEF A, B, starting
<1>8. ASSUME NEW c \in CommandBuffers
      PROVE  /\ cmd'[c].ops = cmd[c].ops /\ Steady(c)
             /\ cmd'[c].state = IF c \in B THEN "pending" ELSE cmd[c].state
  <2>1. Shaped(cmd[c])
    BY DEF Inv, Sound
  <2>2. [cmd[c] EXCEPT !.state = "pending"] =
            [state |-> "pending", usage |-> cmd[c].usage, bound |-> cmd[c].bound,
             ops |-> cmd[c].ops]
    BY <2>1, Fields
  <2>3. cmd'[c].ops = cmd[c].ops /\ cmd'[c].state = IF c \in B THEN "pending" ELSE cmd[c].state
    BY <1>7, <2>2
  <2> QED  BY <2>3 DEF Steady, objects
<1>9. \A c \in CommandBuffers : cmd'[c].state = "pending" <=> c \in A \cup B
  BY <1>1, <1>8 DEF Queued, A
<1>10. Ready(u)'
  <2>1. \A c \in InSegments(u) : cmd'[c].ops = cmd[c].ops /\ cmd'[c].state \in Counting
    BY <1>5, <1>8, <1>9 DEF Counting
  <2> QED  BY <1>4, <2>1, StillReady
<1>11. ASSUME NEW o \in Objects \cup CommandBuffers
       PROVE  pins'[o] = PinsOf(u, InSegments(u), o)'
  <2>1. SegmentPins(u, o)' = SegmentPins(u, o)
        /\ EventPins(A \cup B, o)' = EventPins(A \cup B, o)
    <3>1. \A c \in InSegments(u) : Steady(c)
      BY <1>5, <1>8
    <3>2. PICK b : b = A \cup B
      OBVIOUS
    <3>3. SegmentPins(u, o)' = SegmentPins(u, o) /\ EventPins(b, o)' = EventPins(b, o)
      BY <1>4, <1>5, <3>1, <3>2, SamePins
    <3> QED  BY <3>2, <3>3 DEF A, B
  <2>2. Cardinality(SegmentPins(u, o)) =
            Cardinality(SegmentPins(q, o)) + Cardinality(SegmentPins(segs, o))
    BY <1>1, <1>3, SegmentPinsJoin
  <2>3. Cardinality(EventPins(A \cup B, o)) =
            Cardinality(EventPins(A, o)) + Cardinality(EventPins(starting, o))
    <3>1. PICK C : C = B \ A
      OBVIOUS
    <3>2. A \cup B = A \cup C /\ A \cap C = {} /\ C \in SUBSET CommandBuffers
      BY <1>5, <3>1
    <3>3. IsFiniteSet(C)
      BY <1>5, <3>1, FS_Difference
    <3>4. Cardinality(EventPins(A \cup C, o)) =
              Cardinality(EventPins(A, o)) + Cardinality(EventPins(C, o))
      BY <1>5, <3>2, <3>3, EventPinsJoin
    <3> QED  BY <1>6, <3>1, <3>2, <3>4
  <2>4. /\ Cardinality(SegmentPins(q, o)) \in Nat /\ Cardinality(SegmentPins(segs, o)) \in Nat
        /\ Cardinality(EventPins(A, o)) \in Nat /\ Cardinality(EventPins(starting, o)) \in Nat
    <3>1. starting \in SUBSET CommandBuffers /\ IsFiniteSet(starting)
      BY <1>5, <1>6, FS_Difference
    <3> QED  BY <1>1, <1>5, <3>1, SegmentPinsCount, EventPinsCount
  <2>5. pins[o] = Cardinality(SegmentPins(q, o)) + Cardinality(EventPins(A, o))
    BY <1>1 DEF Queued, Accounted, PinsOf, A
  <2>6. DOMAIN pins = Objects \cup CommandBuffers
    BY DEF Queued, Accounted
  <2>7. pins'[o] = pins[o] + (Cardinality(SegmentPins(segs, o))
                                + Cardinality(EventPins(starting, o)))
    BY <1>7, <2>6 DEF PinsOf
  <2>8. PinsOf(u, InSegments(u), o)' =
            Cardinality(SegmentPins(u, o)') + Cardinality(EventPins(A \cup B, o)')
    BY <1>5 DEF PinsOf, A, B
  <2> QED  BY <2>1, <2>2, <2>3, <2>4, <2>5, <2>7, <2>8
<1>12. Accounted(u, pins)'
  <2>1. DOMAIN pins = Objects \cup CommandBuffers
    BY DEF Queued, Accounted
  <2>2. pins' = [o \in Objects \cup CommandBuffers |-> pins'[o]]
    BY <1>7, <2>1
  <2> QED  BY <1>11, <2>2 DEF Accounted
<1> QED  BY <1>1, <1>3, <1>5, <1>9, <1>10, <1>12 DEF Queued

(* The segment at the head retires.                                        *)
LEMMA QueueRetire ==
    ASSUME Inv, Queued, Retire
    PROVE  Queued'
<1>1. PICK q : q = queue /\ q \in Queues /\ Ready(q)
  BY DEF Queued, Ready
<1>2. q # <<>> /\ Unpin(<<Head(q)>>) /\ queue' = Tail(q) /\ UNCHANGED objects
  BY <1>1 DEF Retire
<1>3. PICK h, t : h = <<Head(q)>> /\ t = Tail(q)
  OBVIOUS
<1>4. h \in Queues /\ t \in Queues /\ q = h \o t
  BY <1>1, <1>2, <1>3 DEF Queues
<1>5. Ready(h) /\ Ready(t)
  BY <1>1, <1>4, ReadyJoin
<1> DEFINE H == InSegments(h)
           T == InSegments(t)
           ended == {c \in H : pins[c] = Cardinality(SegmentPins(h, c))}
<1>6. /\ InSegments(q) = H \cup T
      /\ H \in SUBSET CommandBuffers /\ IsFiniteSet(H)
      /\ T \in SUBSET CommandBuffers /\ IsFiniteSet(T)
  BY <1>4, InSegmentsJoin
<1>7. ended = H \ T
  <2>1. ASSUME NEW c \in H
        PROVE  pins[c] = Cardinality(SegmentPins(h, c)) <=> c \notin T
    <3>1. pins[c] = Cardinality(SegmentPins(h, c)) + Cardinality(SegmentPins(t, c))
      BY <1>1, <1>4, <1>5, <1>6, BufferCount, SegmentPinsJoin
    <3>2. Cardinality(SegmentPins(h, c)) \in Nat /\ Cardinality(SegmentPins(t, c)) \in Nat
      BY <1>5, SegmentPinsCount
    <3>3. Cardinality(SegmentPins(t, c)) = 0 <=> c \notin T
      BY <1>5, <1>6, BufferPins
    <3> QED  BY <3>1, <3>2, <3>3
  <2> QED  BY <2>1
<1>8. /\ pins' = [o \in DOMAIN pins |-> pins[o] - PinsOf(h, ended, o)]
      /\ cmd' = [c \in CommandBuffers |->
                    IF c \notin ended THEN cmd[c]
                    ELSE IF cmd[c].usage = "oneTime" THEN Nothing("invalid")
                    ELSE [cmd[c] EXCEPT !.state = "executable"]]
  BY <1>2, <1>3 DEF Unpin
<1> HIDE DEF H, T, ended
<1>9. ASSUME NEW c \in CommandBuffers
      PROVE  /\ c \notin ended => cmd'[c] = cmd[c] /\ Steady(c)
             /\ c \in ended => cmd'[c].state # "pending"
  <2>1. [cmd[c] EXCEPT !.state = "executable"] =
            [state |-> "executable", usage |-> cmd[c].usage, bound |-> cmd[c].bound,
             ops |-> cmd[c].ops]
    BY Fields DEF Inv, Sound
  <2>2. c \in ended => cmd'[c].state # "pending"
    BY <1>8, <2>1 DEF Nothing
  <2>3. c \notin ended => cmd'[c] = cmd[c]
    BY <1>8
  <2> QED  BY <1>2, <2>2, <2>3 DEF Steady, objects
<1>10. \A c \in CommandBuffers : cmd[c].state = "pending" <=> c \in H \cup T
  BY <1>1, <1>6 DEF Queued
<1>11. \A c \in CommandBuffers : cmd'[c].state = "pending" <=> c \in T
  BY <1>7, <1>9, <1>10
<1>12. \A c \in T : cmd'[c].ops = cmd[c].ops /\ Steady(c) /\ cmd'[c].state = "pending"
  BY <1>6, <1>7, <1>9, <1>11
<1>13. Ready(t)'
  BY <1>5, <1>12, StillReady DEF T, Counting
<1>14. ASSUME NEW o \in Objects \cup CommandBuffers
       PROVE  pins'[o] = PinsOf(t, InSegments(t), o)'
  <2>1. SegmentPins(t, o)' = SegmentPins(t, o) /\ EventPins(T, o)' = EventPins(T, o)
    <3>1. PICK b : b = InSegments(t)
      OBVIOUS
    <3>2. SegmentPins(t, o)' = SegmentPins(t, o) /\ EventPins(b, o)' = EventPins(b, o)
      BY <1>5, <1>12, <3>1, SamePins DEF T
    <3> QED  BY <3>1, <3>2 DEF T
  <2>2. Cardinality(SegmentPins(q, o)) =
            Cardinality(SegmentPins(h, o)) + Cardinality(SegmentPins(t, o))
    BY <1>4, <1>5, SegmentPinsJoin
  <2>3. Cardinality(EventPins(H \cup T, o)) =
            Cardinality(EventPins(T, o)) + Cardinality(EventPins(ended, o))
    <3>1. PICK C : C = H \ T
      OBVIOUS
    <3>2. H \cup T = T \cup C /\ T \cap C = {} /\ C \in SUBSET CommandBuffers
      BY <1>6, <3>1
    <3>3. IsFiniteSet(C)
      BY <1>6, <3>1, FS_Difference
    <3>4. Cardinality(EventPins(T \cup C, o)) =
              Cardinality(EventPins(T, o)) + Cardinality(EventPins(C, o))
      BY <1>6, <3>2, <3>3, EventPinsJoin
    <3> QED  BY <1>7, <3>1, <3>2, <3>4
  <2>4. /\ Cardinality(SegmentPins(h, o)) \in Nat /\ Cardinality(SegmentPins(t, o)) \in Nat
        /\ Cardinality(EventPins(T, o)) \in Nat /\ Cardinality(EventPins(ended, o)) \in Nat
    <3>1. ended \in SUBSET CommandBuffers /\ IsFiniteSet(ended)
      BY <1>6, <1>7, FS_Difference
    <3> QED  BY <1>5, <1>6, <3>1, SegmentPinsCount, EventPinsCount
  <2>5. pins[o] = Cardinality(SegmentPins(q, o)) + Cardinality(EventPins(H \cup T, o))
    BY <1>1, <1>6 DEF Queued, Accounted, PinsOf
  <2>6. DOMAIN pins = Objects \cup CommandBuffers
    BY DEF Queued, Accounted
  <2>7. pins'[o] = pins[o] - (Cardinality(SegmentPins(h, o))
                                + Cardinality(EventPins(ended, o)))
    BY <1>8, <2>6 DEF PinsOf
  <2>8. PinsOf(t, InSegments(t), o)' =
            Cardinality(SegmentPins(t, o)') + Cardinality(EventPins(T, o)')
    BY DEF PinsOf, T
  <2> QED  BY <2>1, <2>2, <2>3, <2>4, <2>5, <2>7, <2>8
<1>15. Accounted(t, pins)'
  <2>1. DOMAIN pins = Objects \cup CommandBuffers
    BY DEF Queued, Accounted
  <2>2. pins' = [o \in Objects \cup CommandBuffers |-> pins'[o]]
    BY <1>8, <2>1
  <2> QED  BY <1>14, <2>2 DEF Accounted
<1> QED  BY <1>2, <1>3, <1>11, <1>13, <1>15 DEF Queued, T

-----------------------------------------------------------------------------
(* What may be recorded, and what of it stays while the recording counts.  *)

(* Secondaries are named and name none, and render passes, with their      *)
(* framebuffers, are begun in primaries.                                   *)
Formed(c, op) ==
    /\ op.children \in Seq(Secondaries)
    /\ c \in Secondaries => op.children = <<>> /\ op.uses \cap Framebuffers = {}

AllFormed == \A c \in CommandBuffers : \A op \in ToSet(cmd[c].ops) : Formed(c, op)

(* A secondary that is named still holds what was recorded, or is invalid. *)
Holds(child, recorded) ==
    /\ child.state \in {"executable", "pending", "invalid"}
    /\ child.state # "invalid" => child.ops = recorded

Kept(p) ==
    cmd[p].state \in Counting =>
        \A op \in ToSet(cmd[p].ops) : \A n \in DOMAIN op.children :
            Holds(cmd[op.children[n]], op.recorded[n])

AllKept == \A p \in CommandBuffers : Kept(p)

(* The buffers and images of a recording keep their memory, those it       *)
(* attaches once it is pending.                                            *)
InUse(of, op, x) == x \in op.uses \/ \E s \in op.sets : InSet(of, s, x)
Viewed(of, op, x) == \E v : Attached(of, op, v) /\ x \in of[v]

Supplied(of, r) ==
    \A op \in ToSet(r.ops) : \A x \in Resources :
        /\ r.state \in Counting /\ InUse(of, op, x) => of[x] # {}
        /\ r.state = "pending" /\ Viewed(of, op, x) => of[x] # {}

AllSupplied == \A c \in CommandBuffers : Supplied(over, cmd[c])

Whole == Inv /\ AllFormed /\ AllKept /\ AllSupplied /\ Queued

LEMMA NothingRecorded ==
    ASSUME NEW of, NEW r, r.ops = <<>>
    PROVE  ToSet(r.ops) = {} /\ Supplied(of, r)
BY DEF ToSet, Supplied

(* A step that changes objects leaves a recording as it is, or invalidates *)
(* it when it is not pending.                                              *)
LEMMA ObjectBuffers ==
    ASSUME Inv, NEW gone, Changed(gone), NEW c \in CommandBuffers
    PROVE  \/ cmd[c].state # "pending" /\ cmd'[c] = Nothing("invalid")
           \/ /\ cmd'[c] = cmd[c]
              /\ cmd[c].state \in Counting =>
                     Steady(c) /\ (Supplied(over, cmd[c]) => Supplied(over', cmd[c]))
<1>0. /\ cmd' = Invalidate(gone) /\ \A o \in gone : ~Held(o)
      /\ Layered(over, live) /\ Sound(over, live, cmd[c])
      /\ \A o \in live \ (gone \cup Memories) :
             /\ o \in live'
             /\ o \notin Resources => over'[o] = over[o]
             /\ o \in Resources /\ over[o] # {} => over'[o] # {}
  BY DEF Changed, Inv
<1>1. CASE References(c) \cap gone # {}
  <2>1. cmd'[c] = Nothing("invalid")
    BY <1>0, <1>1 DEF Invalidate
  <2>2. cmd[c].state # "pending"
    BY <1>0, <1>1 DEF Held, In
  <2> QED  BY <2>1, <2>2
<1>2. CASE References(c) \cap gone = {}
  <2>1. cmd'[c] = cmd[c]
    BY <1>0, <1>2 DEF Invalidate
  <2>2. ASSUME cmd[c].state \in Counting
        PROVE  Steady(c) /\ (Supplied(over, cmd[c]) => Supplied(over', cmd[c]))
    <3>1. \A x : Named(over, cmd[c], x) => x \notin gone
      BY <1>2, <2>2, ReferencesNamed
    <3>2. \A x : Named(over, cmd[c], x) =>
              /\ x \in live \ Memories => x \in live'
              /\ x \in live \ (Memories \cup Resources) => over'[x] = over[x]
      BY <1>0, <3>1
    <3>3. \A x : Named(over, cmd[c], x) => x \in live \ Memories
      BY <1>0, <2>2, Reached
    <3>4. Unmoved(over, cmd[c], over', live')
      BY <1>0, <2>2, <3>2, SameNames
    <3>6. Steady(c)
      BY <2>1, <3>4 DEF Steady, Unmoved
    <3>7. ASSUME Supplied(over, cmd[c]), NEW op \in ToSet(cmd[c].ops), NEW x \in Resources
          PROVE  /\ InUse(over', op, x) => over'[x] # {}
                 /\ cmd[c].state = "pending" /\ Viewed(over', op, x) => over'[x] # {}
      <4>1. InUse(over', op, x) => InUse(over, op, x)
        BY <3>4 DEF InUse, Unmoved
      <4>2. Viewed(over', op, x) => Viewed(over, op, x)
        BY <3>4 DEF Viewed, Unmoved
      <4>3. InUse(over, op, x) \/ Viewed(over, op, x) => Named(over, cmd[c], x)
        BY DEF InUse, Viewed, Named, InOperation
      <4>4. Named(over, cmd[c], x) /\ over[x] # {} => over'[x] # {}
        BY <1>0, <3>1, <3>3
      <4> QED  BY <2>2, <3>7, <4>1, <4>2, <4>3, <4>4 DEF Supplied
    <3>8. Supplied(over, cmd[c]) => Supplied(over', cmd[c])
      BY <3>7 DEF Supplied
    <3> QED  BY <3>6, <3>8
  <2> QED  BY <2>1, <2>2
<1> QED  BY <1>1, <1>2

(* Recordings that stay or become invalid keep what they name.             *)
LEMMA ObjectsWhole ==
    ASSUME Whole, ObjectsChanged
    PROVE  Whole'
<1>1. PICK gone : Changed(gone)
  BY DEF ObjectsChanged
<1>2. Inv /\ Inv'
  BY <1>1, ObjectStep DEF Whole
<1>3. ASSUME NEW c \in CommandBuffers
      PROVE  \/ cmd[c].state # "pending" /\ cmd'[c] = Nothing("invalid")
             \/ cmd'[c] = cmd[c]
  BY <1>1, <1>2, ObjectBuffers
<1>4. /\ Nothing("invalid").state = "invalid" /\ Nothing("invalid").ops = <<>>
      /\ ToSet(<<>>) = {}
  BY DEF Nothing, ToSet
<1>5. AllFormed'
  <2>1. \A c \in CommandBuffers : \A op \in ToSet(cmd'[c].ops) : op \in ToSet(cmd[c].ops)
    BY <1>3, <1>4
  <2> QED  BY <2>1 DEF Whole, AllFormed, Formed
<1>6. AllKept'
  <2>1. ASSUME NEW p \in CommandBuffers, cmd'[p].state \in Counting,
               NEW op \in ToSet(cmd'[p].ops), NEW n \in DOMAIN op.children
        PROVE  Holds(cmd'[op.children[n]], op.recorded[n])
    <3>1. cmd'[p] = cmd[p]
      BY <1>3, <1>4, <2>1 DEF Counting
    <3>2. Holds(cmd[op.children[n]], op.recorded[n])
      BY <2>1, <3>1 DEF Whole, AllKept, Kept
    <3>3. op.children \in Seq(Secondaries)
      BY <3>1 DEF Whole, AllFormed, Formed
    <3>4. op.children[n] \in CommandBuffers
      BY <3>3, ElementOfSeq DEF CommandBuffers
    <3> QED  BY <1>3, <1>4, <3>2, <3>4 DEF Holds
  <2> QED  BY <2>1 DEF AllKept, Kept
<1>7. AllSupplied'
  <2>1. ASSUME NEW c \in CommandBuffers PROVE Supplied(over', cmd'[c])
    <3>1. CASE cmd'[c] = Nothing("invalid")
      BY <1>4, <3>1, NothingRecorded
    <3>2. CASE cmd'[c] = cmd[c] /\ cmd[c].state \in Counting
      <4>1. Supplied(over', cmd[c])
        BY <1>1, <1>2, <1>4, <3>2, ObjectBuffers DEF Whole, AllSupplied, Counting
      <4> QED  BY <3>2, <4>1
    <3>3. CASE cmd'[c] = cmd[c] /\ cmd[c].state \notin Counting
      BY <3>3 DEF Supplied, Counting
    <3> QED  BY <1>3, <3>1, <3>2, <3>3
  <2> QED  BY <2>1 DEF AllSupplied
<1>8. Queued'
  <2>1. ASSUME NEW c \in CommandBuffers
        PROVE  /\ cmd[c].state = "pending" => Steady(c) /\ cmd'[c].state = "pending"
               /\ cmd'[c].state = "pending" => cmd[c].state = "pending"
    <3>1. cmd[c].state = "pending" => Steady(c) /\ cmd'[c] = cmd[c]
      BY <1>1, <1>2, ObjectBuffers DEF Counting
    <3> QED  BY <1>3, <1>4, <3>1
  <2> QED  BY <1>1, <1>2, <2>1, QueueKept DEF Whole, Changed
<1> QED  BY <1>2, <1>5, <1>6, <1>7, <1>8 DEF Whole

(* An operation that may be appended.                                      *)
NewOperation(c, op) ==
    /\ Formed(c, op)
    /\ \A n \in DOMAIN op.children : /\ Runnable(op.children[n])
                                    /\ op.recorded[n] = cmd[op.children[n]].ops
    /\ \A x \in Resources : InUse(over, op, x) => over[x] # {}

(* What the calls that record do to a command buffer: none touches one     *)
(* that is pending, or one that a recording which counts names.            *)
BufferChange(c) ==
    \/ cmd'[c] = cmd[c]
    \/ cmd[c].state # "pending" /\ cmd'[c].state # "pending" /\ cmd'[c].ops = <<>>
    \/ /\ cmd[c].state = "recording" /\ cmd'[c].state \in {"recording", "executable"}
       /\ \/ cmd'[c].ops = cmd[c].ops
          \/ \E op : NewOperation(c, op) /\ cmd'[c].ops = Append(cmd[c].ops, op)

Loose(c) ==
    \/ cmd'[c] = cmd[c] \/ cmd'[c].state = "invalid"
    \/ cmd[c].state \in {"none", "recording"}
    \/ \A p \in CommandBuffers : ~NamesChild(p, c)'

BuffersChanged ==
    /\ UNCHANGED <<objects, pins, queue>>
    /\ \A c \in CommandBuffers : BufferChange(c) /\ Loose(c)

LEMMA BuffersWhole ==
    ASSUME Whole, Inv', BuffersChanged
    PROVE  Whole'
<1>0. /\ UNCHANGED <<objects, pins, queue>> /\ over' = over
      /\ \A c \in CommandBuffers : BufferChange(c) /\ Loose(c)
  BY DEF BuffersChanged, objects
<1>1. ToSet(<<>>) = {}
  BY DEF ToSet
<1>2. ASSUME NEW c \in CommandBuffers, NEW op \in ToSet(cmd'[c].ops)
      PROVE  \/ NewOperation(c, op)
             \/ /\ op \in ToSet(cmd[c].ops)
                /\ cmd'[c].state \in Counting => cmd[c].state \in Counting
                /\ cmd'[c].state = "pending" => cmd[c].state = "pending"
  <2>1. CASE cmd'[c] = cmd[c]
    BY <1>2, <2>1
  <2>2. CASE cmd'[c].ops = <<>>
    BY <1>1, <1>2, <2>2
  <2>3. CASE /\ cmd[c].state = "recording" /\ cmd'[c].state \in {"recording", "executable"}
             /\ cmd'[c].ops = cmd[c].ops
    BY <1>2, <2>3 DEF Counting
  <2>4. CASE /\ cmd[c].state = "recording" /\ cmd'[c].state \in {"recording", "executable"}
             /\ \E new : NewOperation(c, new) /\ cmd'[c].ops = Append(cmd[c].ops, new)
    <3>1. PICK new : NewOperation(c, new) /\ cmd'[c].ops = Append(cmd[c].ops, new)
      BY <2>4
    <3>2. \E S : cmd[c].ops \in Seq(S)
      BY DEF Whole, Inv, Sound, Shaped
    <3>3. ToSet(Append(cmd[c].ops, new)) = ToSet(cmd[c].ops) \cup {new}
      BY <3>2, AppendedSet
    <3>4. op = new \/ op \in ToSet(cmd[c].ops)
      BY <1>2, <3>1, <3>3
    <3> QED  BY <2>4, <3>1, <3>4 DEF Counting
  <2> QED  BY <1>0, <2>1, <2>2, <2>3, <2>4 DEF BufferChange
<1>3. AllFormed'
  <2>1. ASSUME NEW c \in CommandBuffers, NEW op \in ToSet(cmd'[c].ops) PROVE Formed(c, op)
    BY <1>2, <2>1 DEF NewOperation, Whole, AllFormed
  <2> QED  BY <2>1 DEF AllFormed, Formed
<1>4. AllKept'
  <2>1. ASSUME NEW p \in CommandBuffers, cmd'[p].state \in Counting,
               NEW op \in ToSet(cmd'[p].ops), NEW n \in DOMAIN op.children
        PROVE  Holds(cmd'[op.children[n]], op.recorded[n])
    <3>1. op.children \in Seq(Secondaries)
      BY <1>3, <2>1 DEF AllFormed, Formed
    <3>2. PICK c \in CommandBuffers : c = op.children[n] /\ c \in ToSet(op.children)
      BY <3>1, ElementOfSeq DEF CommandBuffers, ToSet
    <3>3. Holds(cmd[c], op.recorded[n])
      <4>1. CASE NewOperation(p, op)
        BY <3>2, <4>1 DEF NewOperation, Runnable, In, Holds
      <4>2. CASE op \in ToSet(cmd[p].ops) /\ cmd[p].state \in Counting
        BY <3>2, <4>2 DEF Whole, AllKept, Kept
      <4> QED  BY <1>2, <2>1, <4>1, <4>2
    <3>4. NamesChild(p, c)'
      BY <2>1, <3>2 DEF NamesChild
    <3>5. cmd'[c] = cmd[c] \/ cmd'[c].state = "invalid"
      BY <1>0, <3>3, <3>4 DEF Loose, Holds
    <3> QED  BY <3>2, <3>3, <3>5 DEF Holds
  <2> QED  BY <2>1 DEF AllKept, Kept
<1>5. AllSupplied'
  <2>1. ASSUME NEW c \in CommandBuffers, NEW op \in ToSet(cmd'[c].ops), NEW x \in Resources
        PROVE  /\ cmd'[c].state \in Counting /\ InUse(over, op, x) => over[x] # {}
               /\ cmd'[c].state = "pending" /\ Viewed(over, op, x) => over[x] # {}
    <3>1. CASE op \in ToSet(cmd[c].ops)
               /\ (cmd'[c].state \in Counting => cmd[c].state \in Counting)
               /\ (cmd'[c].state = "pending" => cmd[c].state = "pending")
      BY <3>1 DEF Whole, AllSupplied, Supplied
    <3>2. CASE NewOperation(c, op)
      <4>1. InUse(over, op, x) => over[x] # {}
        BY <3>2 DEF NewOperation
      <4>2. CASE cmd'[c] = cmd[c]
        BY <2>1, <4>2 DEF Whole, AllSupplied, Supplied
      <4>3. CASE cmd'[c].state # "pending"
        BY <4>1, <4>3
      <4> QED  BY <1>0, <4>2, <4>3 DEF BufferChange
    <3> QED  BY <1>2, <2>1, <3>1, <3>2
  <2>2. \A c \in CommandBuffers : Supplied(over, cmd'[c])
    BY <2>1 DEF Supplied
  <2> QED  BY <1>0, <2>2 DEF AllSupplied
<1>6. Queued'
  <2>1. ASSUME NEW c \in CommandBuffers
        PROVE  /\ cmd[c].state = "pending" => Steady(c) /\ cmd'[c].state = "pending"
               /\ cmd'[c].state = "pending" => cmd[c].state = "pending"
    <3>1. cmd'[c] = cmd[c] \/ (cmd[c].state # "pending" /\ cmd'[c].state # "pending")
      BY <1>0 DEF BufferChange
    <3> QED  BY <1>0, <3>1 DEF Steady
  <2> QED  BY <1>0, <2>1, QueueKept DEF Whole
<1> QED  BY <1>3, <1>4, <1>5, <1>6 DEF Whole

LEMMA OneChange ==
    ASSUME Inv, NEW c \in CommandBuffers, NEW r, cmd' = [cmd EXCEPT ![c] = r],
           UNCHANGED <<objects, pins, queue>>, BufferChange(c), Loose(c)
    PROVE  BuffersChanged
<1>1. \A d \in CommandBuffers \ {c} : cmd'[d] = cmd[d]
  BY DEF Inv
<1>2. \A d \in CommandBuffers : BufferChange(d) /\ Loose(d)
  BY <1>1 DEF BufferChange, Loose
<1> QED  BY <1>2 DEF BuffersChanged

LEMMA AllocateChange ==
    ASSUME Inv, NEW c \in CommandBuffers, AllocateBuffer(c)
    PROVE  BuffersChanged
<1>1. /\ cmd[c].state = "none" /\ UNCHANGED <<objects, pins, queue>>
      /\ cmd' = [cmd EXCEPT ![c] = Nothing("initial")]
  BY DEF AllocateBuffer, In
<1>2. cmd'[c].state = "initial" /\ cmd'[c].ops = <<>>
  BY <1>1 DEF Inv, Nothing
<1>3. BufferChange(c) /\ Loose(c)
  BY <1>1, <1>2 DEF BufferChange, Loose
<1> QED  BY <1>1, <1>3, OneChange

(* A recording that goes on with the same operations.                      *)
LEMMA EndChange ==
    ASSUME Inv, NEW c \in CommandBuffers, End(c) \/ \E o : Bind(c, o)
    PROVE  BuffersChanged
<1>1. PICK state, bound :
          /\ cmd' = [cmd EXCEPT ![c] = [state |-> state, usage |-> cmd[c].usage,
                                        bound |-> bound, ops |-> cmd[c].ops]]
          /\ state \in {"recording", "executable"}
          /\ cmd[c].state = "recording" /\ UNCHANGED <<objects, pins, queue>>
  <2>1. Shaped(cmd[c])
    BY DEF Inv, Sound
  <2>2. CASE End(c)
    <3>1. [cmd[c] EXCEPT !.state = "executable"] =
              [state |-> "executable", usage |-> cmd[c].usage, bound |-> cmd[c].bound,
               ops |-> cmd[c].ops]
      BY <2>1, Fields
    <3>2. /\ cmd' = [cmd EXCEPT ![c] = [cmd[c] EXCEPT !.state = "executable"]]
          /\ cmd[c].state = "recording" /\ UNCHANGED <<objects, pins, queue>>
      BY <2>2 DEF End, In
    <3> QED  BY <3>1, <3>2
  <2>3. CASE \E o : Bind(c, o)
    <3>1. PICK o : Bind(c, o)
      BY <2>3
    <3>2. PICK bound : bound = cmd[c].bound \cup {o}
      OBVIOUS
    <3>3. /\ cmd' = [cmd EXCEPT ![c] = [cmd[c] EXCEPT !.bound = bound]]
          /\ cmd[c].state = "recording" /\ UNCHANGED <<objects, pins, queue>>
      BY <3>1, <3>2 DEF Bind, In
    <3>4. [cmd[c] EXCEPT !.bound = bound] =
              [state |-> cmd[c].state, usage |-> cmd[c].usage, bound |-> bound,
               ops |-> cmd[c].ops]
      BY <2>1, Fields
    <3> QED  BY <3>3, <3>4
  <2> QED  BY <2>2, <2>3
<1>2. cmd'[c].state \in {"recording", "executable"} /\ cmd'[c].ops = cmd[c].ops
  BY <1>1 DEF Inv
<1>3. BufferChange(c) /\ Loose(c)
  BY <1>1, <1>2 DEF BufferChange, Loose
<1> QED  BY <1>1, <1>3, OneChange

LEMMA AppendChange ==
    ASSUME Inv, NEW c \in CommandBuffers, In(c, {"recording"}),
           UNCHANGED <<objects, pins, queue>>, NEW op, AppendOperation(c, op),
           NewOperation(c, op)
    PROVE  BuffersChanged
<1>1. PICK ops : ops = Append(cmd[c].ops, op)
  OBVIOUS
<1>2. cmd' = [cmd EXCEPT ![c] = [cmd[c] EXCEPT !.ops = ops]] /\ cmd[c].state = "recording"
  BY <1>1 DEF AppendOperation, In
<1>3. [cmd[c] EXCEPT !.ops = ops] =
          [state |-> cmd[c].state, usage |-> cmd[c].usage, bound |-> cmd[c].bound, ops |-> ops]
  BY Fields DEF Inv, Sound
<1>4. cmd'[c].state = "recording" /\ cmd'[c].ops = Append(cmd[c].ops, op)
  BY <1>1, <1>2, <1>3 DEF Inv
<1>5. BufferChange(c) /\ Loose(c)
  BY <1>2, <1>4 DEF BufferChange, Loose
<1> QED  BY <1>2, <1>5, OneChange

LEMMA RecordChange ==
    ASSUME Inv, NEW c \in CommandBuffers, NEW kind, Record(c, kind),
           kind = "pass" => c \in Primaries
    PROVE  BuffersChanged
<1>1. PICK m \in Commands :
          /\ m.kind = kind
          /\ \A r \in m.uses \cap Resources : Backed(r)
          /\ \A s \in m.sets : Consumable(s)
          /\ AppendOperation(c, Operation(kind, m.uses, m.sets, <<>>))
  BY DEF Record
<1>2. In(c, {"recording"}) /\ UNCHANGED <<objects, pins, queue>>
  BY DEF Record
<1>3. PICK op : op = Operation(kind, m.uses, m.sets, <<>>)
  OBVIOUS
<1>4. op.uses = m.uses /\ op.sets = m.sets /\ op.children = <<>>
  BY <1>3 DEF Operation
<1>5. Formed(c, op)
  <2>1. c \in Secondaries => kind # "pass"
    BY LifetimesAssumption
  <2>2. c \in Secondaries => op.uses \cap Framebuffers = {}
    BY <1>1, <1>4, <2>1, LifetimesAssumption
  <2> QED  BY <1>4, <2>2 DEF Formed
<1>6. ASSUME NEW x \in Resources, InUse(over, op, x) PROVE over[x] # {}
  <2>1. \A s \in op.sets : \A r \in SetUses(s) \cap Resources : Backed(r)
    BY <1>1, <1>4 DEF Consumable
  <2>2. x \in op.uses \/ \E s \in op.sets : x \in SetUses(s)
    BY <1>6, SetUsesNamed DEF InUse
  <2> QED  BY <1>1, <1>4, <2>1, <2>2 DEF Backed
<1>7. NewOperation(c, op)
  BY <1>4, <1>5, <1>6 DEF NewOperation
<1> QED  BY <1>1, <1>2, <1>3, <1>7, AppendChange

LEMMA ExecuteChange ==
    ASSUME Inv, NEW p \in Primaries, NEW child \in Secondaries, ExecuteCommands(p, child)
    PROVE  BuffersChanged
<1>1. /\ cmd[p].state = "recording" /\ UNCHANGED <<objects, pins, queue>>
      /\ p \in CommandBuffers /\ In(p, {"recording"})
  BY DEF ExecuteCommands, In, CommandBuffers
<1>2. CASE Runnable(child)
  <2>1. PICK op : op = Operation("execute", {}, {}, <<child>>)
    OBVIOUS
  <2>2. /\ op.children = <<child>> /\ op.uses = {} /\ op.sets = {}
        /\ op.recorded = [n \in DOMAIN <<child>> |-> cmd[<<child>>[n]].ops]
    BY <2>1 DEF Operation
  <2>3. Formed(p, op)
    BY <2>2, LifetimesAssumption DEF Formed
  <2>4. \A n \in DOMAIN op.children : /\ Runnable(op.children[n])
                                      /\ op.recorded[n] = cmd[op.children[n]].ops
    BY <1>2, <2>2
  <2>5. \A x : ~InUse(over, op, x)
    BY <2>2 DEF InUse
  <2>6. NewOperation(p, op)
    BY <2>3, <2>4, <2>5 DEF NewOperation
  <2>7. AppendOperation(p, op)
    BY <1>2, <2>1 DEF ExecuteCommands
  <2> QED  BY <1>1, <2>6, <2>7, AppendChange
<1>3. CASE ~Runnable(child)
  <2>1. cmd' = [cmd EXCEPT ![p] = Nothing("invalid")]
    BY <1>3 DEF ExecuteCommands
  <2>2. cmd'[p].state = "invalid" /\ cmd'[p].ops = <<>>
    BY <1>1, <2>1 DEF Inv, Nothing
  <2>3. BufferChange(p) /\ Loose(p)
    BY <1>1, <2>2 DEF BufferChange, Loose
  <2> QED  BY <1>1, <2>1, <2>3, OneChange
<1> QED  BY <1>2, <1>3

(* What is cleared is named by nothing that is left.                       *)
LEMMA ClearedChange ==
    ASSUME Whole, NEW cleared, NEW become, become # "pending",
           \A c \in cleared : ~In(c, {"pending"}) /\ LeftAlone(c),
           UNCHANGED <<objects, pins, queue>>,
           \A p \in CommandBuffers :
               /\ p \notin cleared => cmd'[p] = Cleared(cleared, become)[p]
               /\ p \in cleared => cmd'[p].state = become /\ cmd'[p].ops = <<>>
    PROVE  BuffersChanged
<1> DEFINE poisoned(p) == \E c \in cleared \cap Secondaries : NamesChild(p, c)
<1>1. \A p \in CommandBuffers \ cleared :
          cmd'[p] = IF poisoned(p) THEN Nothing("invalid") ELSE cmd[p]
  BY DEF Cleared
<1>2. Nothing("invalid").state = "invalid" /\ Nothing("invalid").ops = <<>> /\ ToSet(<<>>) = {}
  BY DEF Nothing, ToSet
<1>3. ASSUME NEW p \in CommandBuffers, NEW op \in ToSet(cmd[p].ops),
             NEW c \in ToSet(op.children)
      PROVE  p \in Primaries /\ c \in Secondaries
  <2>1. /\ op.children \in Seq(Secondaries)
        /\ p \in Secondaries => op.children = <<>>
    BY DEF Whole, AllFormed, Formed
  <2>2. c \in Secondaries
    BY <2>1, InToSet
  <2> QED  BY <1>2, <2>1, <2>2 DEF CommandBuffers
<1>4. ASSUME NEW p \in CommandBuffers \ cleared, poisoned(p)
      PROVE  BufferChange(p) /\ Loose(p)
  <2>1. PICK c \in cleared : NamesChild(p, c)
    BY <1>4
  <2>2. p \in Primaries
    BY <1>3, <2>1 DEF NamesChild
  <2>3. cmd[p].state # "pending"
    BY <2>1, <2>2 DEF LeftAlone, In
  <2> QED  BY <1>1, <1>2, <1>4, <2>3 DEF BufferChange, Loose
<1>5. ASSUME NEW p \in CommandBuffers, p \in cleared
      PROVE  BufferChange(p) /\ Loose(p)
  <2>1. BufferChange(p)
    BY <1>5 DEF BufferChange, In
  <2>2. ASSUME NEW q \in CommandBuffers, NEW op \in ToSet(cmd'[q].ops), p \in ToSet(op.children)
        PROVE  FALSE
    <3>1. q \notin cleared
      BY <1>2, <2>2
    <3>2. cmd'[q] = cmd[q] /\ ~poisoned(q)
      BY <1>1, <1>2, <2>2, <3>1
    <3>3. p \in Secondaries
      BY <1>3, <2>2, <3>2
    <3> QED  BY <1>5, <2>2, <3>2, <3>3 DEF NamesChild
  <2>3. Loose(p)
    BY <2>2 DEF Loose, NamesChild
  <2> QED  BY <2>1, <2>3
<1>6. ASSUME NEW p \in CommandBuffers \ cleared, ~poisoned(p)
      PROVE  BufferChange(p) /\ Loose(p)
  BY <1>1, <1>6 DEF BufferChange, Loose
<1> QED  BY <1>4, <1>5, <1>6 DEF BuffersChanged

LEMMA ClearChange ==
    ASSUME Whole, NEW cleared, NEW become, become # "pending", ClearBuffers(cleared, become)
    PROVE  BuffersChanged
<1>1. \A p \in CommandBuffers : cmd'[p] = Cleared(cleared, become)[p]
  BY DEF ClearBuffers
<1>2. \A p \in CommandBuffers : p \in cleared => cmd'[p].state = become /\ cmd'[p].ops = <<>>
  BY <1>1 DEF Cleared, Nothing
<1>3. \A c \in cleared : ~In(c, {"pending"}) /\ LeftAlone(c)
  BY DEF ClearBuffers, In
<1>4. UNCHANGED <<objects, pins, queue>>
  BY DEF ClearBuffers
<1> QED  BY <1>1, <1>2, <1>3, <1>4, ClearedChange

LEMMA BeginChange ==
    ASSUME Whole, NEW c \in CommandBuffers, Begin(c)
    PROVE  BuffersChanged
<1> DEFINE before == Cleared({c}, "recording")
<1>1. PICK usage : cmd' = [before EXCEPT ![c].usage = usage]
  BY DEF Begin
<1>2. /\ before = [p \in CommandBuffers |-> before[p]]
      /\ before[c] = [state |-> "recording", usage |-> "none", bound |-> {}, ops |-> <<>>]
  BY DEF Cleared, Nothing
<1>3. \A p \in CommandBuffers : p \notin {c} => cmd'[p] = Cleared({c}, "recording")[p]
  BY <1>1, <1>2
<1>4. cmd'[c] = [before[c] EXCEPT !.usage = usage]
  BY <1>1, <1>2
<1>5. cmd'[c].state = "recording" /\ cmd'[c].ops = <<>>
  BY <1>2, <1>4
<1>6. \A d \in {c} : ~In(d, {"pending"}) /\ LeftAlone(d)
  BY DEF Begin, In
<1>7. UNCHANGED <<objects, pins, queue>>
  BY DEF Begin
<1>8. \A p \in CommandBuffers : p \in {c} => cmd'[p].state = "recording" /\ cmd'[p].ops = <<>>
  BY <1>5
<1> HIDE DEF before
<1> QED  BY <1>3, <1>6, <1>7, <1>8, ClearedChange

-----------------------------------------------------------------------------
(* Submission and retirement.                                              *)

(* Recordings stay as they are and move between states in which they       *)
(* count, or become invalid.                                               *)
LEMMA StatesKept ==
    ASSUME Whole,
           \A c \in CommandBuffers :
               \/ cmd'[c] = cmd[c]
               \/ cmd'[c] = Nothing("invalid")
               \/ /\ cmd[c].state \in {"executable", "pending"}
                  /\ cmd'[c].state \in {"executable", "pending"}
                  /\ cmd'[c].ops = cmd[c].ops
    PROVE  AllFormed' /\ AllKept'
<1>1. /\ Nothing("invalid").state = "invalid" /\ Nothing("invalid").ops = <<>>
      /\ ToSet(<<>>) = {}
  BY DEF Nothing, ToSet
<1>2. ASSUME NEW c \in CommandBuffers, NEW op \in ToSet(cmd'[c].ops)
      PROVE  /\ op \in ToSet(cmd[c].ops)
             /\ cmd'[c].state \in Counting => cmd[c].state \in Counting
  BY <1>1, <1>2 DEF Counting
<1>3. AllFormed'
  BY <1>2 DEF Whole, AllFormed, Formed
<1>4. ASSUME NEW p \in CommandBuffers, cmd'[p].state \in Counting,
             NEW op \in ToSet(cmd'[p].ops), NEW n \in DOMAIN op.children
      PROVE  Holds(cmd'[op.children[n]], op.recorded[n])
  <2>1. Holds(cmd[op.children[n]], op.recorded[n])
    BY <1>2, <1>4 DEF Whole, AllKept, Kept
  <2>2. op.children \in Seq(Secondaries)
    BY <1>2, <1>4 DEF Whole, AllFormed, Formed
  <2>3. PICK c \in CommandBuffers : c = op.children[n]
    BY <2>2, ElementOfSeq DEF CommandBuffers
  <2> QED  BY <1>1, <2>1, <2>3 DEF Holds
<1>5. AllKept'
  BY <1>4 DEF AllKept, Kept
<1> QED  BY <1>3, <1>5

LEMMA InSeqOf ==
    ASSUME NEW S, NEW s \in Seq(S), NEW T, ToSet(s) \subseteq T
    PROVE  s \in Seq(T)
<1>1. \A i \in 1..Len(s) : s[i] \in T
  BY DEF ToSet
<1> QED  BY <1>1

(* The segments of a valid primary are ready, and of it and what it names. *)
LEMMA SubmittedReady ==
    ASSUME Whole, NEW p \in Primaries, CommandValid(p), NEW segs,
           segs = ExpandRecord([c \in CommandBuffers |-> cmd[c].ops], <<p>>)
    PROVE  /\ Ready(segs)
           /\ \A c \in InSegments(segs) : /\ c \in CommandBuffers /\ Runnable(c)
                                          /\ c = p \/ c \in Secondaries
<1>1. PICK rec : rec = [c \in CommandBuffers |-> cmd[c].ops]
  OBVIOUS
<1>2. PICK O : O = UNION {ToSet(cmd[c].ops) : c \in CommandBuffers}
  OBVIOUS
<1>3. OfBuffers(CommandBuffers, O, rec)
  <2>1. ASSUME NEW c \in CommandBuffers PROVE cmd[c].ops \in Seq(O)
    <3>1. PICK S : cmd[c].ops \in Seq(S)
      BY DEF Whole, Inv, Sound, Shaped
    <3>2. ToSet(cmd[c].ops) \subseteq O
      BY <1>2
    <3> QED  BY <3>1, <3>2, InSeqOf
  <2>2. ASSUME NEW op \in O PROVE op.children \in Seq(CommandBuffers)
    <3>1. PICK c \in CommandBuffers : op \in ToSet(cmd[c].ops)
      BY <1>2
    <3>2. op.children \in Seq(Secondaries)
      BY <3>1 DEF Whole, AllFormed, Formed
    <3>3. \A x \in ToSet(op.children) : x \in Secondaries
      BY <3>2, InToSet
    <3>4. ToSet(op.children) \subseteq CommandBuffers
      BY <3>3 DEF CommandBuffers
    <3> QED  BY <3>2, <3>4, InSeqOf
  <2> QED  BY <1>1, <2>1, <2>2 DEF OfBuffers
<1>4. p \in CommandBuffers /\ Runnable(p)
  BY DEF CommandBuffers, CommandValid
<1>5. ASSUME NEW c, NamedBy(rec, p, c)
      PROVE  c \in Secondaries /\ c \in CommandBuffers /\ Runnable(c)
  <2>1. PICK op \in ToSet(cmd[p].ops) : c \in ToSet(op.children)
    BY <1>1, <1>4, <1>5 DEF NamedBy
  <2>2. op.children \in Seq(Secondaries)
    BY <1>4 DEF Whole, AllFormed, Formed
  <2>3. c \in Secondaries
    BY <2>1, <2>2, InToSet
  <2>4. OperationValid(op)
    BY DEF CommandValid, ToSet
  <2>5. Runnable(c)
    BY <2>1, <2>4 DEF OperationValid, ChildrenValid, ToSet
  <2> QED  BY <2>3, <2>5 DEF CommandBuffers
<1>6. \A c : NamedBy(rec, p, c) => \A op \in ToSet(rec[c]) : op.children = <<>>
  <2>1. \A c \in Secondaries : \A op \in ToSet(cmd[c].ops) : op.children = <<>>
    BY DEF Whole, AllFormed, Formed, CommandBuffers
  <2> QED  BY <1>1, <1>5, <2>1
<1>7. /\ segs \in Queues
      /\ \A seg \in ToSet(segs) : ComeOf(rec, p, seg)
  BY <1>1, <1>3, <1>4, <1>6, ExpandedParts DEF Queues
<1>8. ASSUME NEW at \in PartsOf(segs)
      PROVE  LET part == PartAt(segs, at)
             IN  /\ Within(part) /\ part.buffer \in CommandBuffers /\ Runnable(part.buffer)
                 /\ part.buffer = p \/ part.buffer \in Secondaries
  <2>1. PICK part : part = PartAt(segs, at)
    OBVIOUS
  <2>2. \E seg \in ToSet(segs) : part \in ToSet(seg.parts)
    BY <1>7, <2>1, PartsAre
  <2>3. WithinRecording(rec, part) /\ (part.buffer = p \/ NamedBy(rec, p, part.buffer))
    BY <1>7, <2>2 DEF ComeOf
  <2>4. /\ part.buffer \in CommandBuffers /\ Runnable(part.buffer)
        /\ part.buffer = p \/ part.buffer \in Secondaries
    BY <1>4, <1>5, <2>3
  <2>5. rec[part.buffer] = cmd[part.buffer].ops
    BY <1>1, <2>4
  <2>6. Within(part)
    BY <2>3, <2>4, <2>5 DEF WithinRecording, Within, Runnable, In, Counting
  <2> QED  BY <2>1, <2>4, <2>6
<1>9. Ready(segs)
  BY <1>7, <1>8 DEF Ready
<1> QED  BY <1>8, <1>9 DEF InSegments

LEMMA SubmitWhole ==
    ASSUME Whole, NEW p \in Primaries, Submit(p)
    PROVE  Whole'
<1>1. PICK segs : /\ segs = ExpandRecord([c \in CommandBuffers |-> cmd[c].ops], <<p>>)
                  /\ CommandValid(p) /\ Pin(segs) /\ queue' = queue \o segs
                  /\ UNCHANGED objects
  BY DEF Submit
<1>2. /\ Ready(segs)
      /\ \A c \in InSegments(segs) : /\ c \in CommandBuffers /\ Runnable(c)
                                     /\ c = p \/ c \in Secondaries
  BY <1>1, SubmittedReady
<1>3. Queued' /\ Inv'
  BY <1>1, <1>2, QueueSubmit, SubmitStep DEF Whole
<1>4. ASSUME NEW c \in CommandBuffers
      PROVE  \/ c \notin InSegments(segs) /\ cmd'[c] = cmd[c]
             \/ /\ c \in InSegments(segs) /\ Runnable(c) /\ (c = p \/ c \in Secondaries)
                /\ cmd[c].state \in {"executable", "pending"}
                /\ cmd'[c].state = "pending" /\ cmd'[c].ops = cmd[c].ops
  <2>1. cmd'[c] = IF c \in InSegments(segs) THEN [cmd[c] EXCEPT !.state = "pending"] ELSE cmd[c]
    BY <1>1 DEF Pin
  <2>2. [cmd[c] EXCEPT !.state = "pending"] =
            [state |-> "pending", usage |-> cmd[c].usage, bound |-> cmd[c].bound,
             ops |-> cmd[c].ops]
    BY Fields DEF Whole, Inv, Sound
  <2> QED  BY <1>2, <2>1, <2>2 DEF Runnable, In
<1>5. AllFormed' /\ AllKept'
  BY <1>4, StatesKept
<1>6. ASSUME NEW c \in CommandBuffers, NEW op \in ToSet(cmd'[c].ops), NEW x \in Resources
      PROVE  /\ cmd'[c].state \in Counting /\ InUse(over, op, x) => over[x] # {}
             /\ cmd'[c].state = "pending" /\ Viewed(over, op, x) => over[x] # {}
  <2>1. Supplied(over, cmd[c])
    BY DEF Whole, AllSupplied
  <2>2. CASE cmd'[c] = cmd[c]
    BY <1>6, <2>1, <2>2 DEF Supplied
  <2>3. CASE cmd[c].state \in {"executable", "pending"} /\ cmd'[c].ops = cmd[c].ops
             /\ (c = p \/ c \in Secondaries)
    <3>1. op \in ToSet(cmd[c].ops)
      BY <1>6, <2>3
    <3>2. InUse(over, op, x) => over[x] # {}
      BY <2>1, <2>3, <3>1 DEF Supplied, Counting
    <3>3. CASE c = p
      <4>1. OperationValid(op)
        BY <1>1, <3>1, <3>3 DEF CommandValid, ToSet
      <4>2. Viewed(over, op, x) => x \in UNION {over[v] : v \in Attachments(op)}
        BY AttachmentsNamed DEF Viewed
      <4>3. Viewed(over, op, x) => over[x] # {}
        BY <4>1, <4>2 DEF OperationValid, Backed
      <4> QED  BY <3>2, <4>3
    <3>4. CASE c \in Secondaries
      <4>1. op.uses \cap Framebuffers = {}
        BY <3>1, <3>4 DEF Whole, AllFormed, Formed
      <4>2. ~Viewed(over, op, x)
        BY <4>1 DEF Viewed, Attached
      <4> QED  BY <3>2, <4>2
    <3> QED  BY <2>3, <3>3, <3>4
  <2> QED  BY <1>4, <2>2, <2>3
<1>7. AllSupplied'
  <2>1. \A c \in CommandBuffers : Supplied(over, cmd'[c])
    BY <1>6 DEF Supplied
  <2> QED  BY <1>1, <2>1 DEF AllSupplied, objects
<1> QED  BY <1>3, <1>5, <1>7 DEF Whole

LEMMA RetireWhole ==
    ASSUME Whole, Retire
    PROVE  Whole'
<1>1. Queued' /\ Inv' /\ over' = over
  BY QueueRetire, RetireStep DEF Whole, Retire, objects
<1> DEFINE ended == {c \in InSegments(<<Head(queue)>>) :
                        pins[c] = Cardinality(SegmentPins(<<Head(queue)>>, c))}
<1>2. \A c \in ended : c \in InSegments(queue)
  <2>1. PICK q : q = queue /\ q \in Queues /\ Ready(q)
    BY DEF Whole, Queued, Ready
  <2>2. q # <<>>
    BY <2>1 DEF Retire
  <2>3. PICK h, t : h = <<Head(q)>> /\ t = Tail(q)
    OBVIOUS
  <2>4. h \in Queues /\ t \in Queues /\ q = h \o t
    BY <2>1, <2>2, <2>3 DEF Queues
  <2>5. InSegments(q) = InSegments(h) \cup InSegments(t)
    BY <2>4, InSegmentsJoin
  <2> QED  BY <2>1, <2>3, <2>5
<1>3. cmd' = [c \in CommandBuffers |->
                 IF c \notin ended THEN cmd[c]
                 ELSE IF cmd[c].usage = "oneTime" THEN Nothing("invalid")
                 ELSE [cmd[c] EXCEPT !.state = "executable"]]
  BY DEF Retire, Unpin
<1> HIDE DEF ended
<1>4. ASSUME NEW c \in CommandBuffers
      PROVE  \/ cmd'[c] = cmd[c]
             \/ cmd'[c] = Nothing("invalid")
             \/ /\ cmd[c].state = "pending" /\ cmd'[c].state = "executable"
                /\ cmd'[c].ops = cmd[c].ops
  <2>1. [cmd[c] EXCEPT !.state = "executable"] =
            [state |-> "executable", usage |-> cmd[c].usage, bound |-> cmd[c].bound,
             ops |-> cmd[c].ops]
    BY Fields DEF Whole, Inv, Sound
  <2>2. c \in ended => cmd[c].state = "pending"
    BY <1>2 DEF Whole, Queued
  <2> QED  BY <1>3, <2>1, <2>2
<1>5. AllFormed' /\ AllKept'
  BY <1>4, StatesKept
<1>6. ASSUME NEW c \in CommandBuffers PROVE Supplied(over, cmd'[c])
  <2>1. Supplied(over, cmd[c])
    BY DEF Whole, AllSupplied
  <2>2. CASE cmd'[c] = Nothing("invalid")
    BY <2>2, NothingRecorded DEF Nothing
  <2>3. CASE /\ cmd[c].state = "pending" /\ cmd'[c].state = "executable"
             /\ cmd'[c].ops = cmd[c].ops
    BY <2>1, <2>3 DEF Supplied, Counting
  <2> QED  BY <1>4, <2>1, <2>2, <2>3
<1>7. AllSupplied'
  BY <1>1, <1>6 DEF AllSupplied
<1> QED  BY <1>1, <1>5, <1>7 DEF Whole

-----------------------------------------------------------------------------
(* The theorems.                                                           *)
LEMMA InitInv == Init => Inv
<1> SUFFICES ASSUME Init PROVE Inv
  OBVIOUS
<1>1. /\ cmd = [c \in CommandBuffers |-> cmd[c]]
      /\ \A c \in CommandBuffers :
             cmd[c] = [state |-> "none", usage |-> "none", bound |-> {}, ops |-> <<>>]
  BY DEF Init, Nothing
<1>2. Layered(over, live)
  BY DEF Init, Layered
<1> QED  BY <1>1, <1>2, BlankSound DEF Inv

LEMMA ObjectSteps ==
    ASSUME Inv,
           \/ \E o \in Objects :
                 \/ AllocateMemory(o) \/ CreatePlain(o) \/ CreateBuffer(o)
                 \/ CreateImage(o) \/ CreateBufferView(o) \/ CreateImageView(o)
                 \/ CreateFramebuffer(o) \/ AllocateSet(o)
                 \/ DestroyPlain(o) \/ DestroyBuffer(o) \/ DestroyBufferView(o)
                 \/ DestroyImage(o) \/ DestroyImageView(o) \/ DestroyFramebuffer(o)
                 \/ FreeMemory(o)
                 \/ \E m \in Memories : BindBufferMemory(o, m) \/ BindImageMemory(o, m)
           \/ \E s \in Sets : UpdateSet(s)
           \/ \E sets \in SUBSET Sets : FreeSets(sets)
    PROVE  ObjectsChanged
<1> USE DEF Resources, Objects
<1>1. ASSUME NEW o \in Objects, AllocateMemory(o) PROVE ObjectsChanged
  BY <1>1, CreateStep, KindsApart DEF AllocateMemory
<1>2. ASSUME NEW o \in Objects, CreatePlain(o) PROVE ObjectsChanged
  BY <1>2, CreateStep, KindsApart DEF CreatePlain
<1>3. ASSUME NEW o \in Objects, CreateBuffer(o) PROVE ObjectsChanged
  BY <1>3, CreateStep, KindsApart DEF CreateBuffer, CreateUnbound
<1>4. ASSUME NEW o \in Objects, CreateImage(o) PROVE ObjectsChanged
  BY <1>4, CreateStep, KindsApart DEF CreateImage, CreateUnbound
<1>5. ASSUME NEW o \in Objects, CreateBufferView(o) PROVE ObjectsChanged
  <2>1. PICK b \in Buffers : Backed(b) /\ Create(o, {b})
    BY <1>5 DEF CreateBufferView
  <2>2. {b} \subseteq Buffers \cap live /\ o \in TexelViews
    BY <1>5, <2>1 DEF Backed, CreateBufferView
  <2> QED  BY <2>1, <2>2, CreateStep, KindsApart
<1>6. ASSUME NEW o \in Objects, CreateImageView(o) PROVE ObjectsChanged
  <2>1. PICK i \in Images : Backed(i) /\ Create(o, {i})
    BY <1>6 DEF CreateImageView
  <2>2. {i} \subseteq Images \cap live /\ o \in ImageViews
    BY <1>6, <2>1 DEF Backed, CreateImageView
  <2> QED  BY <2>1, <2>2, CreateStep, KindsApart
<1>7. ASSUME NEW o \in Objects, CreateFramebuffer(o) PROVE ObjectsChanged
  <2>1. PICK views \in SUBSET (ImageViews \cap live) : Create(o, views)
    BY <1>7 DEF CreateFramebuffer
  <2>2. o \in Framebuffers
    BY <1>7 DEF CreateFramebuffer
  <2> QED  BY <2>1, <2>2, CreateStep, KindsApart
<1>8. ASSUME NEW o \in Objects, AllocateSet(o) PROVE ObjectsChanged
  BY <1>8, CreateStep, KindsApart DEF AllocateSet
<1>9. ASSUME NEW o \in Objects, DestroyPlain(o) PROVE ObjectsChanged
  BY <1>9, DestroyStep, KindsApart DEF DestroyPlain
<1>10. ASSUME NEW o \in Objects, DestroyBuffer(o) PROVE ObjectsChanged
  BY <1>10, DestroyStep, KindsApart DEF DestroyBuffer
<1>11. ASSUME NEW o \in Objects, DestroyBufferView(o) PROVE ObjectsChanged
  BY <1>11, DestroyStep, KindsApart DEF DestroyBufferView
<1>12. ASSUME NEW o \in Objects, DestroyImage(o) PROVE ObjectsChanged
  BY <1>12, DestroyStep, KindsApart DEF DestroyImage
<1>13. ASSUME NEW o \in Objects, DestroyImageView(o) PROVE ObjectsChanged
  BY <1>13, DestroyStep, KindsApart DEF DestroyImageView
<1>14. ASSUME NEW o \in Objects, DestroyFramebuffer(o) PROVE ObjectsChanged
  BY <1>14, DestroyStep, KindsApart DEF DestroyFramebuffer
<1>15. ASSUME NEW o, NEW m, BindBufferMemory(o, m) \/ BindImageMemory(o, m) PROVE ObjectsChanged
  BY <1>15, BoundStep DEF BindBufferMemory, BindImageMemory
<1> QED
  BY <1>1, <1>2, <1>3, <1>4, <1>5, <1>6, <1>7, <1>8, <1>9, <1>10, <1>11, <1>12, <1>13,
     <1>14, <1>15, FreeMemoryStep, UpdateStep, FreeSetsStep

LEMMA NextInv == Inv /\ [Next]_vars => Inv'
<1> SUFFICES ASSUME Inv, [Next]_vars PROVE Inv'
  OBVIOUS
<1> USE DEF Resources, Objects, CommandBuffers
<1>1. CASE ObjectsChanged
  BY <1>1, ObjectStep DEF ObjectsChanged
<1>16. ASSUME NEW c \in CommandBuffers,
              \/ AllocateBuffer(c) \/ ResetBuffer(c) \/ FreeBuffer(c)
              \/ Begin(c) \/ End(c) \/ \E o \in Objects : Bind(c, o)
       PROVE  Inv'
  BY <1>16, AllocateStep, ClearStep, BeginStep, EndStep, BindStep DEF ResetBuffer, FreeBuffer
<1>17. ASSUME NEW c \in CommandBuffers,
              Dispatch(c) \/ FillBuffer(c) \/ WaitEvents(c) \/ RenderPass(c)
       PROVE  Inv'
  BY <1>17, RecordStep DEF Dispatch, FillBuffer, WaitEvents, RenderPass
<1>18. ASSUME NEW pool, ResetPool(pool) \/ DestroyPool(pool) PROVE Inv'
  BY <1>18, ClearStep DEF ResetPool, DestroyPool
<1>19. ASSUME NEW p \in Primaries, NEW child, ExecuteCommands(p, child) PROVE Inv'
  BY <1>19, ExecuteStep
<1>20. CASE UNCHANGED vars
  BY <1>20 DEF vars, objects, Inv
<1> QED
  BY <1>1, <1>16, <1>17, <1>18, <1>19, <1>20, ObjectSteps, SubmitStep, RetireStep DEF Next

LEMMA InitWhole == Init => Whole
<1> SUFFICES ASSUME Init PROVE Whole
  OBVIOUS
<1>1. \A c \in CommandBuffers : cmd[c].state = "none" /\ cmd[c].ops = <<>>
  BY DEF Init, Nothing
<1>2. ToSet(<<>>) = {}
  BY DEF ToSet
<1>3. AllFormed /\ AllKept /\ AllSupplied
  BY <1>1, <1>2, NothingRecorded DEF AllFormed, AllKept, Kept, AllSupplied
<1>4. Queued
  <2>1. queue = <<>> /\ pins = [o \in Objects \cup CommandBuffers |-> 0]
    BY DEF Init
  <2>2. queue \in Queues /\ PartsOf(queue) = {}
    BY <2>1 DEF Queues, PartsOf
  <2>3. InSegments(queue) = {} /\ Ready(queue)
    BY <2>2 DEF InSegments, Ready
  <2>4. \A o : SegmentPins(queue, o) = {} /\ EventPins({}, o) = {}
    BY <2>2 DEF SegmentPins, EventPins
  <2>5. \A o : PinsOf(queue, InSegments(queue), o) = 0
    BY <2>3, <2>4, FS_EmptySet DEF PinsOf
  <2> QED  BY <1>1, <2>1, <2>3, <2>5 DEF Queued, Accounted
<1> QED  BY <1>3, <1>4, InitInv DEF Whole

LEMMA NextWhole == Whole /\ [Next]_vars => Whole'
<1> SUFFICES ASSUME Whole, [Next]_vars PROVE Whole'
  OBVIOUS
<1> USE DEF CommandBuffers
<1>1. Inv /\ Inv'
  BY NextInv DEF Whole
<1>2. CASE ObjectsChanged
  BY <1>2, ObjectsWhole
<1>3. ASSUME NEW c \in CommandBuffers,
             \/ AllocateBuffer(c) \/ ResetBuffer(c) \/ FreeBuffer(c)
             \/ Begin(c) \/ End(c) \/ \E o \in Objects : Bind(c, o)
             \/ Dispatch(c) \/ FillBuffer(c) \/ WaitEvents(c) \/ RenderPass(c)
      PROVE  BuffersChanged
  <2>1. CASE AllocateBuffer(c)
    BY <1>1, <2>1, AllocateChange
  <2>2. CASE ResetBuffer(c) \/ FreeBuffer(c)
    BY <2>2, ClearChange DEF ResetBuffer, FreeBuffer
  <2>3. CASE Begin(c)
    BY <2>3, BeginChange
  <2>4. CASE End(c) \/ \E o \in Objects : Bind(c, o)
    BY <1>1, <2>4, EndChange
  <2>5. CASE Dispatch(c) \/ FillBuffer(c) \/ WaitEvents(c) \/ RenderPass(c)
    BY <1>1, <2>5, RecordChange DEF Dispatch, FillBuffer, WaitEvents, RenderPass
  <2> QED  BY <1>3, <2>1, <2>2, <2>3, <2>4, <2>5
<1>4. ASSUME NEW pool, ResetPool(pool) \/ DestroyPool(pool) PROVE BuffersChanged
  BY <1>4, ClearChange DEF ResetPool, DestroyPool
<1>5. ASSUME NEW p \in Primaries, NEW child \in Secondaries, ExecuteCommands(p, child)
      PROVE  BuffersChanged
  BY <1>1, <1>5, ExecuteChange
<1>6. CASE UNCHANGED vars
  <2>1. BuffersChanged
    BY <1>6 DEF vars, BuffersChanged, BufferChange, Loose
  <2> QED  BY <1>1, <2>1, BuffersWhole
<1>7. CASE BuffersChanged
  BY <1>1, <1>7, BuffersWhole
<1>8. CASE \E p \in Primaries : Submit(p)
  BY <1>8, SubmitWhole
<1>9. CASE Retire
  BY <1>9, RetireWhole
<1> QED
  BY <1>1, <1>2, <1>3, <1>4, <1>5, <1>6, <1>7, <1>8, <1>9, ObjectSteps DEF Next

LEMMA WholeAlways == Spec => []Whole
BY InitWhole, NextWhole, PTL DEF Spec

LEMMA InvAlways == Spec => []Inv
BY InitInv, NextInv, PTL DEF Spec

(* What recordings that count name exists, whatever the application frees, *)
(* destroys and creates in what order (invalidate_resource,                *)
(* src/vk_command.c:253, and the destructors that ask it).                 *)
THEOREM NamesStayLive == Spec => []RecordingsNameLive
<1>1. ASSUME Inv, NEW c \in CommandBuffers PROVE References(c) \subseteq live
  <2>1. Sound(over, live, cmd[c])
    BY <1>1 DEF Inv
  <2>2. ASSUME NEW x \in References(c) PROVE x \in live
    BY <2>1, <2>2, ReferencesNamed DEF Sound, Current
  <2> QED  BY <2>2
<1>2. Inv => RecordingsNameLive
  BY <1>1 DEF RecordingsNameLive
<1> QED  BY <1>2, InvAlways, PTL

(* A recording that may still run finds each set as it was when it was     *)
(* recorded: an update or a free invalidates the recording or is refused   *)
(* (vkUpdateDescriptorSets and free_set).                                  *)
THEOREM SetsStayRecorded == Spec => []SetsAsRecorded
<1>1. ASSUME Inv, NEW c \in CommandBuffers, Counts(c),
             NEW k \in DOMAIN cmd[c].ops, NEW s \in cmd[c].ops[k].sets
      PROVE  over[s] = cmd[c].ops[k].contents[s]
  <2>1. Sound(over, live, cmd[c]) /\ cmd[c].state \in Counting
    BY <1>1 DEF Inv, Counts, In, Counting
  <2>2. cmd[c].ops[k] \in ToSet(cmd[c].ops)
    BY DEF ToSet
  <2> QED  BY <2>1, <2>2 DEF Sound, Current
<1>2. Inv => SetsAsRecorded
  BY <1>1 DEF SetsAsRecorded
<1> QED  BY <1>2, InvAlways, PTL

(* A secondary that a primary which may still run names exists and holds   *)
(* what it held when vkCmdExecuteCommands named it, or is invalid so that  *)
(* no submission accepts the primary: reset, begin and free of a secondary *)
(* poison the primaries that name it (invalidate_parents_referencing,      *)
(* src/vk_command.c:29).                                                   *)
THEOREM ChildrenStayRecorded == Spec => []ChildrenAsRecorded
<1>1. ASSUME Whole, NEW p \in Primaries, Counts(p), NEW k \in DOMAIN cmd[p].ops,
             NEW n \in DOMAIN cmd[p].ops[k].children
      PROVE  LET child == cmd[p].ops[k].children[n]
             IN  /\ ~In(child, {"none", "initial"})
                 /\ Counts(child) => cmd[child].ops = cmd[p].ops[k].recorded[n]
  <2>1. p \in CommandBuffers /\ cmd[p].state \in Counting /\ cmd[p].ops[k] \in ToSet(cmd[p].ops)
    BY <1>1 DEF Counts, In, Counting, CommandBuffers, ToSet
  <2>2. Holds(cmd[cmd[p].ops[k].children[n]], cmd[p].ops[k].recorded[n])
    BY <1>1, <2>1 DEF Whole, AllKept, Kept
  <2> QED  BY <2>2 DEF Holds, In, Counts
<1>2. Whole => ChildrenAsRecorded
  BY <1>1 DEF ChildrenAsRecorded
<1> QED  BY <1>2, WholeAlways, PTL

(* The pending counts of objects and command buffers are what the segments *)
(* still queued account for: what one submission adds its retirements take *)
(* away again, also when a command buffer runs in several segments or its  *)
(* events stay pinned after the segment that waited (pin, vk_queue.c:28).  *)
THEOREM PinsStayQueued == Spec => []PinsAreQueued
<1>1. ASSUME Whole PROVE PinsAreQueued
  <2>1. DOMAIN pins = Objects \cup CommandBuffers
    BY <1>1 DEF Whole, Queued, Accounted
  <2> QED  BY <1>1, <2>1 DEF Whole, Queued, Accounted, PinsAreQueued, In
<1> QED  BY <1>1, WholeAlways, PTL

(* What a queued segment runs is there, exists and has memory until the    *)
(* segment retires: the check at submission found it so, and from then on  *)
(* the pending counts and Held refuse whatever would take it away          *)
(* (command_valid and pin, src/vk_queue.c; invalidate_resource).           *)
THEOREM GpuFindsLive == Spec => []GpuTouchesLive
<1>1. ASSUME Whole, NEW at \in PartsOf(queue)
      PROVE  LET part == PartAt(queue, at)
             IN  /\ part.first + part.count <= Len(cmd[part.buffer].ops) + 1
                 /\ \A op \in ToSet(Operations(part)) :
                        /\ OpUses(op) \subseteq live
                        /\ \A r \in OpUses(op) \cap Resources : Backed(r)
  <2>1. PICK part \in PartRecords(CommandBuffers) : part = PartAt(queue, at) /\ Within(part)
    BY <1>1, PartsAre DEF Whole, Queued, Ready
  <2>2. PICK c \in CommandBuffers : c = part.buffer
    BY DEF PartRecords
  <2>3. cmd[c].state = "pending"
    BY <1>1, <2>1, <2>2 DEF Whole, Queued, InSegments
  <2>4. Sound(over, live, cmd[c]) /\ Layered(over, live) /\ Supplied(over, cmd[c])
    BY <1>1 DEF Whole, Inv, AllSupplied
  <2>5. ASSUME NEW op \in ToSet(Operations(part)), NEW x \in OpUses(op)
        PROVE  x \in live /\ (x \in Resources => over[x] # {})
    <3>1. op \in ToSet(cmd[c].ops)
      BY <1>1, <2>1, <2>2, <2>5, OperationsAre DEF Whole
    <3>2. InOperation(over, op, x)
      BY <2>5, OpUsesNamed
    <3>3. x \in live
      BY <2>3, <2>4, <3>1, <3>2 DEF Sound, Current, Named, Counting
    <3>4. Attached(over, op, x) => x \notin Resources
      BY <2>3, <2>4, <3>1, Reached, KindsApart DEF Counting
    <3>5. x \in Resources => InUse(over, op, x) \/ Viewed(over, op, x)
      BY <3>2, <3>4 DEF InOperation, InUse, Viewed
    <3> QED  BY <2>3, <2>4, <3>1, <3>3, <3>5 DEF Supplied, Counting
  <2>6. part.first + part.count <= Len(cmd[part.buffer].ops) + 1
    BY <2>1 DEF Within
  <2> QED  BY <2>1, <2>5, <2>6 DEF Backed
<1>2. Whole => GpuTouchesLive
  BY <1>1 DEF GpuTouchesLive
<1> QED  BY <1>2, WholeAlways, PTL
=============================================================================
