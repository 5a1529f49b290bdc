-------------------------- MODULE CompilationCache --------------------------
(***************************************************************************)
(* The cache of compiled compute programs (src/compilation_cache.c) under  *)
(* the threads that create and destroy pipelines with it                   *)
(* (src/vk_pipeline.c).                                                    *)
(*                                                                         *)
(* Every operation of the cache runs under its mutex.  Compiling does not: *)
(* between the lookup that missed and the insertion, other threads may     *)
(* insert the same program, fill the cache, or take and release leases.    *)
(* The mutex is a variable because eviction is a loop inside one critical  *)
(* section; the other operations are one step each.                        *)
(***************************************************************************)
EXTENDS Integers, Sequences, FiniteSets, SequencesExt

CONSTANTS
    Threads,
    Keys,          \* what identifies a program
    Entries,       \* memory for cache entries, free or allocated
    Pipelines,
    Size,          \* key -> size_bytes of its entry
    MaxEntries,
    MaxBytes,
    NoKey,
    NoEntry,
    NoPipeline,
    Nobody

ASSUME CacheAssumption ==
    /\ Size \in [Keys -> Nat \ {0}]
    /\ MaxEntries \in Nat \ {0} /\ MaxBytes \in Nat
    /\ IsFiniteSet(Entries) /\ IsFiniteSet(Threads) /\ IsFiniteSet(Pipelines)
    /\ NoKey \notin Keys /\ NoEntry \notin Entries
    /\ NoPipeline \notin Pipelines /\ Nobody \notin Threads
    /\ {"none", "own"} \cap Entries = {}

VARIABLES
    mutex,           \* owner of the cache's mutex
    pc,              \* where each thread is in vkCreateComputePipelines
    making,          \* the pipeline each thread creates
    wanted,          \* the key of the program it needs
    leased,          \* the entry it holds for it
    pipeline,        \* p->cache_entry of each pipeline, or how it is without
    entryKey,        \* entry->key, NoKey for free memory
    refcount,        \* entry->refcount
    bucket,          \* key -> its entries in hash order, latest first
    lru,             \* entries from most to least recently used
    currentEntries,  \* stats.current_entries
    currentBytes     \* stats.current_bytes

threadVars == <<pc, making, wanted, leased>>
cacheVars  == <<entryKey, refcount, bucket, lru, currentEntries, currentBytes>>
vars       == <<mutex, threadVars, pipeline, cacheVars>>

Places == {"idle", "compiling", "evicting", "built"}

TypeOK ==
    /\ mutex \in Threads \cup {Nobody}
    /\ pc \in [Threads -> Places]
    /\ making \in [Threads -> Pipelines \cup {NoPipeline}]
    /\ wanted \in [Threads -> Keys \cup {NoKey}]
    /\ leased \in [Threads -> Entries \cup {NoEntry}]
    /\ pipeline \in [Pipelines -> {"none", "own"} \cup Entries]
    /\ entryKey \in [Entries -> Keys \cup {NoKey}]
    /\ refcount \in [Entries -> Int]
    /\ bucket \in [Keys -> Seq(Entries)]
    /\ lru \in Seq(Entries)
    /\ currentEntries \in Int /\ currentBytes \in Int

Init ==
    /\ mutex = Nobody
    /\ pc = [t \in Threads |-> "idle"]
    /\ making = [t \in Threads |-> NoPipeline]
    /\ wanted = [t \in Threads |-> NoKey]
    /\ leased = [t \in Threads |-> NoEntry]
    /\ pipeline = [p \in Pipelines |-> "none"]
    /\ entryKey = [c \in Entries |-> NoKey]
    /\ refcount = [c \in Entries |-> 0]
    /\ bucket = [k \in Keys |-> <<>>]
    /\ lru = <<>>
    /\ currentEntries = 0 /\ currentBytes = 0
-----------------------------------------------------------------------------
(* One entry is taken out of a hash chain or of the order of use. *)
Without(entries, c) ==
    IF \E i \in 1..Len(entries) : entries[i] = c
    THEN RemoveAt(entries, CHOOSE i \in 1..Len(entries) : entries[i] = c)
    ELSE entries

(* lru_remove, lru_push_front *)
Touched(c) == <<c>> \o Without(lru, c)

Goto(t, where) == pc' = [pc EXCEPT ![t] = where]

Done(t) ==
    /\ Goto(t, "idle")
    /\ making' = [making EXCEPT ![t] = NoPipeline]
    /\ wanted' = [wanted EXCEPT ![t] = NoKey]
    /\ leased' = [leased EXCEPT ![t] = NoEntry]

(* The creation of a pipeline begins with the lookup of its program. *)
Begin(t, p, k) ==
    /\ pc[t] = "idle" /\ mutex = Nobody
    /\ pipeline[p] = "none" /\ \A u \in Threads : making[u] # p
    /\ making' = [making EXCEPT ![t] = p]
    /\ wanted' = [wanted EXCEPT ![t] = k]

(* Slip: a hit is not counted as a use of the entry. *)
LookupHitUncounted(t, p, k) ==
    /\ Begin(t, p, k)
    /\ bucket[k] # <<>>
    /\ leased' = [leased EXCEPT ![t] = bucket[k][1]]
    /\ lru' = Touched(bucket[k][1])
    /\ Goto(t, "built")
    /\ UNCHANGED <<mutex, pipeline, entryKey, refcount, bucket,
                   currentEntries, currentBytes>>

LookupHit(t, p, k) ==
    /\ Begin(t, p, k)
    /\ bucket[k] # <<>>
    /\ leased' = [leased EXCEPT ![t] = bucket[k][1]]
    /\ refcount' = [refcount EXCEPT ![bucket[k][1]] = @ + 1]
    /\ lru' = Touched(bucket[k][1])
    /\ Goto(t, "built")
    /\ UNCHANGED <<mutex, pipeline, entryKey, bucket, currentEntries,
                   currentBytes>>

(* Slip: the comparison of the keys always fails. *)
LookupMissAlways(t, p, k) ==
    /\ Begin(t, p, k)
    /\ Goto(t, "compiling")
    /\ UNCHANGED <<mutex, leased, pipeline, cacheVars>>

LookupMiss(t, p, k) ==
    /\ Begin(t, p, k)
    /\ bucket[k] = <<>>
    /\ Goto(t, "compiling")
    /\ UNCHANGED <<mutex, leased, pipeline, cacheVars>>
-----------------------------------------------------------------------------
(* Insertion, once the program is compiled. *)

(* Where the compiler cannot, a program the application bundles may do: it *)
(* is resolved without the cache.                                          *)
CompileFails(t) ==
    /\ pc[t] = "compiling"
    /\ Done(t) \/ (Goto(t, "built") /\ UNCHANGED <<making, wanted, leased>>)
    /\ UNCHANGED <<mutex, pipeline, cacheVars>>

(* A program larger than the budget is refused before anything is evicted. *)
Insert(t) ==
    /\ pc[t] = "compiling" /\ mutex = Nobody
    /\ IF Size[wanted[t]] > MaxBytes
       THEN Goto(t, "built") /\ UNCHANGED mutex
       ELSE Goto(t, "evicting") /\ mutex' = t
    /\ UNCHANGED <<making, wanted, leased, pipeline, cacheVars>>

(* Slips: room for the entry is judged by the number of entries, or by     *)
(* their bytes, alone.                                                     *)
NeedsRoomForBytes(bytes)   == bytes > MaxBytes - currentBytes
NeedsRoomForEntries(bytes) == currentEntries >= MaxEntries
NeedsRoom(bytes) ==
    \/ currentEntries >= MaxEntries
    \/ bytes > MaxBytes - currentBytes

(* Slip: entries in use are evicted as well. *)
EvictableAll == {i \in 1..Len(lru) : TRUE}

(* The positions in lru of the entries nobody uses. *)
Evictable == {i \in 1..Len(lru) : refcount[lru[i]] <= 0}

(* Slip: the most recently used of them goes first. *)
VictimLatest == CHOOSE i \in Evictable : \A j \in Evictable : i <= j
Victim       == CHOOSE i \in Evictable : \A j \in Evictable : j <= i

(* One turn of evict_unreferenced: the least recently used entry that is   *)
(* not in use leaves the hash table and the order of use, and is freed.    *)
Evict(t) ==
    /\ pc[t] = "evicting"
    /\ NeedsRoom(Size[wanted[t]])
    /\ Evictable # {}
    /\ LET c == lru[Victim]
           k == entryKey[c]
       IN  /\ bucket' = [bucket EXCEPT ![k] = Without(@, c)]
           /\ lru' = Without(lru, c)
           /\ entryKey' = [entryKey EXCEPT ![c] = NoKey]
           /\ currentEntries' = currentEntries - 1
           /\ currentBytes' = currentBytes - Size[k]
    /\ UNCHANGED <<mutex, threadVars, pipeline, refcount>>

(* Entries in use leave no room, or memory runs out: the program stays     *)
(* with the thread that compiled it.                                       *)
Refuse(t) ==
    /\ pc[t] = "evicting"
    /\ NeedsRoom(Size[wanted[t]]) => Evictable = {}
    /\ Goto(t, "built")
    /\ mutex' = Nobody
    /\ UNCHANGED <<making, wanted, leased, pipeline, cacheVars>>

Store(t) ==
    /\ pc[t] = "evicting"
    /\ ~NeedsRoom(Size[wanted[t]])
    /\ \E c \in Entries :
           /\ entryKey[c] = NoKey
           /\ entryKey' = [entryKey EXCEPT ![c] = wanted[t]]
           /\ refcount' = [refcount EXCEPT ![c] = 1]
           /\ bucket' = [bucket EXCEPT ![wanted[t]] = <<c>> \o @]
           /\ lru' = <<c>> \o lru
           /\ leased' = [leased EXCEPT ![t] = c]
    /\ currentEntries' = currentEntries + 1
    /\ currentBytes' = currentBytes + Size[wanted[t]]
    /\ Goto(t, "built")
    /\ mutex' = Nobody
    /\ UNCHANGED <<making, wanted, pipeline>>
-----------------------------------------------------------------------------
(* ps5vk_cache_entry_release.  An entry in the cache is kept at zero. *)
Release(c) ==
    /\ mutex = Nobody
    /\ refcount' = [refcount EXCEPT ![c] = @ - 1]
    /\ UNCHANGED <<entryKey, bucket, lru, currentEntries, currentBytes>>

(* The pipeline takes the lease over, or a copy of the program. *)
Finish(t) ==
    /\ pc[t] = "built"
    /\ pipeline' = [pipeline EXCEPT ![making[t]] =
           IF leased[t] = NoEntry THEN "own" ELSE leased[t]]
    /\ Done(t)
    /\ UNCHANGED <<mutex, cacheVars>>

(* The program does not fit the pipeline, or there is no memory for it.    *)
(* A graphics pipeline also gives its lease back here, having copied what  *)
(* it needs.                                                               *)
GiveUp(t) ==
    /\ pc[t] = "built"
    /\ IF leased[t] = NoEntry THEN UNCHANGED cacheVars ELSE Release(leased[t])
    /\ Done(t)
    /\ UNCHANGED <<mutex, pipeline>>

DestroyPipeline(p) ==
    /\ pipeline[p] # "none"
    /\ IF pipeline[p] = "own" THEN UNCHANGED cacheVars ELSE Release(pipeline[p])
    /\ pipeline' = [pipeline EXCEPT ![p] = "none"]
    /\ UNCHANGED <<mutex, threadVars>>

Next ==
    \/ \E t \in Threads :
           \/ \E p \in Pipelines, k \in Keys :
                  LookupHit(t, p, k) \/ LookupMiss(t, p, k)
           \/ CompileFails(t) \/ Insert(t)
           \/ Evict(t) \/ Refuse(t) \/ Store(t)
           \/ Finish(t) \/ GiveUp(t)
    \/ \E p \in Pipelines : DestroyPipeline(p)

Spec == Init /\ [][Next]_vars
-----------------------------------------------------------------------------
(* The leases on entry c: pipelines that keep it and threads about to. *)
Leases(c) == Cardinality({p \in Pipelines : pipeline[p] = c}) +
             Cardinality({t \in Threads : leased[t] = c})

(* The reference count of an entry is the number of its users, however     *)
(* hits, insertions, failed creations and destructions interleave; and     *)
(* memory that was freed has no user (ps5vk_cache_entry_release,           *)
(* evict_unreferenced).                                                    *)
LeasesCounted ==
    \A c \in Entries :
        IF entryKey[c] = NoKey THEN Leases(c) = 0 ELSE refcount[c] = Leases(c)

(* The bytes of the stored programs, each by its entry and its place. *)
BytesOf(c)  == IF entryKey[c] = NoKey THEN {} ELSE {c} \X (1..Size[entryKey[c]])
StoredBytes == UNION {BytesOf(c) : c \in Entries}

(* The two budgets hold after every call, although each insertion judges   *)
(* them from counters, and the counters, the hash table and the order of   *)
(* use agree on what is in the cache, once each (compilation_cache.c:313,  *)
(* "Enforce strict bounds").                                               *)
WithinBudget ==
    LET allocated == {c \in Entries : entryKey[c] # NoKey}
    IN  /\ currentEntries = Cardinality(allocated)
        /\ currentBytes = Cardinality(StoredBytes)
        /\ currentEntries <= MaxEntries /\ currentBytes <= MaxBytes
        /\ Len(lru) = Cardinality(allocated)
        /\ {lru[i] : i \in 1..Len(lru)} = allocated
        /\ \A k \in Keys :
               LET present == {c \in Entries : entryKey[c] = k}
               IN  /\ Len(bucket[k]) = Cardinality(present)
                   /\ {bucket[k][i] : i \in 1..Len(bucket[k])} = present

(* A program is compiled again only by threads that missed it before it    *)
(* was stored: no more copies than threads, however long the run, although *)
(* compiling happens outside the mutex and insertion never looks for an    *)
(* equal entry.                                                            *)
CopiesBounded ==
    \A k \in Keys :
        Len(bucket[k])
            + Cardinality({t \in Threads : pc[t] \in {"compiling", "evicting"}
                                           /\ wanted[t] = k})
        <= Cardinality(Threads)

(* c was used more recently than d. *)
MoreRecent(order, c, d) ==
    \E i, j \in 1..Len(order) : i < j /\ order[i] = c /\ order[j] = d

(* What leaves the cache is unused, and everything used before it is in    *)
(* use; the order only changes for an entry that was just looked up.       *)
EvictsLeastRecent ==
    [][\A c \in Entries :
           /\ (entryKey[c] # NoKey /\ entryKey'[c] = NoKey) =>
                  /\ refcount[c] = 0
                  /\ \A d \in Entries : MoreRecent(lru, c, d) => refcount[d] > 0
           /\ \A d \in Entries :
                  (MoreRecent(lru, c, d) /\ MoreRecent(lru', d, c)) =>
                      refcount'[d] > refcount[d]
       ]_<<lru, entryKey>>
=============================================================================
