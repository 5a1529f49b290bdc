-------------------------- MODULE GraphicsJobsProofs --------------------------
(***************************************************************************)
(* Theorems of module GraphicsJobs, for any number of threads, images and  *)
(* queries, whatever is recorded and submitted, and a GPU that may hang:   *)
(*                                                                         *)
(*   TypeCorrect       Spec => []TypeOK                                    *)
(*   ArenasOutlive     Spec => []CommandsOutliveGpu                        *)
(*   ResetsKeepOrder   Spec => []ResetNotOvertaken                         *)
(*   SnapshotsStay     calls are independent => (Spec => []SnapshotsHold)  *)
(*                                                                         *)
(* CommandsOutliveGpu needs to know of a job that has been launched, also  *)
(* when the GPU is done with it: it is that of the head, the head has work *)
(* for the GPU and does not wait, and labels count its arenas (HeadRuns).  *)
(* ResetNotOvertaken needs what queued segments still promise: a query     *)
(* they will publish was last reset by the host before they were submitted *)
(* or by the queue in front of them (PromisesFresh), since vkResetQueryPool*)
(* refuses a query that a queued recording names (Named).  SnapshotsHold   *)
(* needs that what is prepared is a prefix of the queue, native work of    *)
(* one call, and that each of its segments keeps the layouts of those      *)
(* behind it (Ahead).                                                      *)
(***************************************************************************)
EXTENDS GraphicsJobs, SegmentsProofs

-----------------------------------------------------------------------------
(* Sequences of submissions. *)

(* What a call names is a sequence of recorded segments.                   *)
LEMMA ChainPieces ==
    ASSUME NEW call \in Calls
    PROVE  Chain(call) \in Seq(Pieces)
<1> DEFINE row(b) == [k \in DOMAIN Recording[b] |->
                         [buffer |-> b, segment |-> Recording[b][k]]]
           rows == [i \in DOMAIN call.buffers |-> row(call.buffers[i])]
<1>1. call.buffers \in Seq(Buffers)
  BY JobsAssumption
<1>2. Len(call.buffers) \in Nat /\ DOMAIN call.buffers = 1..Len(call.buffers)
  BY <1>1
<1>3. ASSUME NEW b \in Buffers PROVE row(b) \in Seq(Pieces)
  <2>1. Recording[b] \in Seq(Segments)
    BY JobsAssumption
  <2>2. Len(Recording[b]) \in Nat /\ DOMAIN Recording[b] = 1..Len(Recording[b])
    BY <2>1
  <2>3. \A k \in DOMAIN Recording[b] : row(b)[k] \in Pieces
    BY DEF Pieces
  <2>4. row(b) = [k \in 1..Len(Recording[b]) |-> row(b)[k]]
    BY <2>2
  <2>5. \A k \in 1..Len(Recording[b]) : row(b)[k] \in Pieces
    BY <2>2, <2>3
  <2> HIDE DEF row
  <2> QED  BY <2>2, <2>4, <2>5, MadeSeq
<1> HIDE DEF row
<1>4. \A i \in 1..Len(call.buffers) : row(call.buffers[i]) \in Seq(Pieces)
  BY <1>1, <1>3, ElementOfSeq
<1>5. rows = [i \in 1..Len(call.buffers) |-> row(call.buffers[i])]
  BY <1>2
<1>6. rows \in Seq(Seq(Pieces))
  BY <1>2, <1>4, <1>5, MadeSeq
<1>7. Chain(call) = FlattenSeq(rows)
  BY DEF Chain, row
<1> HIDE DEF rows
<1> QED  BY <1>6, <1>7, FlattenType

(* A segment of a call is one that was recorded, but for its wait.         *)
LEMMA ExpandedPieces ==
    ASSUME NEW call \in Calls
    PROVE  /\ Len(Expanded(call)) \in Nat /\ Len(Expanded(call)) = Len(Chain(call))
           /\ DOMAIN Expanded(call) = 1..Len(Expanded(call))
           /\ \A k \in DOMAIN Expanded(call) :
                  LET e == Expanded(call)[k]
                  IN  /\ e.buffer \in Buffers /\ e.segment \in Segments
                      /\ \E n \in DOMAIN Recording[e.buffer] :
                             e.segment.begins = Recording[e.buffer][n].begins
<1> DEFINE chain == Chain(call)
<1>1. call.gated \in BOOLEAN /\ chain \in Seq(Pieces)
  BY JobsAssumption, ChainPieces
<1>2. Len(chain) \in Nat /\ DOMAIN chain = 1..Len(chain)
  BY <1>1
<1>3. Expanded(call) =
          [k \in 1..Len(chain) |-> [chain[k] EXCEPT !.segment.gated = call.gated /\ k = 1]]
  BY <1>2 DEF Expanded
<1>4. Len(Expanded(call)) = Len(chain) /\ DOMAIN Expanded(call) = 1..Len(chain)
  BY <1>2, <1>3
<1>5. ASSUME NEW k \in 1..Len(chain)
      PROVE  LET e == Expanded(call)[k]
             IN  /\ e.buffer \in Buffers /\ e.segment \in Segments
                 /\ \E n \in DOMAIN Recording[e.buffer] :
                        e.segment.begins = Recording[e.buffer][n].begins
  <2>1. chain[k] \in Pieces
    BY <1>1, <1>2, ElementOfSeq
  <2>2. PICK b \in Buffers : \E n \in DOMAIN Recording[b] :
            chain[k] = [buffer |-> b, segment |-> Recording[b][n]]
    BY <2>1 DEF Pieces
  <2>7. PICK n \in DOMAIN Recording[b] :
            chain[k] = [buffer |-> b, segment |-> Recording[b][n]]
    BY <2>2
  <2>3. Recording[b][n] \in Segments
    BY JobsAssumption, ElementOfSeq
  <2>4. PICK g \in BOOLEAN : g = (call.gated /\ k = 1)
    BY <1>1
  <2>5. Expanded(call)[k] =
            [buffer |-> b, segment |-> [Recording[b][n] EXCEPT !.gated = g]]
    BY <1>3, <2>7, <2>4
  <2>6. [Recording[b][n] EXCEPT !.gated = g] \in Segments
        /\ [Recording[b][n] EXCEPT !.gated = g].begins = Recording[b][n].begins
    BY <2>3, <2>4 DEF Segments
  <2>8. PICK s \in Segments : s = [Recording[b][n] EXCEPT !.gated = g]
                             /\ s.begins = Recording[b][n].begins
    BY <2>6
  <2>9. Expanded(call)[k] = [buffer |-> b, segment |-> s]
    BY <2>5, <2>8
  <2>10. Expanded(call)[k].buffer = b /\ Expanded(call)[k].segment = s
    BY ONLY <2>9
  <2>11. /\ b \in Buffers /\ n \in DOMAIN Recording[b] /\ s \in Segments
         /\ s.begins = Recording[b][n].begins
    BY <2>8
  <2> QED  BY ONLY <2>10, <2>11
<1> QED  BY <1>2, <1>4, <1>5

(* The sequence as it stands, and its head.                                *)
LEMMA Queued ==
    ASSUME TypeOK
    PROVE  /\ queue \in Seq(Submissions) /\ Len(queue) \in Nat
           /\ DOMAIN queue = 1..Len(queue)
           /\ \A i \in 1..Len(queue) : queue[i] \in Submissions
           /\ queue # <<>> => 1 \in 1..Len(queue) /\ Head(queue) = queue[1]
<1>1. queue \in Seq(Submissions)
  BY DEF TypeOK
<1>2. \A i \in 1..Len(queue) : queue[i] \in Submissions
  BY <1>1, ElementOfSeq
<1>3. queue # <<>> => 1 \in 1..Len(queue) /\ Head(queue) = queue[1]
  BY <1>1, EmptySeq
<1> QED  BY <1>1, <1>2, <1>3

Jobs == [prepared : BOOLEAN, launched : 0..2,
         initial : UNION {[S -> Layouts] : S \in SUBSET Images}]

LEMMA JobTypes ==
    ASSUME TypeOK, NEW s \in Segments
    PROVE  NoJob \in Jobs /\ Prepared(s) \in Jobs
<1>1. s.moves \in UNION {[S -> Move] : S \in SUBSET Images}
  BY DEF Segments
<1>2. DOMAIN s.moves \in SUBSET Images
  BY <1>1
<1>3. Snapshot(s) \in [DOMAIN s.moves -> Layouts]
  BY <1>2 DEF Snapshot, TypeOK
<1>4. Snapshot(s) \in UNION {[S -> Layouts] : S \in SUBSET Images}
  BY <1>2, <1>3
<1>5. NoJob \in Jobs
  <2>1. NoJob.initial \in [{} -> Layouts]
    BY DEF NoJob
  <2>2. NoJob.initial \in UNION {[S -> Layouts] : S \in SUBSET Images}
    BY <2>1
  <2> QED  BY <2>2 DEF NoJob, Jobs
<1> QED  BY <1>4, <1>5 DEF Prepared, Jobs

LEMMA MarkedJob ==
    ASSUME TypeOK, queue # <<>>, NEW job \in Jobs,
           queue' = [queue EXCEPT ![1] = [queue[1] EXCEPT !.job = job]]
    PROVE  /\ queue' \in Seq(Submissions) /\ Len(queue') = Len(queue)
           /\ queue'[1].serial = queue[1].serial /\ queue'[1].buffer = queue[1].buffer
           /\ queue'[1].segment = queue[1].segment /\ queue'[1].job = job
           /\ \A i \in 1..Len(queue) : i # 1 => queue'[i] = queue[i]
<1>1. PICK m : m = [queue[1] EXCEPT !.job = job]
  OBVIOUS
<1>2. queue[1] \in Submissions /\ queue \in Seq(Submissions)
      /\ 1 \in 1..Len(queue) /\ Len(queue) \in Nat
  BY Queued
<1>3. /\ m \in Submissions /\ m.serial = queue[1].serial /\ m.buffer = queue[1].buffer
      /\ m.segment = queue[1].segment /\ m.job = job
  BY <1>1, <1>2 DEF Submissions, Jobs
<1>4. queue' = [queue EXCEPT ![1] = m]
  BY <1>1
<1>5. /\ queue' \in Seq(Submissions) /\ Len(queue') = Len(queue) /\ queue'[1] = m
      /\ \A i \in 1..Len(queue) : i # 1 => queue'[i] = queue[i]
  BY ONLY <1>2, <1>3, <1>4, ExceptSeq
<1> QED  BY <1>3, <1>5

LEMMA Shifted ==
    ASSUME TypeOK, queue # <<>>, queue' = Tail(queue)
    PROVE  /\ queue' \in Seq(Submissions) /\ Len(queue') = Len(queue) - 1
           /\ \A i \in 1..Len(queue') : i + 1 \in 1..Len(queue) /\ i + 1 # 1
                                        /\ queue'[i] = queue[i + 1]
BY Queued, HeadTailProperties

LEMMA Concatenated ==
    ASSUME NEW S, NEW s \in Seq(S), NEW a \in Seq(S)
    PROVE  /\ s \o a \in Seq(S) /\ Len(s \o a) = Len(s) + Len(a)
           /\ \A i \in 1..Len(s) : (s \o a)[i] = s[i]
           /\ \A k \in 1..Len(a) : (s \o a)[Len(s) + k] = a[k]
OBVIOUS

(* Work that nothing is in front of but native work of its own call, none  *)
(* behind a wait, is prepared when it is submitted.                        *)
PreparedIf(call, k, s) ==
    /\ s.segment = Expanded(call)[k].segment
    /\ s.job = IF queue = <<>> /\ AllAtOnce(Expanded(call), k)
               THEN Prepared(s.segment) ELSE NoJob
    /\ queue = <<>> /\ AllAtOnce(Expanded(call), k) => Transition(s.segment)

(* What vkQueueSubmit appends.                                             *)
LEMMA Appended ==
    ASSUME TypeOK, NEW t \in Threads, NEW call \in Calls, Submit(t, call)
    PROVE  /\ queue' \in Seq(Submissions)
           /\ Len(queue') = Len(queue) + Len(Chain(call)) /\ Len(Chain(call)) \in Nat
           /\ nextSerial' = nextSerial + Len(Chain(call)) /\ nextSerial' <= MaxSerial + 1
           /\ \A i \in 1..Len(queue) : queue'[i] = queue[i]
           /\ \A k \in 1..Len(Chain(call)) :
                  LET s == queue'[Len(queue) + k]
                  IN  /\ s.serial = nextSerial + k - 1
                      /\ s.job.launched = 0
                      /\ PreparedIf(call, k, s)
                      /\ \E n \in DOMAIN Recording[s.buffer] :
                             s.segment.begins = Recording[s.buffer][n].begins
<1> DEFINE chain == Expanded(call)
           n == Len(chain)
           AtOnce(k) == chain[k].segment.native /\ ~Deferred(chain, k)
           new(k) == [serial |-> nextSerial + k - 1, buffer |-> chain[k].buffer,
                      segment |-> chain[k].segment,
                      job |-> IF AtOnce(k) THEN Prepared(chain[k].segment) ELSE NoJob]
           added == [k \in 1..n |-> new(k)]
<1>1. /\ n \in Nat /\ n = Len(Chain(call)) /\ DOMAIN chain = 1..n
      /\ \A k \in 1..n :
             /\ chain[k].buffer \in Buffers /\ chain[k].segment \in Segments
             /\ \E m \in DOMAIN Recording[chain[k].buffer] :
                    chain[k].segment.begins = Recording[chain[k].buffer][m].begins
  BY ExpandedPieces
<1>2. /\ queue' = queue \o [k \in DOMAIN chain |-> new(k)]
      /\ nextSerial + n <= MaxSerial + 1 /\ nextSerial' = nextSerial + n
  BY DEF Submit
<1>3. queue' = queue \o added
  BY <1>1, <1>2
<1>4. nextSerial \in Nat \ {0} /\ MaxSerial \in Nat
  BY JobsAssumption DEF TypeOK
<1>5. ASSUME NEW k \in 1..n
      PROVE  /\ new(k) \in Submissions /\ new(k).serial = nextSerial + k - 1
             /\ new(k).job.launched = 0 /\ new(k).buffer = chain[k].buffer
             /\ new(k).segment = chain[k].segment
             /\ new(k).job = IF AtOnce(k) THEN Prepared(chain[k].segment) ELSE NoJob
  <2>1. PICK job : job = (IF AtOnce(k) THEN Prepared(chain[k].segment) ELSE NoJob)
    OBVIOUS
  <2>2. job \in Jobs /\ job.launched = 0
    BY <1>1, <2>1, JobTypes DEF Prepared, NoJob
  <2>3. nextSerial + k - 1 \in 1..MaxSerial
    BY <1>1, <1>2, <1>4
  <2>4. new(k) = [serial |-> nextSerial + k - 1, buffer |-> chain[k].buffer,
                  segment |-> chain[k].segment, job |-> job]
    BY <2>1
  <2> HIDE DEF new, AtOnce, chain
  <2>5. /\ new(k) \in Submissions /\ new(k).serial = nextSerial + k - 1
        /\ new(k).buffer = chain[k].buffer /\ new(k).segment = chain[k].segment
        /\ new(k).job = job
    BY <1>1, <2>2, <2>3, <2>4 DEF Submissions, Jobs
  <2> QED  BY ONLY <2>1, <2>2, <2>5
<1>12. \A k \in 1..n : (AtOnce(k) <=> queue = <<>> /\ AllAtOnce(chain, k))
                       /\ (AtOnce(k) => Transition(chain[k].segment))
  <2>1. \A k \in 1..n : k \in 1..k
    BY <1>1
  <2>2. \A k \in 1..n : AtOnce(k) <=> queue = <<>> /\ AllAtOnce(chain, k)
    BY <2>1 DEF Deferred, AllAtOnce
  <2>3. \A k \in 1..n : AtOnce(k) => Preparable(chain[k].segment)
    BY <1>1 DEF Submit
  <2> QED  BY <2>2, <2>3 DEF Preparable
<1> HIDE DEF new, AtOnce, chain
<1>6. added \in Seq(Submissions) /\ Len(added) = n
      /\ \A k \in 1..n : added[k] = new(k)
  BY <1>1, <1>5
<1>7. queue \in Seq(Submissions) /\ Len(queue) \in Nat
  BY Queued
<1>8. /\ queue' \in Seq(Submissions) /\ Len(queue') = Len(queue) + n
      /\ \A i \in 1..Len(queue) : queue'[i] = queue[i]
      /\ \A k \in 1..n : queue'[Len(queue) + k] = added[k]
  <2>1. PICK a \in Seq(Submissions) : a = added
    BY <1>6
  <2>2. Len(a) = n /\ n \in Nat /\ a \in Seq(Submissions)
    BY <1>1, <1>6, <2>1
  <2>3. queue' = queue \o a
    BY <1>3, <2>1
  <2> HIDE DEF added, n
  <2>4. /\ queue' \in Seq(Submissions) /\ Len(queue') = Len(queue) + n
        /\ \A i \in 1..Len(queue) : queue'[i] = queue[i]
        /\ \A k \in 1..n : queue'[Len(queue) + k] = a[k]
    <3>1. /\ queue \o a \in Seq(Submissions) /\ Len(queue \o a) = Len(queue) + Len(a)
          /\ \A i \in 1..Len(queue) : (queue \o a)[i] = queue[i]
          /\ \A k \in 1..Len(a) : (queue \o a)[Len(queue) + k] = a[k]
      <4>1. queue \in Seq(Submissions) /\ a \in Seq(Submissions)
        BY <1>7, <2>2
      <4> QED  BY ONLY <4>1, Concatenated
    <3> QED  BY ONLY <2>2, <2>3, <3>1
  <2> QED  BY <2>1, <2>4
<1>9. \A k \in 1..n : queue'[Len(queue) + k] = new(k)
  BY <1>6, <1>8
<1>10. nextSerial' = nextSerial + n /\ nextSerial' <= MaxSerial + 1
  BY <1>2
<1>11. ASSUME NEW k \in 1..Len(Chain(call))
       PROVE  LET s == queue'[Len(queue) + k]
              IN  /\ s.serial = nextSerial + k - 1
                  /\ s.job.launched = 0
                  /\ PreparedIf(call, k, s)
                  /\ \E m \in DOMAIN Recording[s.buffer] :
                         s.segment.begins = Recording[s.buffer][m].begins
  <2>1. k \in 1..n
    BY <1>1
  <2>2. PICK s : s = queue'[Len(queue) + k]
    OBVIOUS
  <2>3. /\ s.serial = nextSerial + k - 1 /\ s.job.launched = 0
        /\ s.buffer = chain[k].buffer /\ s.segment = chain[k].segment
    BY <1>5, <1>9, <2>1, <2>2
  <2>4. \E m \in DOMAIN Recording[chain[k].buffer] :
            chain[k].segment.begins = Recording[chain[k].buffer][m].begins
    BY <1>1, <2>1
  <2>5. s.job = (IF AtOnce(k) THEN Prepared(s.segment) ELSE NoJob)
    BY <1>5, <1>9, <2>1, <2>2
  <2>6. PreparedIf(call, k, s)
    BY <1>12, <2>1, <2>3, <2>5 DEF PreparedIf, chain
  <2> QED  BY ONLY <2>2, <2>3, <2>4, <2>6
<1> HIDE DEF added, n
<1> QED  BY <1>1, <1>8, <1>10, <1>11

(* vkSignalSemaphore opens what waits.                                     *)
LEMMA Opened ==
    ASSUME TypeOK,
           queue' = [i \in DOMAIN queue |-> [queue[i] EXCEPT !.segment.gated = FALSE]]
    PROVE  /\ queue' \in Seq(Submissions) /\ Len(queue') = Len(queue)
           /\ \A i \in 1..Len(queue) :
                  /\ queue'[i].serial = queue[i].serial /\ queue'[i].buffer = queue[i].buffer
                  /\ queue'[i].job = queue[i].job /\ ~queue'[i].segment.gated
                  /\ queue'[i].segment.begins = queue[i].segment.begins
                  /\ queue'[i].segment.native = queue[i].segment.native
                  /\ queue'[i].segment.moves = queue[i].segment.moves
<1> DEFINE open(i) == [queue[i] EXCEPT !.segment.gated = FALSE]
<1>1. Len(queue) \in Nat /\ queue' = [i \in 1..Len(queue) |-> open(i)]
  BY Queued
<1>2. ASSUME NEW i \in 1..Len(queue)
      PROVE  /\ open(i) \in Submissions
             /\ open(i).serial = queue[i].serial /\ open(i).buffer = queue[i].buffer
             /\ open(i).job = queue[i].job /\ ~open(i).segment.gated
             /\ open(i).segment.begins = queue[i].segment.begins
             /\ open(i).segment.native = queue[i].segment.native
             /\ open(i).segment.moves = queue[i].segment.moves
  <2>1. PICK e \in Submissions : e = queue[i]
    BY Queued
  <2>2. PICK s \in Segments : s = e.segment
    BY DEF Submissions
  <2>3. PICK o : o = [s EXCEPT !.gated = FALSE]
    OBVIOUS
  <2>4. /\ o \in Segments /\ o.begins = s.begins /\ o.native = s.native /\ ~o.gated
        /\ o.moves = s.moves
    BY <2>3 DEF Segments
  <2>5. open(i) = [e EXCEPT !.segment = o]
    BY <2>1, <2>2, <2>3
  <2> HIDE DEF open
  <2> QED  BY <2>1, <2>2, <2>4, <2>5 DEF Submissions
<1> HIDE DEF open
<1>3. queue' \in Seq(Submissions) /\ Len(queue') = Len(queue)
  <2>1. PICK n \in Nat : n = Len(queue)
    BY <1>1
  <2>2. queue' = [i \in 1..n |-> open(i)] /\ n \in Nat
        /\ \A i \in 1..n : open(i) \in Submissions
    BY <1>1, <1>2, <2>1
  <2>3. queue' \in Seq(Submissions) /\ Len(queue') = n
    BY ONLY <2>2
  <2> QED  BY <2>1, <2>3
<1> QED  BY <1>1, <1>2, <1>3

-----------------------------------------------------------------------------
(* Types.                                                                  *)
QueryTypes ==
    /\ query \in [Queries -> {"uninitialized", "unavailable", "available"}]
    /\ value \in [Queries -> 0..MaxSerial]
    /\ freshFrom \in [Queries -> 0..(MaxSerial + 1)]

LEMMA ResetTypes ==
    ASSUME TypeOK, NEW qs, NEW serial \in 1..(MaxSerial + 1), Reset(qs, serial)
    PROVE  QueryTypes'
BY JobsAssumption DEF TypeOK, QueryTypes, Reset

LEMMA PublishTypes ==
    ASSUME TypeOK, NEW qs, NEW serial \in 1..MaxSerial, Publish(qs, serial)
    PROVE  QueryTypes'
BY JobsAssumption DEF TypeOK, QueryTypes, Publish

LEMMA SerialIsNumber ==
    ASSUME NEW s \in Submissions
    PROVE  s.serial \in 0..MaxSerial
<1>1. s.serial \in 1..MaxSerial
  BY DEF Submissions
<1>2. MaxSerial \in Nat
  BY JobsAssumption
<1> QED  BY ONLY <1>1, <1>2

LEMMA MovedType ==
    ASSUME TypeOK, NEW s \in Segments
    PROVE  Moved(s) \in [Images -> Layouts]
<1>1. PICK S \in SUBSET Images : s.moves \in [S -> Move]
  BY DEF Segments
<1>2. \A i \in DOMAIN s.moves : s.moves[i].new \in Layouts
  BY <1>1 DEF Move
<1> QED  BY <1>2 DEF Moved, TypeOK

-----------------------------------------------------------------------------
(* What is launched, and so what the GPU executes, is the job of the head, *)
(* and the lock is free.  The GPU may be at work on an arena whose launch  *)
(* was reported to fail, of a device that is lost since.                   *)
HeadRuns ==
    /\ gpu # 0 => /\ queue # <<>> /\ queue[1].serial = gpu /\ labels \in 0..1
                  /\ lost \/ labels < queue[1].job.launched
                  /\ holder = Nobody
    /\ \A i \in 1..Len(queue) :
           queue[i].job.launched > 0 =>
               /\ i = 1 /\ holder = Nobody
               /\ lost \/ labels <= queue[i].job.launched
               /\ queue[i].segment.native /\ ~queue[i].segment.gated

(* Before anything of the head is launched nothing runs.                   *)
LEMMA NothingRuns ==
    ASSUME TypeOK, HeadRuns,
           \/ holder # Nobody
           \/ ~lost /\ (\/ queue = <<>> \/ HeadGated
                       \/ ~Head(queue).segment.native \/ Launched = 0)
    PROVE  gpu = 0 /\ \A i \in 1..Len(queue) : queue[i].job.launched = 0
<1>1. \A i \in 1..Len(queue) : queue[i].job.launched \in 0..2
  BY Queued DEF Submissions
<1>2. labels \in 0..2
  BY DEF TypeOK
<1>3. ASSUME NEW i \in 1..Len(queue), queue[i].job.launched > 0 PROVE FALSE
  <2>1. /\ i = 1 /\ holder = Nobody
        /\ queue[1].segment.native /\ ~queue[1].segment.gated /\ queue[1].job.launched > 0
    BY <1>3 DEF HeadRuns
  <2>2. queue # <<>> /\ Head(queue) = queue[1]
    BY <1>3, Queued
  <2> QED  BY <2>1, <2>2 DEF HeadGated, Launched
<1>4. \A i \in 1..Len(queue) : queue[i].job.launched = 0
  BY <1>1, <1>3
<1>5. gpu = 0
  BY <1>2, <1>4, Queued DEF HeadRuns
<1> QED  BY <1>4, <1>5

LEMMA SubmitStep ==
    ASSUME TypeOK, HeadRuns, NEW t \in Threads, NEW call \in Calls, Submit(t, call)
    PROVE  TypeOK' /\ HeadRuns'
<1>1. gpu = 0 /\ \A i \in 1..Len(queue) : queue[i].job.launched = 0
  BY NothingRuns DEF Submit
<1>2. /\ queue' \in Seq(Submissions)
      /\ Len(queue') = Len(queue) + Len(Chain(call)) /\ Len(Chain(call)) \in Nat
      /\ nextSerial' = nextSerial + Len(Chain(call)) /\ nextSerial' <= MaxSerial + 1
      /\ \A i \in 1..Len(queue) : queue'[i] = queue[i]
      /\ \A k \in 1..Len(Chain(call)) : queue'[Len(queue) + k].job.launched = 0
  BY Appended
<1>3. ASSUME NEW i \in 1..Len(queue') PROVE queue'[i].job.launched = 0
  <2>1. CASE i <= Len(queue)
    BY <1>1, <1>2, <2>1, Queued
  <2>2. CASE i > Len(queue)
    <3>1. i - Len(queue) \in 1..Len(Chain(call)) /\ Len(queue) + (i - Len(queue)) = i
      BY <1>2, <2>2, Queued
    <3> QED  BY <1>2, <3>1
  <2> QED  BY <2>1, <2>2, <1>2, Queued
<1>4. HeadRuns'
  <2>1. gpu' = 0
    BY <1>1 DEF Submit, gpuVars
  <2>2. \A i \in 1..Len(queue') : ~(queue'[i].job.launched > 0)
    BY ONLY <1>3
  <2> QED  BY ONLY <2>1, <2>2 DEF HeadRuns
<1>5. nextSerial' \in 1..(MaxSerial + 1)
  BY <1>2, JobsAssumption DEF TypeOK
<1>6. TypeOK'
  BY <1>2, <1>5 DEF TypeOK, Submit, queryVars, gpuVars, waitVars
<1> QED  BY <1>4, <1>6

(* Nothing launched before and after: no need to look further.             *)
LEMMA StillNothing ==
    ASSUME gpu' = 0, \A i \in 1..Len(queue') : queue'[i].job.launched = 0
    PROVE  HeadRuns'
<1>1. \A i \in 1..Len(queue') : ~(queue'[i].job.launched > 0)
  OBVIOUS
<1> QED  BY ONLY <1>1, gpu' = 0 DEF HeadRuns

LEMMA ShiftedNothing ==
    ASSUME TypeOK, queue # <<>>, queue' = Tail(queue), gpu' = 0,
           \A i \in 2..Len(queue) : queue[i].job.launched = 0
    PROVE  HeadRuns'
<1>1. \A i \in 1..Len(queue') : i + 1 \in 1..Len(queue) /\ queue'[i] = queue[i + 1]
  BY Shifted
<1>2. \A i \in 1..Len(queue') : i + 1 \in 2..Len(queue)
  BY <1>1, Queued
<1>3. \A i \in 1..Len(queue') : queue'[i].job.launched = 0
  BY <1>1, <1>2
<1> QED  BY <1>3, StillNothing

(* A turn that finds native work at the head: the job of the head is       *)
(* launched, or the device is lost, whatever the GPU has got by then.      *)
LEMMA LaunchMarks ==
    ASSUME TypeOK, LaunchHead
    PROVE  /\ queue # <<>> /\ queue[1].segment \in Segments /\ queue[1].job \in Jobs
           /\ queue[1].segment.native /\ ~queue[1].segment.gated
           /\ layout' = layout /\ nextSerial' = nextSerial /\ holder' = Nobody
           /\ UNCHANGED queryVars /\ UNCHANGED waitVars
           /\ \/ UNCHANGED queue /\ UNCHANGED gpuVars /\ lost' = TRUE
              \/ \E job \in Jobs :
                     /\ queue' = [queue EXCEPT ![1] = [queue[1] EXCEPT !.job = job]]
                     /\ \/ /\ job.prepared = queue[1].job.prepared
                           /\ job.initial = queue[1].job.initial
                        \/ /\ ~queue[1].job.prepared /\ Transition(queue[1].segment)
                           /\ job.initial = Snapshot(queue[1].segment)
                     /\ labels' = 0 /\ late' = FALSE
                     /\ \/ job.launched = 1 /\ gpu' = queue[1].serial /\ lost' = lost
                        \/ /\ job.launched \in {0, queue[1].job.launched}
                           /\ gpu' \in {0, queue[1].serial} /\ lost' = TRUE
<1> DEFINE s == queue[1]
           j == IF s.job.prepared THEN s.job ELSE Prepared(s.segment)
<1>1. /\ queue # <<>> /\ s = Head(queue) /\ s.segment \in Segments /\ s.job \in Jobs
      /\ s.segment.native /\ ~s.segment.gated
  BY Queued DEF LaunchHead, HeadGated, Submissions, Jobs
<1>2. /\ layout' = layout /\ nextSerial' = nextSerial /\ holder' = Nobody
      /\ UNCHANGED queryVars /\ UNCHANGED waitVars
  BY DEF LaunchHead, Leave, Lose
<1>3. CASE UNCHANGED queue /\ UNCHANGED gpuVars /\ lost' = TRUE
  BY <1>1, <1>2, <1>3
<1>4. CASE /\ s.job.prepared \/ Preparable(s.segment)
           /\ (Launch(j) /\ lost' = lost) \/ (LaunchFails(j) /\ lost' = TRUE)
  <2>1. /\ j \in Jobs
        /\ \/ j = s.job
           \/ ~s.job.prepared /\ j = Prepared(s.segment) /\ Transition(s.segment)
    BY <1>1, <1>4, JobTypes DEF Preparable
  <2>2. \/ j.prepared = s.job.prepared /\ j.initial = s.job.initial
        \/ ~s.job.prepared /\ Transition(s.segment) /\ j.initial = Snapshot(s.segment)
    BY <2>1 DEF Prepared
  <2>3. j.launched \in {0, s.job.launched}
    BY <2>1 DEF Prepared
  <2> HIDE DEF j
  <2>4. CASE Launch(j) /\ lost' = lost
    <3>1. PICK job : job = [j EXCEPT !.launched = 1]
      OBVIOUS
    <3>2. /\ job \in Jobs /\ job.launched = 1
          /\ job.prepared = j.prepared /\ job.initial = j.initial
      BY <2>1, <3>1 DEF Jobs
    <3>3. /\ queue' = [queue EXCEPT ![1] = [queue[1] EXCEPT !.job = job]]
          /\ gpu' = s.serial /\ labels' = 0 /\ late' = FALSE
      BY <1>1, <2>4, <3>1 DEF Launch
    <3> QED  BY <1>1, <1>2, <2>2, <2>4, <3>2, <3>3
  <2>5. CASE LaunchFails(j) /\ lost' = TRUE
    <3>1. /\ queue' = [queue EXCEPT ![1] = [queue[1] EXCEPT !.job = j]]
          /\ gpu' \in {0, s.serial} /\ labels' = 0 /\ late' = FALSE
      BY <1>1, <2>5 DEF LaunchFails
    <3> QED  BY <1>1, <1>2, <2>1, <2>2, <2>3, <2>5, <3>1
  <2> QED  BY <1>4, <2>4, <2>5
<1> QED  BY <1>1, <1>3, <1>4 DEF LaunchHead, Lose

LEMMA StartStep ==
    ASSUME TypeOK, HeadRuns, StartSubmission
    PROVE  TypeOK' /\ HeadRuns'
<1>1. gpu = 0 /\ \A i \in 1..Len(queue) : queue[i].job.launched = 0
  BY NothingRuns DEF StartSubmission
<1>2. CASE StartEnds
  <2>1. HeadRuns'
    BY <1>1, <1>2, StillNothing DEF StartEnds, gpuVars
  <2>2. TypeOK'
    BY <1>2 DEF StartEnds, Leave, TypeOK, queryVars, gpuVars, waitVars
  <2> QED  BY <2>1, <2>2
<1>3. CASE ExecuteFrontend
  <2>1. PICK s \in Submissions : s = Head(queue)
    BY <1>3, Queued DEF ExecuteFrontend
  <2>2. s.segment \in Segments /\ s.serial \in 1..MaxSerial
    BY DEF Submissions
  <2>3. gpu' = 0
    BY <1>1, <1>3 DEF ExecuteFrontend, gpuVars
  <2>4. CASE /\ layout' = Moved(s.segment) /\ Reset(s.segment.resets, s.serial)
             /\ queue' = Tail(queue) /\ UNCHANGED <<holder, lost>>
    <3>1. QueryTypes' /\ layout' \in [Images -> Layouts]
      BY <2>2, <2>4, ResetTypes, MovedType, JobsAssumption
    <3>2. HeadRuns' /\ queue' \in Seq(Submissions)
      <4>1. queue # <<>> /\ queue' = Tail(queue)
        BY <1>3, <2>4 DEF ExecuteFrontend
      <4>2. \A i \in 2..Len(queue) : queue[i].job.launched = 0
        BY <1>1, Queued
      <4>3. HeadRuns'
        BY <2>3, <4>1, <4>2, ShiftedNothing
      <4> QED  BY <4>1, <4>3, Shifted
    <3>3. TypeOK'
      BY <1>3, <2>4, <3>1, <3>2 DEF ExecuteFrontend, TypeOK, QueryTypes, gpuVars, waitVars
    <3> QED  BY <3>2, <3>3
  <2>5. CASE Lose /\ UNCHANGED <<layout, queryVars, queue>>
    <3>1. HeadRuns'
      BY <1>1, <2>3, <2>5, StillNothing
    <3>2. TypeOK'
      BY <1>3, <2>5 DEF ExecuteFrontend, Lose, Leave, TypeOK, queryVars, gpuVars, waitVars
    <3> QED  BY <3>1, <3>2
  <2> QED  BY <1>3, <2>1, <2>4, <2>5 DEF ExecuteFrontend
<1>4. CASE LaunchHead
  <2>1. CASE UNCHANGED queue /\ UNCHANGED gpuVars /\ lost' = TRUE
    <3>1. HeadRuns'
      BY <1>1, <2>1, StillNothing DEF gpuVars
    <3>2. TypeOK'
      BY <1>4, <2>1, LaunchMarks DEF TypeOK, queryVars, gpuVars, waitVars
    <3> QED  BY <3>1, <3>2
  <2>2. ASSUME NEW job \in Jobs,
               queue' = [queue EXCEPT ![1] = [queue[1] EXCEPT !.job = job]],
               labels' = 0, late' = FALSE,
               \/ job.launched = 1 /\ gpu' = queue[1].serial /\ lost' = lost
               \/ /\ job.launched \in {0, queue[1].job.launched}
                  /\ gpu' \in {0, queue[1].serial} /\ lost' = TRUE
        PROVE  TypeOK' /\ HeadRuns'
    <3>1. /\ queue # <<>> /\ queue[1].segment.native /\ ~queue[1].segment.gated
          /\ holder' = Nobody /\ queue[1].job.launched = 0 /\ 1 \in 1..Len(queue)
      BY <1>1, <1>4, LaunchMarks, Queued
    <3>2. /\ queue' \in Seq(Submissions) /\ Len(queue') = Len(queue)
          /\ queue'[1].serial = queue[1].serial
          /\ queue'[1].segment = queue[1].segment /\ queue'[1].job = job
          /\ \A i \in 1..Len(queue) : i # 1 => queue'[i] = queue[i]
      BY <2>2, <3>1, MarkedJob
    <3>3. queue' # <<>>
      BY <3>1, <3>2, Queued
    <3>4. \A i \in 1..Len(queue') : i # 1 => queue'[i].job.launched = 0
      BY <1>1, <3>2
    <3>5. HeadRuns'
      BY <2>2, <3>1, <3>2, <3>3, <3>4 DEF HeadRuns
    <3>6. gpu' \in 0..MaxSerial
      <4>1. queue[1].serial \in 0..MaxSerial
        BY <3>1, Queued, SerialIsNumber
      <4>2. 0 \in 0..MaxSerial
        BY JobsAssumption
      <4> QED  BY <2>2, <4>1, <4>2
    <3>7. labels' \in 0..2 /\ late' \in BOOLEAN /\ holder' \in Threads \cup {Nobody}
          /\ lost' \in BOOLEAN
      <4>1. labels' \in 0..2 /\ holder' \in Threads \cup {Nobody}
        BY <2>2, <3>1
      <4>2. late' \in BOOLEAN /\ lost' \in BOOLEAN
        BY <2>2, Zenon DEF TypeOK
      <4> QED  BY ONLY <4>1, <4>2
    <3>8. UNCHANGED <<layout, query, value, freshFrom, nextSerial, pc, wanted>>
      BY <1>4, LaunchMarks DEF queryVars, waitVars
    <3>9. TypeOK'
      BY ONLY TypeOK, <3>2, <3>6, <3>7, <3>8 DEF TypeOK
    <3> QED  BY <3>5, <3>9
  <2> QED  BY <1>4, <2>1, <2>2, LaunchMarks
<1> QED  BY <1>2, <1>3, <1>4 DEF StartSubmission

LEMMA OutsideStep ==
    ASSUME TypeOK, HeadRuns,
           \/ HostSignal \/ GpuRetires \/ Elapse
           \/ \E q \in Queries : HostReset(q)
    PROVE  TypeOK' /\ HeadRuns'
<1>1. CASE HostSignal
  <2>1. /\ queue' \in Seq(Submissions) /\ Len(queue') = Len(queue)
        /\ \A i \in 1..Len(queue) :
               /\ queue'[i].serial = queue[i].serial
               /\ queue'[i].job = queue[i].job /\ ~queue'[i].segment.gated
               /\ queue'[i].segment.native = queue[i].segment.native
    BY <1>1, Opened DEF HostSignal
  <2>2. gpu' = gpu /\ labels' = labels /\ holder' = holder /\ lost' = lost
    BY <1>1 DEF HostSignal, gpuVars
  <2>3. queue # <<>> => queue' # <<>> /\ 1 \in 1..Len(queue)
    BY <2>1, Queued
  <2>4. HeadRuns'
    BY <2>1, <2>2, <2>3 DEF HeadRuns
  <2>5. TypeOK'
    BY <1>1, <2>1 DEF HostSignal, TypeOK, queryVars, gpuVars, waitVars
  <2> QED  BY <2>4, <2>5
<1>2. CASE GpuRetires
  <2>1. /\ gpu # 0 /\ gpu' = 0 /\ labels' = labels + 1 /\ queue' = queue /\ holder' = holder
    BY <1>2 DEF GpuRetires
  <2>2. labels \in 0..2 /\ \A i \in 1..Len(queue) : queue[i].job.launched \in 0..2
    BY Queued DEF TypeOK, Submissions
  <2>3. /\ labels \in 0..1 /\ lost' = lost /\ 1 \in 1..Len(queue)
        /\ lost \/ labels < queue[1].job.launched
    BY <1>2, <2>1, Queued DEF HeadRuns, GpuRetires
  <2>4. labels' \in 0..2 /\ (lost \/ labels' <= queue[1].job.launched)
    BY <2>1, <2>2, <2>3
  <2>5. HeadRuns'
    BY <2>1, <2>3, <2>4 DEF HeadRuns
  <2>6. TypeOK'
    <3>1. gpu' \in 0..MaxSerial /\ labels' \in 0..2
      BY <2>1, <2>4, JobsAssumption
    <3>2. UNCHANGED <<layout, query, value, freshFrom, queue, nextSerial, holder,
                      lost, late, pc, wanted>>
      BY <1>2 DEF GpuRetires, queryVars, waitVars
    <3> QED  BY ONLY TypeOK, <3>1, <3>2 DEF TypeOK
  <2> QED  BY <2>5, <2>6
<1>3. CASE Elapse
  BY <1>3 DEF Elapse, TypeOK, HeadRuns, queryVars, waitVars
<1>4. ASSUME NEW q \in Queries, HostReset(q) PROVE TypeOK' /\ HeadRuns'
  <2>1. QueryTypes'
    BY <1>4, ResetTypes DEF HostReset, TypeOK
  <2> QED  BY <1>4, <2>1 DEF HostReset, TypeOK, HeadRuns, QueryTypes, gpuVars, waitVars
<1> QED  BY <1>1, <1>2, <1>3, <1>4

(* A poll under the lock, whoever it is that polls.                        *)
LEMMA PollStep ==
    ASSUME TypeOK, HeadRuns, NEW t \in Threads, PollLocked(t),
           pc' \in [Threads -> {"idle", "look", "queued", "poll", "again", "notReady"}],
           wanted' \in [Threads -> Queries]
    PROVE  TypeOK' /\ HeadRuns'
<1>1. CASE UNCHANGED <<layout, queryVars, queue, lost, gpuVars, nextSerial>>
           /\ (holder' = holder \/ PollStart(t))
  <2>1. CASE holder' = holder
    BY <1>1, <2>1 DEF TypeOK, HeadRuns, queryVars, gpuVars
  <2>2. CASE PollStart(t)
    <3>1. gpu = 0 /\ \A i \in 1..Len(queue) : queue[i].job.launched = 0
      BY <2>2, NothingRuns DEF PollStart, PollLocked
    <3>2. holder' = t
      BY <2>2 DEF PollStart
    <3>3. HeadRuns'
      BY <1>1, <3>1, StillNothing DEF gpuVars
    <3>4. TypeOK'
      BY <1>1, <3>2 DEF TypeOK, queryVars, gpuVars
    <3> QED  BY <3>3, <3>4
  <2> QED  BY <1>1, <2>1, <2>2
<1>2. CASE queue # <<>> /\ NextArena /\ nextSerial' = nextSerial
  <2>1. PICK s \in Submissions : s = Head(queue)
    BY <1>2, Queued
  <2>2. /\ s = queue[1] /\ 1 \in 1..Len(queue) /\ s.segment \in Segments
        /\ s.serial \in 1..MaxSerial /\ s.job \in Jobs
    BY <1>2, <2>1, Queued DEF Submissions, Jobs
  <2>3. s.job.launched \in 1..1 /\ labels >= s.job.launched
    <3>1. s.job.launched \in 1..(s.segment.arenas - 1) /\ labels >= s.job.launched
      BY <1>2, <2>1 DEF NextArena, Launched, Retired
    <3>2. s.segment.arenas \in 1..2
      BY <2>2 DEF Segments
    <3> QED  BY <3>1, <3>2
  <2>4. /\ holder = Nobody /\ ~lost /\ labels <= s.job.launched
        /\ s.segment.native /\ ~s.segment.gated
        /\ \A i \in 1..Len(queue) : i # 1 => ~(queue[i].job.launched > 0)
    BY <2>2, <2>3 DEF HeadRuns, PollLocked
  <2>5. CASE /\ queue' = [queue EXCEPT ![1].job.launched = @ + 1]
             /\ gpu' = Head(queue).serial /\ late' = FALSE /\ UNCHANGED lost
    <3>1. PICK job : job = [s.job EXCEPT !.launched = 2]
      OBVIOUS
    <3>2. job \in Jobs /\ job.launched = 2
      BY <2>2, <3>1 DEF Jobs
    <3>3. s.job.launched + 1 = 2
      BY <2>3
    <3>4. queue' = [queue EXCEPT ![1] = [queue[1] EXCEPT !.job = job]]
      BY <2>2, <2>5, <3>1, <3>3, Queued
    <3>5. /\ queue' \in Seq(Submissions) /\ Len(queue') = Len(queue)
          /\ queue'[1].serial = queue[1].serial
          /\ queue'[1].segment = queue[1].segment /\ queue'[1].job = job
          /\ \A i \in 1..Len(queue) : i # 1 => queue'[i] = queue[i]
      BY <1>2, <3>2, <3>4, MarkedJob
    <3>6. labels' = labels /\ holder' = holder /\ queue' # <<>> /\ labels <= 1
          /\ labels \in 0..2
      BY <1>2, <2>2, <2>3, <2>4, <3>5 DEF NextArena, TypeOK
    <3>7. gpu' = s.serial
      BY <2>1, <2>5
    <3>8. HeadRuns'
      BY <2>2, <2>4, <3>2, <3>5, <3>6, <3>7 DEF HeadRuns
    <3>9. TypeOK'
      <4>1. gpu' \in 0..MaxSerial /\ late' \in BOOLEAN
        BY <2>5, <3>7, SerialIsNumber
      <4>2. UNCHANGED <<layout, query, value, freshFrom, nextSerial, holder, lost, labels>>
        BY <1>2, <2>5 DEF NextArena, queryVars
      <4> QED  BY <3>5, <4>1, <4>2 DEF TypeOK
    <3> QED  BY <3>8, <3>9
  <2>6. CASE /\ lost' = TRUE /\ gpu' \in {gpu, Head(queue).serial}
             /\ UNCHANGED <<queue, late>>
    <3>1. /\ labels' = labels /\ holder' = holder /\ labels \in 0..1
          /\ UNCHANGED <<layout, query, value, freshFrom, nextSerial>>
      BY <1>2, <2>3, <2>4 DEF NextArena, TypeOK, queryVars
    <3>2. gpu' \in {gpu, queue[1].serial} /\ gpu' \in 0..MaxSerial
      BY <2>1, <2>2, <2>6, SerialIsNumber, JobsAssumption DEF TypeOK
    <3>3. HeadRuns'
      BY <1>2, <2>4, <2>6, <3>1, <3>2 DEF HeadRuns
    <3>4. TypeOK'
      BY <2>6, <3>1, <3>2 DEF TypeOK
    <3> QED  BY <3>3, <3>4
  <2> QED  BY <1>2, <2>5, <2>6 DEF NextArena
<1>3. CASE queue # <<>> /\ (PollComplete(t) \/ PollFails) /\ nextSerial' = nextSerial
  <2>1. PICK s \in Submissions : s = Head(queue)
    BY <1>3, Queued
  <2>2. /\ s = queue[1] /\ 1 \in 1..Len(queue) /\ s.segment \in Segments
        /\ s.serial \in 1..MaxSerial
    BY <1>3, <2>1, Queued DEF Submissions
  <2>3. QueryTypes'
    BY <1>3, <2>1, <2>2, PublishTypes DEF PollComplete, PollFails
  <2>4. gpu' = gpu /\ labels' = labels /\ late' = late
    BY <1>3 DEF PollComplete, PollFails, gpuVars
  <2>6. CASE lost' = TRUE /\ UNCHANGED <<layout, queue, holder>>
    <3>1. HeadRuns'
      BY <2>4, <2>6 DEF HeadRuns
    <3>2. TypeOK'
      BY <1>3, <2>3, <2>4, <2>6 DEF TypeOK, QueryTypes
    <3> QED  BY <3>1, <3>2
  <2>7. CASE /\ PollComplete(t) /\ layout' = Moved(s.segment) /\ queue' = Tail(queue)
             /\ holder' = t /\ UNCHANGED lost
    <3>1. s.job.launched = s.segment.arenas /\ labels >= s.job.launched
      BY <2>1, <2>7 DEF PollComplete, Launched, Retired
    <3>2. s.segment.arenas \in 1..2 /\ labels \in 0..2
      BY <2>2 DEF Segments, TypeOK
    <3>3. s.job.launched > 0 /\ ~(labels < s.job.launched)
      BY <3>1, <3>2
    <3>4. gpu' = 0
      BY <2>2, <2>4, <3>3 DEF HeadRuns, PollLocked
    <3>5. \A i \in 2..Len(queue) : queue[i].job.launched \in 0..2
                                   /\ ~(queue[i].job.launched > 0)
      BY Queued DEF HeadRuns, Submissions
    <3>6. \A i \in 2..Len(queue) : queue[i].job.launched = 0
      BY ONLY <3>5
    <3>7. HeadRuns' /\ queue' \in Seq(Submissions)
      BY <1>3, <2>7, <3>4, <3>6, Shifted, ShiftedNothing
    <3>8. layout' \in [Images -> Layouts]
      BY <2>2, <2>7, MovedType
    <3>9. TypeOK'
      BY <1>3, <2>3, <2>4, <2>7, <3>7, <3>8 DEF TypeOK, QueryTypes
    <3> QED  BY <3>7, <3>9
  <2> QED  BY <1>3, <2>1, <2>6, <2>7 DEF PollComplete, PollFails
<1>4. CASE queue # <<>> /\ PollRunning /\ nextSerial' = nextSerial
  <2>1. UNCHANGED <<layout, query, value, freshFrom, queue, holder, gpu, labels, late,
                    nextSerial>> /\ lost' = late /\ ~lost
    BY <1>4 DEF PollRunning, PollLocked, queryVars, gpuVars
  <2>2. HeadRuns'
    BY <2>1 DEF HeadRuns
  <2>3. TypeOK'
    BY <2>1 DEF TypeOK
  <2> QED  BY <2>2, <2>3
<1> QED  BY <1>1, <1>2, <1>3, <1>4 DEF PollLocked, PollHead, PollStart

LEMMA WaitStep ==
    ASSUME TypeOK, HeadRuns, NEW t \in Threads,
           Poll(t) \/ Wait(t) \/ \E q \in Queries : GetResults(t, q)
    PROVE  TypeOK' /\ HeadRuns'
<1>1. /\ pc' \in [Threads -> {"idle", "look", "queued", "poll", "again", "notReady"}]
      /\ wanted' \in [Threads -> Queries]
  BY DEF TypeOK, Poll, Wait, GetResults, WaitLook, WaitQueued, WaitPoll, WaitAgain,
         WaitReturns, Go, waitVars
<1>2. \/ PollLocked(t)
      \/ UNCHANGED <<layout, queryVars, queue, nextSerial, holder, lost, gpuVars>>
  BY DEF Poll, Wait, GetResults, WaitLook, WaitQueued, WaitPoll, WaitAgain,
         WaitReturns, OnlyWaits
<1>3. CASE PollLocked(t)
  BY <1>1, <1>3, PollStep
<1>4. CASE UNCHANGED <<layout, queryVars, queue, nextSerial, holder, lost, gpuVars>>
  BY <1>1, <1>4 DEF TypeOK, HeadRuns, queryVars, gpuVars
<1> QED  BY <1>2, <1>3, <1>4

(* Types are correct, and what the GPU runs is the head's.                 *)
LEMMA Running == Spec => [](TypeOK /\ HeadRuns)
<1>1. Init => TypeOK /\ HeadRuns
  <2> SUFFICES ASSUME Init PROVE TypeOK /\ HeadRuns
    OBVIOUS
  <2>1. queue \in Seq(Submissions) /\ Len(queue) = 0 /\ gpu = 0
    BY DEF Init
  <2>2. 1 \in 1..(MaxSerial + 1) /\ 0 \in 0..MaxSerial /\ 0 \in 0..(MaxSerial + 1)
    BY JobsAssumption
  <2>3. HeadRuns
    BY <2>1 DEF HeadRuns
  <2>4. QueryTypes /\ pc \in [Threads -> {"idle", "look", "queued", "poll", "again", "notReady"}]
    BY <2>2 DEF Init, QueryTypes
  <2>5. TypeOK
    <3>1. lost \in BOOLEAN /\ late \in BOOLEAN
      BY Zenon DEF Init
    <3>2. /\ layout \in [Images -> Layouts] /\ nextSerial \in 1..(MaxSerial + 1)
          /\ holder \in Threads \cup {Nobody} /\ gpu \in 0..MaxSerial /\ labels \in 0..2
          /\ wanted \in [Threads -> Queries]
      BY <2>1, <2>2 DEF Init
    <3>3. queue \in Seq(Submissions)
      BY DEF Init
    <3> QED  BY ONLY <2>4, <3>1, <3>2, <3>3 DEF TypeOK, QueryTypes
  <2> QED  BY <2>3, <2>5
<1>2. TypeOK /\ HeadRuns /\ [Next]_vars => TypeOK' /\ HeadRuns'
  <2> SUFFICES ASSUME TypeOK, HeadRuns, [Next]_vars PROVE TypeOK' /\ HeadRuns'
    OBVIOUS
  <2>1. CASE UNCHANGED vars
    BY <2>1 DEF TypeOK, HeadRuns, vars, queryVars, gpuVars, waitVars
  <2>2. CASE Next
    BY <2>2, SubmitStep, StartStep, OutsideStep, WaitStep DEF Next
  <2> QED  BY <2>1, <2>2
<1> QED  BY <1>1, <1>2, PTL DEF Spec

(* The type invariant of every component of the state.                     *)
THEOREM TypeCorrect == Spec => []TypeOK
BY Running, PTL

(* What the GPU executes is the job at the head of the queue, with an      *)
(* arena the label has not reached or one whose launch was said to fail,   *)
(* and nobody is about to launch another.                                  *)
THEOREM ArenasOutlive == Spec => []CommandsOutliveGpu
<1>1. TypeOK /\ HeadRuns => CommandsOutliveGpu
  BY Queued DEF HeadRuns, CommandsOutliveGpu, Launched
<1> QED  BY <1>1, Running, PTL

-----------------------------------------------------------------------------
(* Queries.                                                                *)

(* What is queued counts queries that its buffer names, in the order of    *)
(* serials.                                                                *)
Named ==
    \A i \in 1..Len(queue) :
        \E n \in DOMAIN Recording[queue[i].buffer] :
            queue[i].segment.begins = Recording[queue[i].buffer][n].begins

InOrder ==
    /\ \A i \in 1..Len(queue) : queue[i].serial < nextSerial
    /\ \A i, j \in 1..Len(queue) : i < j => queue[i].serial <= queue[j].serial

(* No reset is newer than queued work that counts the query again.         *)
PromisesFresh ==
    /\ \A q \in Queries : freshFrom[q] <= nextSerial
    /\ \A i \in 1..Len(queue) : \A q \in queue[i].segment.begins :
           q \in Queries => freshFrom[q] <= queue[i].serial

Fresh == Named /\ InOrder /\ PromisesFresh /\ ResetNotOvertaken

(* The queue as it was, but for its jobs and its waits.                    *)
Kept ==
    /\ Len(queue') = Len(queue) /\ nextSerial' = nextSerial
    /\ \A i \in 1..Len(queue) :
           /\ queue'[i].serial = queue[i].serial /\ queue'[i].buffer = queue[i].buffer
           /\ queue'[i].segment.begins = queue[i].segment.begins

(* The queue as it was, or without its head.                               *)
KeptOrShifted ==
    /\ nextSerial' = nextSerial
    /\ \/ Kept
       \/ queue # <<>> /\ queue' = Tail(queue)

LEMMA KeptOrder ==
    ASSUME TypeOK, TypeOK', Named, InOrder, KeptOrShifted
    PROVE  /\ Named' /\ InOrder'
           /\ \A i \in 1..Len(queue') : \E j \in 1..Len(queue) :
                  /\ i <= j /\ queue'[i].serial = queue[j].serial
                  /\ queue'[i].segment.begins = queue[j].segment.begins
                  /\ queue' = Tail(queue) => j > 1
<1>1. Len(queue) \in Nat
  BY Queued
<1>2. CASE Kept
  BY <1>1, <1>2 DEF Kept, Named, InOrder
<1>3. CASE queue # <<>> /\ queue' = Tail(queue)
  <2>1. /\ Len(queue') = Len(queue) - 1
        /\ \A i \in 1..Len(queue') : i + 1 \in 1..Len(queue) /\ queue'[i] = queue[i + 1]
    BY <1>3, Shifted
  <2>2. Named'
    <3> SUFFICES ASSUME NEW i \in 1..Len(queue')
                 PROVE  \E n \in DOMAIN Recording[queue'[i].buffer] :
                            queue'[i].segment.begins
                                = Recording[queue'[i].buffer][n].begins
      BY DEF Named
    <3>1. PICK j \in 1..Len(queue) : queue'[i] = queue[j]
      BY <2>1
    <3> QED  BY <3>1 DEF Named
  <2>3. InOrder'
    <3>1. \A i \in 1..Len(queue') : queue'[i].serial < nextSerial'
      BY <2>1 DEF InOrder, KeptOrShifted, Kept
    <3>2. \A i, j \in 1..Len(queue') : i < j => queue'[i].serial <= queue'[j].serial
      BY <1>1, <2>1 DEF InOrder
    <3> QED  BY <3>1, <3>2 DEF InOrder
  <2>4. ASSUME NEW i \in 1..Len(queue')
        PROVE  \E j \in 1..Len(queue) :
                  /\ i <= j /\ queue'[i].serial = queue[j].serial
                  /\ queue'[i].segment.begins = queue[j].segment.begins
                  /\ queue' = Tail(queue) => j > 1
    <3>1. i + 1 \in 1..Len(queue) /\ queue'[i] = queue[i + 1] /\ i <= i + 1 /\ i + 1 > 1
      BY <1>1, <2>1
    <3> QED  BY <3>1
  <2> QED  BY <2>2, <2>3, <2>4
<1> QED  BY <1>2, <1>3 DEF KeptOrShifted

(* Nothing is known of queries but that no result is older than its reset. *)
LEMMA QueriesAlone ==
    ASSUME TypeOK, TypeOK', Fresh, KeptOrShifted, UNCHANGED queryVars
    PROVE  Fresh'
<1>1. /\ Named' /\ InOrder'
      /\ \A i \in 1..Len(queue') : \E j \in 1..Len(queue) :
             /\ queue'[i].serial = queue[j].serial
             /\ queue'[i].segment.begins = queue[j].segment.begins
  BY KeptOrder DEF Fresh
<1>2. PromisesFresh'
  BY <1>1 DEF Fresh, PromisesFresh, KeptOrShifted, queryVars
<1> QED  BY <1>1, <1>2 DEF Fresh, ResetNotOvertaken, queryVars

(* A job of the head publishes: its queries were reset before it.          *)
LEMMA PublishFresh ==
    ASSUME TypeOK, TypeOK', Fresh, KeptOrShifted, queue # <<>>,
           NEW qs \in SUBSET queue[1].segment.begins, Publish(qs, queue[1].serial)
    PROVE  Fresh'
<1>1. /\ Named' /\ InOrder'
      /\ \A i \in 1..Len(queue') : \E j \in 1..Len(queue) :
             /\ queue'[i].serial = queue[j].serial
             /\ queue'[i].segment.begins = queue[j].segment.begins
  BY KeptOrder DEF Fresh
<1>2. freshFrom' = freshFrom
  BY DEF Publish
<1>3. PromisesFresh'
  BY <1>1, <1>2 DEF Fresh, PromisesFresh, KeptOrShifted
<1>4. ASSUME NEW q \in Queries, query'[q] = "available"
      PROVE  value'[q] >= freshFrom'[q]
  <2>1. CASE q \in qs
    <3>1. value'[q] = queue[1].serial /\ 1 \in 1..Len(queue)
      BY <2>1, Queued DEF Publish
    <3>2. freshFrom[q] <= queue[1].serial
      BY <2>1, <3>1 DEF Fresh, PromisesFresh
    <3>3. freshFrom[q] \in Nat /\ queue[1].serial \in Nat
      BY <3>1, Queued DEF TypeOK, Submissions
    <3> QED  BY <1>2, <3>1, <3>2, <3>3
  <2>2. CASE q \notin qs
    BY <1>2, <1>4, <2>2 DEF Publish, Fresh, ResetNotOvertaken
  <2> QED  BY <2>1, <2>2
<1> QED  BY <1>1, <1>3, <1>4 DEF Fresh, ResetNotOvertaken

(* Host work of the head resets: what is behind it is newer.               *)
LEMMA QueueResets ==
    ASSUME TypeOK, TypeOK', Fresh, queue # <<>>, queue' = Tail(queue),
           nextSerial' = nextSerial, NEW qs, Reset(qs, queue[1].serial)
    PROVE  Fresh'
<1>1. /\ Named' /\ InOrder'
      /\ \A i \in 1..Len(queue') : \E j \in 1..Len(queue) :
             /\ j > 1 /\ queue'[i].serial = queue[j].serial
             /\ queue'[i].segment.begins = queue[j].segment.begins
  BY KeptOrder DEF Fresh, KeptOrShifted
<1>2. 1 \in 1..Len(queue) /\ \A j \in 1..Len(queue) : queue[j].serial \in 1..MaxSerial
  BY Queued DEF Submissions
<1>3. nextSerial \in Nat /\ MaxSerial \in Nat
  BY JobsAssumption DEF TypeOK
<1>4. \A q \in Queries :
          freshFrom'[q] = IF q \in qs THEN queue[1].serial ELSE freshFrom[q]
  BY DEF Reset
<1>5. queue[1].serial < nextSerial
      /\ \A j \in 1..Len(queue) : j > 1 => queue[1].serial <= queue[j].serial
  BY <1>2 DEF Fresh, InOrder
<1>6. \A q \in Queries : freshFrom'[q] <= nextSerial'
  <2> SUFFICES ASSUME NEW q \in Queries PROVE freshFrom'[q] <= nextSerial'
    OBVIOUS
  <2>1. freshFrom[q] <= nextSerial
    BY DEF Fresh, PromisesFresh
  <2> QED  BY <1>2, <1>3, <1>4, <1>5, <2>1
<1>7. ASSUME NEW i \in 1..Len(queue'), NEW q \in queue'[i].segment.begins, q \in Queries
      PROVE  freshFrom'[q] <= queue'[i].serial
  <2>1. PICK j \in 1..Len(queue) :
            /\ j > 1 /\ queue'[i].serial = queue[j].serial
            /\ queue'[i].segment.begins = queue[j].segment.begins
    BY <1>1
  <2>2. freshFrom[q] <= queue[j].serial
    BY <1>7, <2>1 DEF Fresh, PromisesFresh
  <2> QED  BY <1>4, <1>5, <1>7, <2>1, <2>2
<1>8. ResetNotOvertaken'
  BY DEF Reset, Fresh, ResetNotOvertaken
<1> QED  BY <1>1, <1>6, <1>7, <1>8 DEF Fresh, PromisesFresh

(* vkResetQueryPool: queued work that counts the query would name it.      *)
LEMMA HostResets ==
    ASSUME TypeOK, TypeOK', Fresh, NEW q \in Queries, HostReset(q)
    PROVE  Fresh'
<1>1. queue' = queue /\ nextSerial' = nextSerial /\ ~InUse(q) /\ Reset({q}, nextSerial)
  BY DEF HostReset
<1>2. ASSUME NEW i \in 1..Len(queue) PROVE q \notin queue[i].segment.begins
  <2>1. PICK b \in Buffers : b = queue[i].buffer
    BY Queued DEF Submissions
  <2>2. PICK n \in DOMAIN Recording[b] :
            queue[i].segment.begins = Recording[b][n].begins
    BY <2>1 DEF Fresh, Named
  <2>3. Pending(b)
    BY <2>1, Queued DEF Pending
  <2> QED  BY <1>1, <2>2, <2>3 DEF InUse
<1>3. PromisesFresh'
  <2>1. \A p \in Queries : freshFrom'[p] = IF p = q THEN nextSerial ELSE freshFrom[p]
    BY <1>1 DEF Reset
  <2>2. nextSerial \in Nat
    BY DEF TypeOK
  <2> QED  BY <1>1, <1>2, <2>1, <2>2 DEF Fresh, PromisesFresh
<1>4. Named' /\ InOrder'
  BY <1>1 DEF Fresh, Named, InOrder
<1>5. ResetNotOvertaken'
  BY <1>1 DEF Reset, Fresh, ResetNotOvertaken
<1> QED  BY <1>3, <1>4, <1>5 DEF Fresh

(* vkQueueSubmit: what it appends is newer than every reset.               *)
LEMMA SubmitFresh ==
    ASSUME TypeOK, TypeOK', Fresh, NEW t \in Threads, NEW call \in Calls, Submit(t, call)
    PROVE  Fresh'
<1>1. /\ Len(queue') = Len(queue) + Len(Chain(call)) /\ Len(Chain(call)) \in Nat
      /\ nextSerial' = nextSerial + Len(Chain(call))
      /\ \A i \in 1..Len(queue) : queue'[i] = queue[i]
      /\ \A k \in 1..Len(Chain(call)) :
             /\ queue'[Len(queue) + k].serial = nextSerial + k - 1
             /\ \E n \in DOMAIN Recording[queue'[Len(queue) + k].buffer] :
                    queue'[Len(queue) + k].segment.begins
                        = Recording[queue'[Len(queue) + k].buffer][n].begins
  BY Appended
<1>2. UNCHANGED <<query, value, freshFrom>>
  BY DEF Submit, queryVars
<1>3. nextSerial \in Nat /\ Len(queue) \in Nat /\ Len(queue') \in Nat
  BY Queued, <1>1 DEF TypeOK
<1>4. ASSUME NEW i \in 1..Len(queue')
      PROVE  \/ i \in 1..Len(queue) /\ queue'[i] = queue[i]
             \/ /\ i - Len(queue) \in 1..Len(Chain(call))
                /\ queue'[i].serial = nextSerial + (i - Len(queue)) - 1
                /\ \E n \in DOMAIN Recording[queue'[i].buffer] :
                       queue'[i].segment.begins = Recording[queue'[i].buffer][n].begins
  <2>1. CASE i <= Len(queue)
    BY <1>1, <1>3, <2>1
  <2>2. CASE i > Len(queue)
    <3>1. i - Len(queue) \in 1..Len(Chain(call)) /\ Len(queue) + (i - Len(queue)) = i
      BY <1>1, <1>3, <2>2
    <3>2. PICK k \in 1..Len(Chain(call)) : k = i - Len(queue) /\ Len(queue) + k = i
      BY ONLY <3>1
    <3>3. /\ queue'[Len(queue) + k].serial = nextSerial + k - 1
          /\ \E n \in DOMAIN Recording[queue'[Len(queue) + k].buffer] :
                 queue'[Len(queue) + k].segment.begins
                     = Recording[queue'[Len(queue) + k].buffer][n].begins
      BY ONLY <1>1
    <3> QED  BY ONLY <3>2, <3>3
  <2> QED  BY <1>3, <2>1, <2>2
<1>5. \A i \in 1..Len(queue) : queue[i].serial \in Nat /\ queue[i].serial < nextSerial
  BY Queued DEF Submissions, Fresh, InOrder
<1>6. Named'
  BY <1>4 DEF Fresh, Named
<1>7. InOrder'
  <2>1. \A i \in 1..Len(queue') : queue'[i].serial < nextSerial'
    BY <1>1, <1>3, <1>4, <1>5
  <2>2. \A i, j \in 1..Len(queue') : i < j => queue'[i].serial <= queue'[j].serial
    <3> SUFFICES ASSUME NEW i \in 1..Len(queue'), NEW j \in 1..Len(queue'), i < j
                 PROVE  queue'[i].serial <= queue'[j].serial
      OBVIOUS
    <3>1. CASE j \in 1..Len(queue) /\ queue'[j] = queue[j]
      <4>1. i \in 1..Len(queue) /\ queue'[i] = queue[i]
        BY <1>1, <1>3, <3>1
      <4> QED  BY <3>1, <4>1 DEF Fresh, InOrder
    <3>2. CASE /\ j - Len(queue) \in 1..Len(Chain(call))
               /\ queue'[j].serial = nextSerial + (j - Len(queue)) - 1
      <4>1. CASE i \in 1..Len(queue) /\ queue'[i] = queue[i]
        <5>1. queue'[i].serial \in Nat /\ queue'[i].serial < nextSerial
          BY <1>5, <4>1
        <5> QED  BY <1>1, <1>3, <3>2, <5>1
      <4>2. CASE /\ i - Len(queue) \in 1..Len(Chain(call))
                 /\ queue'[i].serial = nextSerial + (i - Len(queue)) - 1
        BY <1>1, <1>3, <3>2, <4>2
      <4> QED  BY <1>4, <4>1, <4>2
    <3> QED  BY <1>4, <3>1, <3>2
  <2> QED  BY <2>1, <2>2 DEF InOrder
<1>8. PromisesFresh'
  <2>1. \A q \in Queries : freshFrom'[q] <= nextSerial /\ freshFrom[q] \in Nat
    BY <1>2 DEF Fresh, PromisesFresh, TypeOK
  <2>2. \A q \in Queries : freshFrom'[q] <= nextSerial'
    BY <1>1, <1>2, <1>3, <2>1
  <2>3. ASSUME NEW i \in 1..Len(queue'), NEW q \in queue'[i].segment.begins, q \in Queries
        PROVE  freshFrom'[q] <= queue'[i].serial
    <3>1. CASE i \in 1..Len(queue) /\ queue'[i] = queue[i]
      BY <1>2, <2>3, <3>1 DEF Fresh, PromisesFresh
    <3>2. CASE i - Len(queue) \in 1..Len(Chain(call))
               /\ queue'[i].serial = nextSerial + (i - Len(queue)) - 1
      BY <1>1, <1>2, <1>3, <2>1, <2>3, <3>2
    <3> QED  BY <1>4, <3>1, <3>2
  <2> QED  BY <2>2, <2>3 DEF PromisesFresh
<1> QED  BY <1>2, <1>6, <1>7, <1>8 DEF Fresh, ResetNotOvertaken

(* Every other step leaves the queue as it was or takes its head, with the *)
(* queries as they were or as the head has them.                           *)
LEMMA QueriesOfHead ==
    ASSUME TypeOK, Next
    PROVE  \/ \E t \in Threads : \E call \in Calls : Submit(t, call)
           \/ \E q \in Queries : HostReset(q)
           \/ KeptOrShifted /\ UNCHANGED queryVars
           \/ /\ KeptOrShifted /\ queue # <<>>
              /\ \E qs \in SUBSET queue[1].segment.begins : Publish(qs, queue[1].serial)
           \/ /\ queue # <<>> /\ queue' = Tail(queue) /\ nextSerial' = nextSerial
              /\ Reset(queue[1].segment.resets, queue[1].serial)
<1>1. queue' = queue /\ nextSerial' = nextSerial => KeptOrShifted
  BY DEF KeptOrShifted, Kept
<1>2. queue # <<>> => Head(queue) = queue[1]
  BY Queued
<1>3. CASE StartSubmission
  <2>1. CASE StartEnds
    BY <1>1, <2>1 DEF StartEnds
  <2>2. CASE ExecuteFrontend
    BY <1>1, <1>2, <2>2 DEF ExecuteFrontend
  <2>3. CASE LaunchHead
    <3>1. CASE queue' = queue
      BY <1>1, <2>3, <3>1, LaunchMarks
    <3>2. ASSUME NEW job \in Jobs,
                 queue' = [queue EXCEPT ![1] = [queue[1] EXCEPT !.job = job]]
          PROVE  KeptOrShifted
      BY <2>3, <3>2, LaunchMarks, MarkedJob, Queued DEF KeptOrShifted, Kept
    <3> QED  BY <2>3, <3>1, <3>2, LaunchMarks
  <2> QED  BY <1>3, <2>1, <2>2, <2>3 DEF StartSubmission
<1>4. ASSUME NEW t \in Threads, PollLocked(t)
      PROVE  \/ KeptOrShifted /\ UNCHANGED queryVars
             \/ /\ KeptOrShifted /\ queue # <<>>
                /\ \E qs \in SUBSET queue[1].segment.begins : Publish(qs, queue[1].serial)
  <2>1. nextSerial' = nextSerial
    BY <1>4 DEF PollLocked
  <2>2. CASE queue' = queue /\ UNCHANGED queryVars
    BY <1>1, <2>1, <2>2
  <2>3. CASE queue # <<>> /\ NextArena
    <3>1. CASE queue' = [queue EXCEPT ![1].job.launched = @ + 1]
      <4>1. /\ queue[1].job \in Jobs /\ queue[1].segment \in Segments
            /\ Head(queue) = queue[1]
        BY <2>3, Queued DEF Submissions, Jobs
      <4>2. queue[1].job.launched + 1 \in 0..2
        <5>1. queue[1].job.launched \in 1..(queue[1].segment.arenas - 1)
          BY <2>3, <4>1 DEF NextArena, Launched
        <5>2. queue[1].segment.arenas \in 1..2
          BY <4>1 DEF Segments
        <5> QED  BY <5>1, <5>2
      <4>3. PICK job : job = [queue[1].job EXCEPT !.launched = queue[1].job.launched + 1]
        OBVIOUS
      <4>4. job \in Jobs
        BY <4>1, <4>2, <4>3 DEF Jobs
      <4>5. queue' = [queue EXCEPT ![1] = [queue[1] EXCEPT !.job = job]]
        BY <2>3, <3>1, <4>3, Queued
      <4>6. Kept
        BY <2>1, <2>3, <4>4, <4>5, MarkedJob, Queued DEF Kept
      <4> QED  BY <2>1, <2>3, <4>6 DEF NextArena, KeptOrShifted, Kept
    <3> QED  BY <2>2, <2>3, <3>1 DEF NextArena
  <2>4. CASE queue # <<>> /\ PollComplete(t)
    <3>1. Publish(queue[1].segment.begins, queue[1].serial)
      BY <1>2, <2>4 DEF PollComplete
    <3>2. queue' = queue \/ queue' = Tail(queue)
      BY <2>4 DEF PollComplete
    <3> QED  BY <1>1, <2>1, <2>4, <3>1, <3>2 DEF KeptOrShifted
  <2>5. CASE queue # <<>> /\ PollFails
    BY <1>1, <1>2, <2>1, <2>5 DEF PollFails
  <2> QED  BY <1>4, <2>2, <2>3, <2>4, <2>5 DEF PollLocked, PollHead, PollStart, PollRunning
<1>5. ASSUME NEW t \in Threads, Poll(t) \/ Wait(t) \/ \E q \in Queries : GetResults(t, q)
      PROVE  \/ PollLocked(t)
             \/ KeptOrShifted /\ UNCHANGED queryVars
  <2>1. \/ PollLocked(t)
        \/ queue' = queue /\ nextSerial' = nextSerial /\ UNCHANGED queryVars
    BY <1>5 DEF Poll, Wait, GetResults, WaitLook, WaitQueued, WaitPoll, WaitAgain,
                WaitReturns, OnlyWaits
  <2> QED  BY <1>1, <2>1
<1>6. CASE HostSignal
  <2>1. Kept
    BY <1>6, Opened DEF HostSignal, Kept
  <2> QED  BY <1>6, <2>1 DEF HostSignal, KeptOrShifted, Kept
<1>7. CASE GpuRetires \/ Elapse
  BY <1>1, <1>7 DEF GpuRetires, Elapse
<1> QED  BY <1>3, <1>4, <1>5, <1>6, <1>7 DEF Next

(* A query that reads as available was counted by work submitted after its *)
(* last reset: no result of earlier work shows up behind a reset.          *)
THEOREM ResetsKeepOrder == Spec => []ResetNotOvertaken
<1>1. Init => Fresh
  <2> SUFFICES ASSUME Init PROVE Fresh
    OBVIOUS
  <2>1. Len(queue) = 0 /\ nextSerial = 1
    BY DEF Init
  <2>2. \A q \in Queries : freshFrom[q] = 0 /\ query[q] = "uninitialized"
    BY DEF Init
  <2> QED  BY <2>1, <2>2 DEF Fresh, Named, InOrder, PromisesFresh, ResetNotOvertaken
<1>2. Fresh /\ TypeOK /\ TypeOK' /\ [Next]_vars => Fresh'
  <2> SUFFICES ASSUME Fresh, TypeOK, TypeOK', [Next]_vars PROVE Fresh'
    OBVIOUS
  <2>1. CASE UNCHANGED vars
    BY <2>1, QueriesAlone DEF vars, KeptOrShifted, Kept
  <2>2. CASE Next
    BY <2>2, QueriesOfHead, SubmitFresh, HostResets, QueriesAlone, PublishFresh,
       QueueResets
  <2> QED  BY <2>1, <2>2
<1>3. Fresh => ResetNotOvertaken
  BY DEF Fresh
<1> QED  BY <1>1, <1>2, <1>3, TypeCorrect, PTL DEF Spec

-----------------------------------------------------------------------------
(* Layout transactions.                                                    *)

(* A prepared job finds every image it names as it was prepared for.       *)
Found(s) ==
    /\ s.segment.native /\ Transition(s.segment) /\ SnapshotHolds(s)
    /\ DOMAIN s.job.initial \subseteq DOMAIN s.segment.moves

(* What is prepared is a prefix of the queue, and what commits in front of *)
(* a prepared job keeps the layouts of the images both name.               *)
Ahead ==
    /\ \A i \in 1..Len(queue) : queue[i].job.prepared => Found(queue[i])
    /\ \A i, j \in 1..Len(queue) :
           i < j /\ queue[j].job.prepared =>
               queue[i].job.prepared /\ Keeps(queue[i].segment, queue[j].segment)

(* What Found and Keeps read of a submission.                              *)
Alike(s, r) ==
    /\ s.segment.native = r.segment.native /\ s.segment.moves = r.segment.moves
    /\ s.job.prepared = r.job.prepared /\ s.job.initial = r.job.initial

LEMMA AheadKept ==
    ASSUME Ahead, UNCHANGED layout, Len(queue') = Len(queue),
           \A i \in 1..Len(queue) : Alike(queue'[i], queue[i])
    PROVE  Ahead'
<1>1. ASSUME NEW i \in 1..Len(queue), queue'[i].job.prepared PROVE Found(queue[i])'
  <2>1. Found(queue[i]) /\ Alike(queue'[i], queue[i])
    BY <1>1 DEF Ahead, Alike
  <2>2. PICK s : s = queue'[i]
    OBVIOUS
  <2>3. Found(s)'
    BY <2>1, <2>2 DEF Found, Alike, Transition, SnapshotHolds
  <2> QED  BY <2>2, <2>3 DEF Found, Transition, SnapshotHolds
<1>2. ASSUME NEW i \in 1..Len(queue), NEW j \in 1..Len(queue), i < j,
             queue'[j].job.prepared
      PROVE  queue'[i].job.prepared /\ Keeps(queue'[i].segment, queue'[j].segment)
  <2>1. queue[i].job.prepared /\ Keeps(queue[i].segment, queue[j].segment)
    BY <1>2 DEF Ahead, Alike
  <2> QED  BY <2>1 DEF Keeps, Alike
<1> QED  BY <1>1, <1>2 DEF Ahead

LEMMA AheadUnmoved ==
    ASSUME Ahead, UNCHANGED <<layout, queue>>
    PROVE  Ahead'
BY AheadKept DEF Alike

(* The head commits: work behind it is not prepared, or finds its images   *)
(* as they were.                                                           *)
LEMMA AheadShifted ==
    ASSUME TypeOK, Ahead, queue # <<>>, queue' = Tail(queue),
           layout' = Moved(queue[1].segment)
    PROVE  Ahead'
<1>1. /\ Len(queue) \in Nat /\ 1 \in 1..Len(queue) /\ Len(queue') = Len(queue) - 1
      /\ \A i \in 1..Len(queue') : i + 1 \in 1..Len(queue) /\ queue'[i] = queue[i + 1]
  BY Queued, Shifted
<1>2. ASSUME NEW i \in 1..Len(queue'), queue'[i].job.prepared PROVE Found(queue[i])'
  <2>1. PICK s \in Submissions : s = queue'[i] /\ s = queue[i + 1]
    BY <1>1, Queued
  <2>2. i + 1 \in 1..Len(queue) /\ 1 < i + 1 /\ s.job.prepared
    BY <1>1, <1>2, <2>1
  <2>3. Found(s) /\ queue[1].job.prepared /\ Keeps(queue[1].segment, s.segment)
    BY <1>1, <2>1, <2>2 DEF Ahead
  <2>4. Transition(queue[1].segment)
    BY <1>1, <2>3 DEF Ahead, Found
  <2>5. \E S \in SUBSET Images : s.segment.moves \in [S -> Move]
    BY DEF Submissions, Segments
  <2>6. ASSUME NEW x \in DOMAIN s.segment.moves PROVE layout'[x] = layout[x]
    <3>1. x \in Images
      BY <2>5, <2>6
    <3>2. CASE x \in DOMAIN queue[1].segment.moves
      <4>1. /\ queue[1].segment.moves[x].new = queue[1].segment.moves[x].old
            /\ queue[1].segment.moves[x].old # Undefined
        BY <2>3, <3>2 DEF Keeps
      <4>2. queue[1].segment.moves[x].old = layout[x]
        BY <2>4, <3>2, <4>1 DEF Transition
      <4> QED  BY <3>1, <3>2, <4>1, <4>2 DEF Moved
    <3>3. CASE x \notin DOMAIN queue[1].segment.moves
      BY <3>1, <3>3 DEF Moved
    <3> QED  BY <3>2, <3>3
  <2>7. Found(s)'
    BY <2>3, <2>6 DEF Found, Transition, SnapshotHolds
  <2> QED  BY <2>1, <2>7 DEF Found, Transition, SnapshotHolds
<1>3. ASSUME NEW i \in 1..Len(queue'), NEW j \in 1..Len(queue'), i < j,
             queue'[j].job.prepared
      PROVE  queue'[i].job.prepared /\ Keeps(queue'[i].segment, queue'[j].segment)
  <2>1. /\ i + 1 \in 1..Len(queue) /\ j + 1 \in 1..Len(queue) /\ i + 1 < j + 1
        /\ queue'[i] = queue[i + 1] /\ queue'[j] = queue[j + 1]
    BY <1>1, <1>3
  <2> QED  BY <1>3, <2>1 DEF Ahead
<1> QED  BY <1>2, <1>3 DEF Ahead

(* A job of the head is marked: prepared before, or only now and alone.    *)
LEMMA AheadMarked ==
    ASSUME TypeOK, Ahead, queue # <<>>, UNCHANGED layout, NEW job \in Jobs,
           queue' = [queue EXCEPT ![1] = [queue[1] EXCEPT !.job = job]],
           \/ /\ job.prepared = queue[1].job.prepared
              /\ job.initial = queue[1].job.initial
           \/ /\ ~queue[1].job.prepared /\ queue[1].segment.native
              /\ Transition(queue[1].segment)
              /\ job.initial = Snapshot(queue[1].segment)
    PROVE  Ahead'
<1>1. /\ Len(queue') = Len(queue) /\ queue'[1].segment = queue[1].segment
      /\ queue'[1].job = job
      /\ \A i \in 1..Len(queue) : i # 1 => queue'[i] = queue[i]
  BY MarkedJob
<1>2. 1 \in 1..Len(queue) /\ Len(queue) \in Nat
  BY Queued
<1>3. CASE job.prepared = queue[1].job.prepared /\ job.initial = queue[1].job.initial
  <2>1. \A i \in 1..Len(queue) : Alike(queue'[i], queue[i])
    BY <1>1, <1>3 DEF Alike
  <2> QED  BY <1>1, <2>1, AheadKept
<1>4. CASE /\ ~queue[1].job.prepared /\ queue[1].segment.native
           /\ Transition(queue[1].segment) /\ job.initial = Snapshot(queue[1].segment)
  <2>1. \A i \in 1..Len(queue) : i # 1 => 1 < i
    BY <1>2
  <2>2. \A i \in 1..Len(queue) : i # 1 => ~queue'[i].job.prepared
    BY <1>1, <1>2, <1>4, <2>1 DEF Ahead
  <2>3. PICK s : s = queue'[1]
    OBVIOUS
  <2>4. DOMAIN s.job.initial = DOMAIN s.segment.moves
        /\ \A x \in DOMAIN s.segment.moves : s.job.initial[x] = layout[x]
    BY <1>1, <1>4, <2>3 DEF Snapshot
  <2>5. s.segment.native /\ Transition(s.segment)
    BY <1>1, <1>4, <2>3
  <2>6. Found(s)'
    BY <2>4, <2>5 DEF Found, Transition, SnapshotHolds
  <2>7. Found(queue[1])'
    BY <2>3, <2>6 DEF Found, Transition, SnapshotHolds
  <2> QED  BY <1>1, <1>2, <2>1, <2>2, <2>7 DEF Ahead
<1> QED  BY <1>3, <1>4

(* vkQueueSubmit: it prepares ahead only behind work of the same call.     *)
LEMMA AheadSubmit ==
    ASSUME TypeOK, Ahead, NEW t \in Threads, NEW call \in Calls, Independent(call),
           Submit(t, call)
    PROVE  Ahead'
<1> DEFINE chain == Expanded(call)
           n == Len(Chain(call))
<1>1. /\ Len(queue') = Len(queue) + n /\ n \in Nat /\ Len(queue) \in Nat
      /\ \A i \in 1..Len(queue) : queue'[i] = queue[i]
      /\ \A k \in 1..n : PreparedIf(call, k, queue'[Len(queue) + k])
  BY Appended, Queued
<1>2. DOMAIN chain = 1..n
  BY ExpandedPieces
<1>3. layout' = layout
  BY DEF Submit
<1>4. CASE queue # <<>>
  <2>1. \A i \in 1..Len(queue') : i \notin 1..Len(queue) =>
            i - Len(queue) \in 1..n /\ i = Len(queue) + (i - Len(queue))
    BY <1>1
  <2>2. \A i \in 1..Len(queue') : i \notin 1..Len(queue) => queue'[i].job = NoJob
    BY <1>1, <1>4, <2>1 DEF PreparedIf
  <2>3. \A i \in 1..Len(queue') : queue'[i].job.prepared =>
            i \in 1..Len(queue) /\ queue'[i] = queue[i]
    BY <1>1, <2>2 DEF NoJob
  <2>4. ASSUME NEW i \in 1..Len(queue'), queue'[i].job.prepared PROVE Found(queue[i])'
    <3>1. PICK s : s = queue[i] /\ s = queue'[i]
      BY <1>4, <2>3, <2>4
    <3>2. Found(s)
      BY <2>3, <2>4, <3>1 DEF Ahead
    <3>3. Found(s)'
      BY <1>3, <3>2 DEF Found, Transition, SnapshotHolds
    <3> QED  BY <3>1, <3>3 DEF Found, Transition, SnapshotHolds
  <2>5. ASSUME NEW i \in 1..Len(queue'), NEW j \in 1..Len(queue'), i < j,
               queue'[j].job.prepared
        PROVE  queue'[i].job.prepared /\ Keeps(queue'[i].segment, queue'[j].segment)
    <3>1. j \in 1..Len(queue) /\ queue'[j] = queue[j]
      BY <2>3, <2>5
    <3>2. i \in 1..Len(queue) /\ queue'[i] = queue[i]
      BY <1>1, <2>5, <3>1
    <3> QED  BY <2>5, <3>1, <3>2 DEF Ahead
  <2> QED  BY <2>4, <2>5 DEF Ahead
<1>5. CASE queue = <<>>
  <2>1. Len(queue) = 0 /\ Len(queue') = n
    BY <1>1, <1>5
  <2>2. ASSUME NEW k \in 1..n
        PROVE  /\ queue'[k].segment = chain[k].segment
               /\ queue'[k].job = IF AllAtOnce(chain, k)
                                  THEN Prepared(chain[k].segment) ELSE NoJob
               /\ AllAtOnce(chain, k) => Transition(chain[k].segment)
    <3>1. Len(queue) + k = k
      BY <2>1
    <3> QED  BY <1>1, <1>5, <3>1 DEF PreparedIf
  <2> HIDE DEF chain, n
  <2>3. \A k \in 1..n : queue'[k].job.prepared <=> AllAtOnce(chain, k)
    <3> SUFFICES ASSUME NEW k \in 1..n
                 PROVE  queue'[k].job.prepared <=> AllAtOnce(chain, k)
      OBVIOUS
    <3>1. NoJob.prepared = FALSE /\ Prepared(chain[k].segment).prepared = TRUE
      BY DEF NoJob, Prepared
    <3>2. CASE AllAtOnce(chain, k)
      BY <2>2, <3>1, <3>2
    <3>3. CASE ~AllAtOnce(chain, k)
      BY <2>2, <3>1, <3>3
    <3> QED  BY <3>2, <3>3
  <2>4. ASSUME NEW i \in 1..n, queue'[i].job.prepared PROVE Found(queue[i])'
    <3>1. PICK s : s = queue'[i]
      OBVIOUS
    <3>2. AllAtOnce(chain, i) /\ i \in 1..i
      BY <1>1, <2>3, <2>4
    <3>3. s.segment.native /\ Transition(s.segment) /\ s.job = Prepared(s.segment)
      BY <2>2, <3>1, <3>2 DEF AllAtOnce
    <3>4. DOMAIN s.job.initial = DOMAIN s.segment.moves
          /\ \A x \in DOMAIN s.segment.moves : s.job.initial[x] = layout[x]
      BY <3>3 DEF Prepared, Snapshot
    <3>5. Found(s)'
      BY <1>3, <3>3, <3>4 DEF Found, Transition, SnapshotHolds
    <3> QED  BY <3>1, <3>5 DEF Found, Transition, SnapshotHolds
  <2>5. ASSUME NEW i \in 1..n, NEW j \in 1..n, i < j, queue'[j].job.prepared
        PROVE  queue'[i].job.prepared /\ Keeps(queue'[i].segment, queue'[j].segment)
    <3>1. AllAtOnce(chain, j)
      BY <2>3, <2>5
    <3>2. AllAtOnce(chain, i)
      BY <1>1, <2>5, <3>1 DEF AllAtOnce
    <3>3. Keeps(chain[i].segment, chain[j].segment)
      BY <1>2, <2>5, <3>1 DEF Independent, chain
    <3> QED  BY <2>2, <2>3, <3>2, <3>3
  <2> QED  BY <2>1, <2>4, <2>5 DEF Ahead
<1> QED  BY <1>4, <1>5

(* start_submission: host work is at the head only when nothing behind it  *)
(* is prepared.                                                            *)
LEMMA AheadStart ==
    ASSUME TypeOK, Ahead, StartSubmission
    PROVE  Ahead'
<1>1. queue # <<>> => /\ Head(queue) = queue[1] /\ queue[1].segment \in Segments
                      /\ queue[1].job \in Jobs /\ 1 \in 1..Len(queue)
  BY Queued DEF Submissions, Jobs
<1>2. CASE UNCHANGED <<layout, queue>>
  BY <1>2, AheadUnmoved
<1>3. CASE ExecuteFrontend
  <2>1. CASE layout' = Moved(Head(queue).segment) /\ queue' = Tail(queue)
    BY <1>1, <1>3, <2>1, AheadShifted DEF ExecuteFrontend
  <2> QED  BY <1>2, <1>3, <2>1 DEF ExecuteFrontend
<1>4. CASE LaunchHead
  <2>1. ASSUME NEW job \in Jobs,
               queue' = [queue EXCEPT ![1] = [queue[1] EXCEPT !.job = job]],
               \/ /\ job.prepared = queue[1].job.prepared
                  /\ job.initial = queue[1].job.initial
               \/ /\ ~queue[1].job.prepared /\ Transition(queue[1].segment)
                  /\ job.initial = Snapshot(queue[1].segment)
        PROVE  Ahead'
    <3>1. queue # <<>> /\ queue[1].segment.native /\ layout' = layout
      BY <1>4, LaunchMarks
    <3> QED  BY <1>1, <2>1, <3>1, AheadMarked
  <2> QED  BY <1>2, <1>4, <2>1, LaunchMarks
<1> QED  BY <1>2, <1>3, <1>4 DEF StartSubmission, StartEnds

(* A poll: the job of the head goes on, or commits.                        *)
LEMMA AheadPoll ==
    ASSUME TypeOK, Ahead, NEW t \in Threads, PollLocked(t)
    PROVE  Ahead'
<1>1. CASE UNCHANGED <<layout, queue>>
  BY <1>1, AheadUnmoved
<1>2. CASE queue # <<>> /\ NextArena
  <2>1. CASE queue' = [queue EXCEPT ![1].job.launched = @ + 1]
    <3>1. queue[1].job \in Jobs /\ queue[1].segment \in Segments /\ Head(queue) = queue[1]
      BY <1>2, Queued DEF Submissions, Jobs
    <3>2. queue[1].job.launched + 1 \in 0..2
      <4>1. queue[1].job.launched \in 1..(queue[1].segment.arenas - 1)
        BY <1>2, <3>1 DEF NextArena, Launched
      <4>2. queue[1].segment.arenas \in 1..2
        BY <3>1 DEF Segments
      <4> QED  BY <4>1, <4>2
    <3>3. PICK job : job = [queue[1].job EXCEPT !.launched = queue[1].job.launched + 1]
      OBVIOUS
    <3>4. /\ job \in Jobs /\ job.prepared = queue[1].job.prepared
          /\ job.initial = queue[1].job.initial
      BY <3>1, <3>2, <3>3 DEF Jobs
    <3>5. queue' = [queue EXCEPT ![1] = [queue[1] EXCEPT !.job = job]]
      BY <1>2, <2>1, <3>3, Queued
    <3>6. layout' = layout
      BY <1>2 DEF NextArena
    <3> QED  BY <1>2, <3>4, <3>5, <3>6, AheadMarked
  <2> QED  BY <1>1, <1>2, <2>1 DEF NextArena
<1>3. CASE queue # <<>> /\ PollComplete(t)
  <2>1. CASE layout' = Moved(Head(queue).segment) /\ queue' = Tail(queue)
    BY <1>3, <2>1, AheadShifted, Queued
  <2> QED  BY <1>1, <1>3, <2>1 DEF PollComplete
<1> QED
  BY <1>1, <1>2, <1>3
  DEF PollLocked, PollHead, PollStart, PollRunning, PollFails

(* The layouts a prepared job found are still those of its images when it  *)
(* is launched and when it commits, whatever hangs or fails and whoever    *)
(* polls, if what a call has prepared at once leaves the images that two   *)
(* segments of it name as they expect them.  The code does not ask this of *)
(* a call; two render passes on one image that change its layout are not   *)
(* so, and then a commit is refused and the device lost.                   *)
THEOREM SnapshotsStay ==
    (\A call \in Calls : Independent(call)) => (Spec => []SnapshotsHold)
<1> SUFFICES ASSUME \A call \in Calls : Independent(call)
             PROVE  Spec => []SnapshotsHold
  OBVIOUS
<1>1. Init => Ahead
  <2> SUFFICES ASSUME Init PROVE Ahead
    OBVIOUS
  <2>1. Len(queue) = 0
    BY DEF Init
  <2> QED  BY <2>1 DEF Ahead
<1>2. Ahead /\ TypeOK /\ [Next]_vars => Ahead'
  <2> SUFFICES ASSUME Ahead, TypeOK, [Next]_vars PROVE Ahead'
    OBVIOUS
  <2>1. CASE UNCHANGED <<layout, queue>>
    BY <2>1, AheadUnmoved
  <2>2. CASE HostSignal
    <3>1. /\ layout' = layout /\ Len(queue') = Len(queue)
          /\ \A i \in 1..Len(queue) : Alike(queue'[i], queue[i])
      BY <2>2, Opened DEF HostSignal, Alike
    <3> QED  BY <3>1, AheadKept
  <2>3. ASSUME NEW t \in Threads, Poll(t) \/ Wait(t) \/ \E q \in Queries : GetResults(t, q)
        PROVE  PollLocked(t) \/ UNCHANGED <<layout, queue>>
    BY <2>3 DEF Poll, Wait, GetResults, WaitLook, WaitQueued, WaitPoll, WaitAgain,
                WaitReturns, OnlyWaits
  <2>4. CASE GpuRetires \/ Elapse \/ \E q \in Queries : HostReset(q)
    BY <2>1, <2>4 DEF GpuRetires, Elapse, HostReset
  <2>5. CASE Next
    BY <2>1, <2>2, <2>3, <2>4, <2>5, AheadSubmit, AheadStart, AheadPoll DEF Next
  <2> QED  BY <2>1, <2>5 DEF vars
<1>3. Ahead /\ TypeOK => SnapshotsHold
  BY Queued DEF Ahead, Found, SnapshotsHold
<1> QED  BY <1>1, <1>2, <1>3, TypeCorrect, PTL DEF Spec

=============================================================================
