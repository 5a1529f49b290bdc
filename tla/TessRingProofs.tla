---------------------------- MODULE TessRingProofs ----------------------------
(***************************************************************************)
(* Theorems of module TessRing, for any number of devices and pipelines:   *)
(*                                                                         *)
(*   TypeCorrect        Spec => []TypeOK                                   *)
(*   RingsGivenBack     Spec => []GivenBackAsFound                         *)
(*   RingsFound         Spec => []GpuFindsItsRings                         *)
(*                                                                         *)
(* Neither invariant is inductive: nothing in them says that a job between *)
(* two calls of the console's driver owns the registers, or what its       *)
(* leases will put back.  Sound(d) says, for each step of a launch and of  *)
(* a completion, what the registers and the leases of device d are.  Its   *)
(* first conjunct is the mutual exclusion the compare-and-exchange gives:  *)
(* a device that borrows is the owner, so a step of another device does    *)
(* not touch what Sound(d) is about (OthersStaySound).                     *)
(***************************************************************************)
EXTENDS TessRing, TLAPS

(* Device d has the registers, or has left them as a failed job left them. *)
Borrows(d) ==
    \/ at[d].step \in {"save", "set", "check", "submit", "launched",
                       "undo", "undone", "retained"}
    \/ at[d].step = "lost" /\ lease[d]["ring"] = "inflight"

(* What a lease of d is, with its register. *)
Kept(d, r)      == previous[d][r] = System
Untouched(d, r) == lease[d][r] = "idle" /\ register[r] = System
Taken(d, r)     == lease[d][r] = "bound" /\ register[r] = d /\ Kept(d, r)
Used(d, r)      == lease[d][r] = "inflight" /\ register[r] = d /\ Kept(d, r)

(* The other register while d binds or restores r. *)
Binding(d, r) ==
    IF r = "ring" THEN Untouched(d, "offchip") ELSE Taken(d, "ring")
Restoring(d, r) ==
    IF r = "ring" THEN Untouched(d, "offchip") \/ Used(d, "offchip")
    ELSE Taken(d, "ring") \/ Untouched(d, "ring")

InFlight(d) == Used(d, "ring") /\ Used(d, "offchip")

(* What each step of the job of d relies on. *)
AtRest(d) ==
    at[d].step \in {"none", "queued"} =>
        \A r \in Registers : lease[d][r] = "idle"
AtSave(d) ==
    at[d].step = "save" =>
        Untouched(d, at[d].reg) /\ Binding(d, at[d].reg)
AtBind(d) ==
    at[d].step \in {"set", "check"} =>
        /\ lease[d][at[d].reg] = "bound" /\ Kept(d, at[d].reg)
        /\ Binding(d, at[d].reg)
AtSubmit(d) ==
    at[d].step = "submit" => Taken(d, "ring") /\ Taken(d, "offchip")
AtLaunched(d) ==
    /\ at[d].step = "launched" => InFlight(d)
    /\ at[d].step = "lost" /\ lease[d]["ring"] = "inflight" => InFlight(d)
AtRestore(d) ==
    at[d].step \in {"undo", "undone"} =>
        /\ lease[d][at[d].reg] = "poisoned" /\ Kept(d, at[d].reg)
        /\ Restoring(d, at[d].reg)
GpuPlace(d) ==
    gpu[d] # "idle" =>
        \/ at[d].step = "launched"
        \/ at[d].step = "lost" /\ lease[d]["ring"] = "inflight"

Sound(d) ==
    /\ Borrows(d) => owner = d
    /\ AtRest(d) /\ AtSave(d) /\ AtBind(d) /\ AtSubmit(d)
    /\ AtLaunched(d) /\ AtRestore(d) /\ GpuPlace(d)
    /\ references[d] >= Named(d)

Inv == TypeOK /\ (\A d \in Devices : Sound(d)) /\ GivenBackAsFound

(* A step of the job of d. *)
OnlyJob(d) ==
    /\ \A e \in Devices : e # d =>
           /\ at'[e] = at[e] /\ lease'[e] = lease[e] /\ previous'[e] = previous[e]
           /\ gpu'[e] = gpu[e] /\ references'[e] = references[e]
    /\ register' = register \/ owner = d
    /\ owner' = owner \/ owner \in {Nobody, d}

(* What is shown of each action of d. *)
Fine(d) == TypeOK' /\ OnlyJob(d) /\ Sound(d)' /\ GivenBackAsFound'
-----------------------------------------------------------------------------
(* Types. *)

(* The steps a job can be at, by the fields they have. *)
LEMMA StepFields ==
    /\ \A r \in Registers : /\ [step |-> "save", reg |-> r] \in Steps
                            /\ [step |-> "set", reg |-> r] \in Steps
                            /\ [step |-> "undo", reg |-> r] \in Steps
    /\ \A r \in Registers, b \in BOOLEAN :
           /\ [step |-> "check", reg |-> r, ok |-> b] \in Steps
           /\ [step |-> "undone", reg |-> r, ok |-> b] \in Steps
    /\ [step |-> "none"] \in Steps /\ [step |-> "queued"] \in Steps
    /\ [step |-> "submit"] \in Steps /\ [step |-> "launched"] \in Steps
    /\ [step |-> "lost"] \in Steps /\ [step |-> "retained"] \in Steps
    /\ \A s \in Steps :
           s.step \in {"save", "set", "undo", "check", "undone"} => s.reg \in Registers
BY DEF Steps

(* What an assignment of a step, or of one or both leases, leaves. *)
LEMMA GoSets ==
    ASSUME TypeOK, NEW d \in Devices, NEW s \in Steps, Go(d, s)
    PROVE  /\ at' \in [Devices -> Steps]
           /\ at'[d] = s
           /\ \A e \in Devices : e # d => at'[e] = at[e]
BY DEF TypeOK, Go

LEMMA LeaseSets ==
    ASSUME TypeOK, NEW d \in Devices, NEW r \in Registers,
           NEW state \in LeaseStates, Lease(d, r, state)
    PROVE  /\ lease' \in [Devices -> [Registers -> LeaseStates]]
           /\ lease'[d][r] = state
           /\ \A q \in Registers : q # r => lease'[d][q] = lease[d][q]
           /\ \A e \in Devices : e # d => lease'[e] = lease[e]
BY DEF TypeOK, Lease

LEMMA LeasesSet ==
    ASSUME TypeOK, NEW d \in Devices,
           NEW q \in Registers, NEW r \in Registers, q # r,
           NEW a \in LeaseStates, NEW b \in LeaseStates,
           lease' = [lease EXCEPT ![d][q] = a, ![d][r] = b]
    PROVE  /\ lease' \in [Devices -> [Registers -> LeaseStates]]
           /\ lease'[d][q] = a /\ lease'[d][r] = b
           /\ \A e \in Devices : e # d => lease'[e] = lease[e]
<1> DEFINE first == [lease EXCEPT ![d][q] = a]
<1>1. first \in [Devices -> [Registers -> LeaseStates]]
  BY DEF TypeOK
<1>2. lease' = [first EXCEPT ![d][r] = b]
  OBVIOUS
<1>3. first[d][q] = a /\ \A e \in Devices : e # d => first[e] = lease[e]
  BY DEF TypeOK
<1> HIDE DEF first
<1> QED
  BY <1>1, <1>2, <1>3

LEMMA GivesUp ==
    ASSUME TypeOK, NEW d \in Devices, NEW r \in Registers, GiveUp(d, r)
    PROVE  /\ owner' \in Devices \cup {Nobody}
           /\ lease' \in [Devices -> [Registers -> LeaseStates]]
           /\ at' \in [Devices -> Steps]
           /\ \A e \in Devices : e # d => at'[e] = at[e] /\ lease'[e] = lease[e]
           /\ r = "offchip" =>
                  /\ at'[d] = [step |-> "undo", reg |-> "ring"]
                  /\ lease'[d]["offchip"] = "idle" /\ lease'[d]["ring"] = "poisoned"
                  /\ owner' = owner
           /\ r = "ring" =>
                  /\ at'[d] = [step |-> "lost"]
                  /\ lease'[d]["ring"] = "idle"
                  /\ lease'[d]["offchip"] = lease[d]["offchip"]
                  /\ owner' = Nobody
<1>1. "ring" \in Registers /\ "offchip" \in Registers
  BY DEF Registers
<1>2. "idle" \in LeaseStates /\ "poisoned" \in LeaseStates
  BY DEF LeaseStates
<1>3. CASE r = "offchip"
  <2>1. Go(d, [step |-> "undo", reg |-> "ring"]) /\ owner' = owner
    BY <1>3 DEF GiveUp
  <2>2. lease' = [lease EXCEPT ![d]["offchip"] = "idle", ![d]["ring"] = "poisoned"]
    BY <1>3 DEF GiveUp
  <2>3. [step |-> "undo", reg |-> "ring"] \in Steps
    BY <1>1, StepFields
  <2>4. /\ at' \in [Devices -> Steps]
        /\ at'[d] = [step |-> "undo", reg |-> "ring"]
        /\ \A e \in Devices : e # d => at'[e] = at[e]
    BY <2>1, <2>3, GoSets
  <2>5. /\ lease' \in [Devices -> [Registers -> LeaseStates]]
        /\ lease'[d]["offchip"] = "idle" /\ lease'[d]["ring"] = "poisoned"
        /\ \A e \in Devices : e # d => lease'[e] = lease[e]
    BY <1>1, <1>2, <2>2, LeasesSet
  <2> QED
    BY <1>3, <2>1, <2>4, <2>5 DEF TypeOK
<1>4. CASE r = "ring"
  <2>1. Go(d, [step |-> "lost"]) /\ Lease(d, "ring", "idle") /\ owner' = Nobody
    BY <1>4 DEF GiveUp
  <2>2. [step |-> "lost"] \in Steps
    BY StepFields
  <2> QED
    BY <1>1, <1>2, <1>4, <2>1, <2>2, GoSets, LeaseSets
<1> QED
  BY <1>3, <1>4 DEF Registers

(* The console's register and the memory of it hold a device or System. *)
LEMMA RegisterSets ==
    ASSUME TypeOK, NEW r \in Registers, NEW value \in Devices \cup {System},
           register' = [register EXCEPT ![r] = value]
    PROVE  /\ register' \in [Registers -> Devices \cup {System}]
           /\ register'[r] = value
           /\ \A q \in Registers : q # r => register'[q] = register[q]
BY DEF TypeOK

LEMMA PreviousSets ==
    ASSUME TypeOK, NEW d \in Devices, NEW r \in Registers,
           previous' = [previous EXCEPT ![d][r] = register[r]]
    PROVE  /\ previous' \in [Devices -> [Registers -> Devices \cup {System}]]
           /\ previous'[d][r] = register[r]
           /\ \A q \in Registers : q # r => previous'[d][q] = previous[d][q]
           /\ \A e \in Devices : e # d => previous'[e] = previous[e]
<1>1. register[r] \in Devices \cup {System}
  BY DEF TypeOK
<1> QED
  BY <1>1 DEF TypeOK
-----------------------------------------------------------------------------
(* The steps of one device leave the others sound. *)

LEMMA OthersStaySound ==
    ASSUME Inv, NEW d \in Devices, NEW e \in Devices, e # d, OnlyJob(d)
    PROVE  Sound(e)'
<1>1. Sound(e)
  BY DEF Inv
<1>2. /\ at'[e] = at[e] /\ lease'[e] = lease[e] /\ previous'[e] = previous[e]
      /\ gpu'[e] = gpu[e] /\ references'[e] = references[e]
  BY DEF OnlyJob
<1>3. Borrows(e)' <=> Borrows(e)
  BY <1>2 DEF Borrows
<1>4. CASE Borrows(e)
  <2>1. owner = e /\ e # Nobody
    BY <1>1, <1>4, RingAssumption DEF Sound
  <2>2. register' = register /\ owner' = owner
    BY <2>1 DEF OnlyJob
  <2> QED
    BY <1>1, <1>2, <1>3, <2>2
    DEF Sound, AtRest, AtSave, AtBind, AtSubmit, AtLaunched, AtRestore, GpuPlace,
        Named, InFlight, Used, Taken, Untouched, Kept, Binding, Restoring
<1>5. CASE ~Borrows(e)
  BY <1>1, <1>2, <1>3, <1>5
  DEF Sound, Borrows, AtRest, AtSave, AtBind, AtSubmit, AtLaunched, AtRestore,
      GpuPlace, Named
<1> QED
  BY <1>4, <1>5

-----------------------------------------------------------------------------
(* Pipelines and preparation. *)

LEMMA PipelinesFine ==
    ASSUME Inv, NEW d \in Devices, CreatePipeline(d) \/ DestroyPipeline(d)
    PROVE  Fine(d)
<1>1. TypeOK /\ Sound(d) /\ GivenBackAsFound
  BY DEF Inv
<1>2. /\ references' \in [Devices -> 0..MaxPipelines]
      /\ \A e \in Devices : e # d => references'[e] = references[e]
      /\ references'[d] >= Named(d)
  <2>1. references[d] \in 0..MaxPipelines /\ MaxPipelines \in Nat
    BY <1>1, RingAssumption DEF TypeOK
  <2>2. Named(d) \in {0, 1} /\ references[d] >= Named(d)
    BY <1>1 DEF Named, Sound
  <2>3. \/ references' = [references EXCEPT ![d] = @ + 1] /\ references[d] < MaxPipelines
        \/ references' = [references EXCEPT ![d] = @ - 1] /\ references[d] > Named(d)
    BY DEF CreatePipeline, DestroyPipeline
  <2> QED
    BY <1>1, <2>1, <2>2, <2>3 DEF TypeOK
<1>3. UNCHANGED <<register, owner, lease, previous, at, gpu>>
  BY DEF CreatePipeline, DestroyPipeline, jobVars
<1>4. TypeOK'
  BY <1>1, <1>2, <1>3 DEF TypeOK
<1>5. OnlyJob(d) /\ GivenBackAsFound'
  BY <1>1, <1>2, <1>3 DEF OnlyJob, GivenBackAsFound
<1>6. Sound(d)'
  BY <1>1, <1>2, <1>3
  DEF Sound, Borrows, AtRest, AtSave, AtBind, AtSubmit, AtLaunched, AtRestore,
      GpuPlace, Named, InFlight, Used, Taken, Untouched, Kept, Binding, Restoring
<1> QED
  BY <1>4, <1>5, <1>6 DEF Fine

LEMMA PrepareFine ==
    ASSUME Inv, NEW d \in Devices, Prepare(d) PROVE Fine(d)
<1>1. TypeOK /\ Sound(d) /\ GivenBackAsFound
  BY DEF Inv
<1>2. /\ at[d].step = "none" /\ references[d] > 0
      /\ Go(d, [step |-> "queued"])
      /\ UNCHANGED <<register, owner, lease, previous, gpu, references>>
  BY DEF Prepare
<1>3. at' \in [Devices -> Steps] /\ at'[d] = [step |-> "queued"]
      /\ \A e \in Devices : e # d => at'[e] = at[e]
  BY <1>1, <1>2, GoSets, StepFields
<1>4. TypeOK'
  BY <1>1, <1>2, <1>3 DEF TypeOK
<1>5. OnlyJob(d) /\ GivenBackAsFound'
  BY <1>1, <1>2, <1>3 DEF OnlyJob, GivenBackAsFound
<1>6. references[d] \in Nat
  BY <1>1 DEF TypeOK
<1>7. Sound(d)'
  BY <1>1, <1>2, <1>3, <1>6
  DEF Sound, Borrows, AtRest, AtSave, AtBind, AtSubmit, AtLaunched, AtRestore,
      GpuPlace, Named
<1> QED
  BY <1>4, <1>5, <1>7 DEF Fine
-----------------------------------------------------------------------------
(* The launch. *)

LEMMA ClaimFine ==
    ASSUME Inv, NEW d \in Devices, Claim(d) PROVE Fine(d)
<1>1. TypeOK /\ Sound(d) /\ GivenBackAsFound
  BY DEF Inv
<1>2. /\ at[d].step = "queued"
      /\ UNCHANGED <<register, lease, previous, gpu, references>>
  BY DEF Claim
<1>3. /\ \A r \in Registers : lease[d][r] = "idle"
      /\ gpu[d] = "idle" /\ references[d] >= 1
  BY <1>1, <1>2 DEF Sound, AtRest, GpuPlace, Named
<1>4. "ring" \in Registers /\ "offchip" \in Registers
  BY DEF Registers
<1>5. CASE owner = Nobody
  <2>1. owner' = d /\ Go(d, [step |-> "save", reg |-> "ring"])
    BY <1>5 DEF Claim
  <2>2. /\ at' \in [Devices -> Steps] /\ at'[d] = [step |-> "save", reg |-> "ring"]
        /\ \A e \in Devices : e # d => at'[e] = at[e]
    BY <1>1, <1>4, <2>1, GoSets, StepFields
  <2>3. \A r \in Registers : register[r] = System
    BY <1>1, <1>5 DEF GivenBackAsFound
  <2>4. TypeOK' /\ OnlyJob(d)
    BY <1>1, <1>2, <1>5, <2>1, <2>2 DEF TypeOK, OnlyJob
  <2>5. Sound(d)'
    BY <1>2, <1>3, <1>4, <2>1, <2>2, <2>3
    DEF Sound, Borrows, AtRest, AtSave, AtBind, AtSubmit, AtLaunched, AtRestore,
      GpuPlace, Named, InFlight, Used, Taken, Untouched, Kept, Binding, Restoring,
      Registers
  <2> QED
    BY <2>1, <2>4, <2>5, RingAssumption DEF Fine, GivenBackAsFound
<1>6. CASE owner # Nobody
  <2>1. owner' = owner /\ Go(d, [step |-> "lost"])
    BY <1>6 DEF Claim
  <2>2. /\ at' \in [Devices -> Steps] /\ at'[d] = [step |-> "lost"]
        /\ \A e \in Devices : e # d => at'[e] = at[e]
    BY <1>1, <2>1, GoSets, StepFields
  <2>3. TypeOK' /\ OnlyJob(d)
    BY <1>1, <1>2, <2>1, <2>2 DEF TypeOK, OnlyJob
  <2>4. Sound(d)'
    BY <1>2, <1>3, <1>4, <2>1, <2>2
    DEF Sound, Borrows, AtRest, AtSave, AtBind, AtSubmit, AtLaunched, AtRestore,
      GpuPlace, Named, InFlight, Used, Taken, Untouched, Kept, Binding, Restoring,
      Registers
  <2> QED
    BY <1>6, <2>1, <2>3, <2>4 DEF Fine, GivenBackAsFound
<1> QED
  BY <1>5, <1>6

(* Giving up while r is being bound or restored and the register of r is   *)
(* as it was found.                                                        *)
LEMMA GiveUpFine ==
    ASSUME Inv, NEW d \in Devices, NEW r \in Registers, GiveUp(d, r),
           owner = d, register[r] = System, Binding(d, r),
           gpu[d] = "idle", references[d] >= 1,
           UNCHANGED <<register, previous, gpu, references>>
    PROVE  Fine(d)
<1>1. TypeOK /\ GivenBackAsFound
  BY DEF Inv
<1>2. d # Nobody
  BY RingAssumption
<1>3. TypeOK' /\ OnlyJob(d)
  BY <1>1, GivesUp DEF TypeOK, OnlyJob
<1>4. CASE r = "offchip"
  <2>1. /\ at'[d] = [step |-> "undo", reg |-> "ring"] /\ owner' = owner
        /\ lease'[d]["offchip"] = "idle" /\ lease'[d]["ring"] = "poisoned"
    BY <1>1, <1>4, GivesUp
  <2>2. Kept(d, "ring")
    BY <1>4 DEF Binding, Taken
  <2>3. Sound(d)'
    BY <1>4, <2>1, <2>2
    DEF Sound, Borrows, AtRest, AtSave, AtBind, AtSubmit, AtLaunched, AtRestore,
      GpuPlace, Named, InFlight, Used, Taken, Untouched, Kept, Binding, Restoring,
      Registers
  <2> QED
    BY <1>2, <1>3, <2>1, <2>3 DEF Fine, GivenBackAsFound
<1>5. CASE r = "ring"
  <2>1. /\ at'[d] = [step |-> "lost"] /\ lease'[d]["ring"] = "idle"
        /\ owner' = Nobody
    BY <1>1, <1>5, GivesUp
  <2>2. register["offchip"] = System
    BY <1>5 DEF Binding, Untouched
  <2>3. GivenBackAsFound'
    BY <1>5, <2>2 DEF GivenBackAsFound, Registers
  <2>4. Sound(d)'
    BY <2>1
    DEF Sound, Borrows, AtRest, AtSave, AtBind, AtSubmit, AtLaunched, AtRestore,
      GpuPlace, Named, InFlight, Used, Taken, Untouched, Kept, Binding, Restoring,
      Registers
  <2> QED
    BY <1>3, <2>3, <2>4 DEF Fine
<1> QED
  BY <1>4, <1>5 DEF Registers

LEMMA SaveFine ==
    ASSUME Inv, NEW d \in Devices, Save(d) PROVE Fine(d)
<1> DEFINE r == at[d].reg
<1>1. TypeOK /\ Sound(d) /\ GivenBackAsFound
  BY DEF Inv
<1>2. /\ at[d].step = "save" /\ r \in Registers
      /\ UNCHANGED <<register, gpu, references>>
  BY <1>1, StepFields DEF Save, TypeOK
<1>3. /\ owner = d /\ Untouched(d, r) /\ Binding(d, r)
      /\ gpu[d] = "idle" /\ references[d] >= 1
  BY <1>1, <1>2 DEF Sound, Borrows, AtSave, GpuPlace, Named
<1>4. d # Nobody
  BY RingAssumption
<1> HIDE DEF r
<1>5. CASE GiveUp(d, r) /\ UNCHANGED previous
  BY <1>2, <1>3, <1>5, GiveUpFine DEF Untouched
<1>6. CASE /\ previous' = [previous EXCEPT ![d][r] = register[r]]
           /\ Lease(d, r, "bound")
           /\ Go(d, [step |-> "set", reg |-> r])
           /\ UNCHANGED owner
  <2>1. "bound" \in LeaseStates /\ [step |-> "set", reg |-> r] \in Steps
    BY <1>2, StepFields DEF LeaseStates
  <2>2. /\ at' \in [Devices -> Steps]
        /\ at'[d] = [step |-> "set", reg |-> r]
        /\ \A e \in Devices : e # d => at'[e] = at[e]
    BY <1>1, <1>6, <2>1, GoSets
  <2>3. /\ lease' \in [Devices -> [Registers -> LeaseStates]]
        /\ lease'[d][r] = "bound"
        /\ \A q \in Registers : q # r => lease'[d][q] = lease[d][q]
        /\ \A e \in Devices : e # d => lease'[e] = lease[e]
    BY <1>1, <1>2, <1>6, <2>1, LeaseSets
  <2>4. /\ previous' \in [Devices -> [Registers -> Devices \cup {System}]]
        /\ previous'[d][r] = System
        /\ \A q \in Registers : q # r => previous'[d][q] = previous[d][q]
        /\ \A e \in Devices : e # d => previous'[e] = previous[e]
    BY <1>1, <1>2, <1>3, <1>6, PreviousSets DEF Untouched
  <2>5. TypeOK' /\ OnlyJob(d)
    BY <1>1, <1>2, <1>6, <2>2, <2>3, <2>4 DEF TypeOK, OnlyJob
  <2>6. Sound(d)'
    BY <1>2, <1>3, <1>6, <2>2, <2>3, <2>4
    DEF Sound, Borrows, AtRest, AtSave, AtBind, AtSubmit, AtLaunched, AtRestore,
      GpuPlace, Named, InFlight, Used, Taken, Untouched, Kept, Binding, Restoring,
      Registers
  <2> QED
    BY <1>3, <1>4, <1>6, <2>5, <2>6 DEF Fine, GivenBackAsFound
<1> QED
  BY <1>5, <1>6 DEF Save, r

LEMMA SetFine ==
    ASSUME Inv, NEW d \in Devices, Set(d) PROVE Fine(d)
<1> DEFINE r == at[d].reg
<1>1. TypeOK /\ Sound(d)
  BY DEF Inv
<1>2. /\ at[d].step = "set" /\ r \in Registers
      /\ UNCHANGED <<owner, lease, previous, gpu, references>>
  BY <1>1, StepFields DEF Set, TypeOK
<1>3. /\ owner = d /\ lease[d][r] = "bound" /\ Kept(d, r) /\ Binding(d, r)
      /\ gpu[d] = "idle" /\ references[d] >= 1
  BY <1>1, <1>2 DEF Sound, Borrows, AtBind, GpuPlace, Named
<1>4. d # Nobody
  BY RingAssumption
<1> HIDE DEF r
<1>5. \/ register' = [register EXCEPT ![r] = d]
      \/ UNCHANGED register
  BY DEF Set, r
<1>6. /\ register' \in [Registers -> Devices \cup {System}]
      /\ \A q \in Registers : q # r => register'[q] = register[q]
  BY <1>1, <1>2, <1>5, RegisterSets DEF TypeOK
<1>7. PICK ok \in BOOLEAN : Go(d, [step |-> "check", reg |-> r, ok |-> ok])
  BY DEF Set, r
<1>8. /\ at' \in [Devices -> Steps]
      /\ at'[d] = [step |-> "check", reg |-> r, ok |-> ok]
      /\ \A e \in Devices : e # d => at'[e] = at[e]
  BY <1>1, <1>2, <1>7, GoSets, StepFields
<1>9. TypeOK' /\ OnlyJob(d)
  BY <1>1, <1>2, <1>3, <1>6, <1>8 DEF TypeOK, OnlyJob
<1>10. Sound(d)'
  BY <1>2, <1>3, <1>6, <1>8
  DEF Sound, Borrows, AtRest, AtSave, AtBind, AtSubmit, AtLaunched, AtRestore,
      GpuPlace, Named, InFlight, Used, Taken, Untouched, Kept, Binding, Restoring,
      Registers
<1> QED
  BY <1>2, <1>3, <1>4, <1>9, <1>10 DEF Fine, GivenBackAsFound

LEMMA CheckFine ==
    ASSUME Inv, NEW d \in Devices, Check(d) PROVE Fine(d)
<1> DEFINE r == at[d].reg
<1>1. TypeOK /\ Sound(d)
  BY DEF Inv
<1>2. /\ at[d].step = "check" /\ r \in Registers
      /\ UNCHANGED <<register, previous, gpu, references>>
  BY <1>1, StepFields DEF Check, TypeOK
<1>3. /\ owner = d /\ lease[d][r] = "bound" /\ Kept(d, r) /\ Binding(d, r)
      /\ gpu[d] = "idle" /\ references[d] >= 1
  BY <1>1, <1>2 DEF Sound, Borrows, AtBind, GpuPlace, Named
<1>4. d # Nobody
  BY RingAssumption
<1> HIDE DEF r
<1>5. CASE /\ register[r] = d
           /\ Go(d, IF r = "ring" THEN [step |-> "save", reg |-> "offchip"]
                                  ELSE [step |-> "submit"])
           /\ UNCHANGED <<lease, owner>>
  <2>1. [step |-> "save", reg |-> "offchip"] \in Steps /\ [step |-> "submit"] \in Steps
    BY StepFields DEF Registers
  <2>2. /\ at' \in [Devices -> Steps]
        /\ at'[d] = IF r = "ring" THEN [step |-> "save", reg |-> "offchip"]
                                  ELSE [step |-> "submit"]
        /\ \A e \in Devices : e # d => at'[e] = at[e]
    BY <1>1, <1>5, <2>1, GoSets
  <2>3. TypeOK' /\ OnlyJob(d)
    BY <1>1, <1>2, <1>5, <2>2 DEF TypeOK, OnlyJob
  <2>4. Sound(d)'
    BY <1>2, <1>3, <1>5, <2>2
    DEF Sound, Borrows, AtRest, AtSave, AtBind, AtSubmit, AtLaunched, AtRestore,
        GpuPlace, Named, InFlight, Used, Taken, Untouched, Kept, Binding, Restoring,
        Registers
  <2> QED
    BY <1>3, <1>4, <1>5, <2>3, <2>4 DEF Fine, GivenBackAsFound
<1>6. CASE RollBack(d, r)
  <2>1. Go(d, [step |-> "undo", reg |-> r]) /\ Lease(d, r, "poisoned") /\ owner' = owner
    BY <1>6 DEF RollBack
  <2>2. /\ at' \in [Devices -> Steps]
        /\ at'[d] = [step |-> "undo", reg |-> r]
        /\ \A e \in Devices : e # d => at'[e] = at[e]
    BY <1>1, <1>2, <2>1, GoSets, StepFields
  <2>3. /\ lease' \in [Devices -> [Registers -> LeaseStates]]
        /\ lease'[d][r] = "poisoned"
        /\ \A q \in Registers : q # r => lease'[d][q] = lease[d][q]
        /\ \A e \in Devices : e # d => lease'[e] = lease[e]
    BY <1>1, <1>2, <2>1, LeaseSets DEF LeaseStates
  <2>4. TypeOK' /\ OnlyJob(d)
    BY <1>1, <1>2, <2>1, <2>2, <2>3 DEF TypeOK, OnlyJob
  <2>5. Sound(d)'
    BY <1>2, <1>3, <2>1, <2>2, <2>3
    DEF Sound, Borrows, AtRest, AtSave, AtBind, AtSubmit, AtLaunched, AtRestore,
        GpuPlace, Named, InFlight, Used, Taken, Untouched, Kept, Binding, Restoring,
        Registers
  <2> QED
    BY <1>3, <1>4, <2>1, <2>4, <2>5 DEF Fine, GivenBackAsFound
<1> QED
  BY <1>5, <1>6 DEF Check, r

LEMMA SubmitFine ==
    ASSUME Inv, NEW d \in Devices, Submit(d) PROVE Fine(d)
<1>1. TypeOK /\ Sound(d)
  BY DEF Inv
<1>2. /\ at[d].step = "submit"
      /\ lease' = [lease EXCEPT ![d] = [r \in Registers |-> "inflight"]]
      /\ UNCHANGED <<register, owner, previous, references>>
      /\ \/ gpu' = [gpu EXCEPT ![d] = "running"]
         \/ gpu' = gpu
  BY DEF Submit
<1>3. /\ owner = d /\ Taken(d, "ring") /\ Taken(d, "offchip")
      /\ gpu[d] = "idle" /\ references[d] >= 1
  BY <1>1, <1>2 DEF Sound, Borrows, AtSubmit, GpuPlace, Named
<1>4. d # Nobody
  BY RingAssumption
<1>5. /\ lease' \in [Devices -> [Registers -> LeaseStates]]
      /\ \A r \in Registers : lease'[d][r] = "inflight"
      /\ \A e \in Devices : e # d => lease'[e] = lease[e]
  BY <1>1, <1>2 DEF TypeOK, LeaseStates
<1>6. /\ at' \in [Devices -> Steps]
      /\ at'[d].step \in {"launched", "lost"}
      /\ \A e \in Devices : e # d => at'[e] = at[e]
  BY <1>1, GoSets, StepFields DEF Submit
<1>7. /\ gpu' \in [Devices -> {"idle", "running", "done"}]
      /\ \A e \in Devices : e # d => gpu'[e] = gpu[e]
  BY <1>1, <1>2 DEF TypeOK
<1>8. TypeOK' /\ OnlyJob(d)
  BY <1>1, <1>2, <1>5, <1>6, <1>7 DEF TypeOK, OnlyJob
<1>9. Sound(d)'
  BY <1>2, <1>3, <1>5, <1>6
  DEF Sound, Borrows, AtRest, AtSave, AtBind, AtSubmit, AtLaunched, AtRestore,
      GpuPlace, Named, InFlight, Used, Taken, Untouched, Kept, Binding, Restoring,
      Registers
<1> QED
  BY <1>2, <1>3, <1>4, <1>8, <1>9 DEF Fine, GivenBackAsFound

-----------------------------------------------------------------------------
(* The completion. *)

LEMMA GpuFine ==
    ASSUME Inv, NEW d \in Devices, GpuRetires(d) \/ PollLate(d) PROVE Fine(d)
<1>1. TypeOK /\ Sound(d) /\ GivenBackAsFound
  BY DEF Inv
<1>2. gpu[d] = "running" /\ UNCHANGED <<register, owner, lease, previous, references>>
  BY DEF GpuRetires, PollLate, jobVars
<1>3. CASE GpuRetires(d)
  <2>1. UNCHANGED at /\ gpu' = [gpu EXCEPT ![d] = "done"]
    BY <1>3 DEF GpuRetires, jobVars
  <2>2. TypeOK' /\ OnlyJob(d)
    BY <1>1, <1>2, <2>1 DEF TypeOK, OnlyJob
  <2>3. Sound(d)'
    BY <1>1, <1>2, <2>1
    DEF Sound, Borrows, AtRest, AtSave, AtBind, AtSubmit, AtLaunched, AtRestore,
        GpuPlace, Named, InFlight, Used, Taken, Untouched, Kept, Binding, Restoring,
        Registers
  <2> QED
    BY <1>1, <1>2, <2>2, <2>3 DEF Fine, GivenBackAsFound
<1>4. CASE PollLate(d)
  <2>1. at[d].step = "launched" /\ Go(d, [step |-> "lost"]) /\ UNCHANGED gpu
    BY <1>4 DEF PollLate
  <2>2. /\ at' \in [Devices -> Steps] /\ at'[d] = [step |-> "lost"]
        /\ \A e \in Devices : e # d => at'[e] = at[e]
    BY <1>1, <2>1, GoSets, StepFields
  <2>3. TypeOK' /\ OnlyJob(d)
    BY <1>1, <1>2, <2>1, <2>2 DEF TypeOK, OnlyJob
  <2>4. Sound(d)'
    BY <1>1, <1>2, <2>1, <2>2
    DEF Sound, Borrows, AtRest, AtSave, AtBind, AtSubmit, AtLaunched, AtRestore,
        GpuPlace, Named, InFlight, Used, Taken, Untouched, Kept, Binding, Restoring,
        Registers
  <2> QED
    BY <1>1, <1>2, <2>3, <2>4 DEF Fine, GivenBackAsFound
<1> QED
  BY <1>3, <1>4

LEMMA PollDoneFine ==
    ASSUME Inv, NEW d \in Devices, PollDone(d) PROVE Fine(d)
<1>1. TypeOK /\ Sound(d)
  BY DEF Inv
<1>2. /\ at[d].step = "launched"
      /\ Lease(d, "ring", "poisoned")
      /\ Go(d, [step |-> "undo", reg |-> "ring"])
      /\ gpu' = [gpu EXCEPT ![d] = "idle"]
      /\ UNCHANGED <<register, owner, previous, references>>
  BY DEF PollDone, Lease
<1>3. owner = d /\ InFlight(d) /\ references[d] >= 1 /\ d # Nobody
  BY <1>1, <1>2, RingAssumption DEF Sound, Borrows, AtLaunched, Named
<1>4. "ring" \in Registers /\ "poisoned" \in LeaseStates
  BY DEF Registers, LeaseStates
<1>5. /\ at' \in [Devices -> Steps]
      /\ at'[d] = [step |-> "undo", reg |-> "ring"]
      /\ \A e \in Devices : e # d => at'[e] = at[e]
  BY <1>1, <1>2, <1>4, GoSets, StepFields
<1>6. /\ lease' \in [Devices -> [Registers -> LeaseStates]]
      /\ lease'[d]["ring"] = "poisoned"
      /\ \A q \in Registers : q # "ring" => lease'[d][q] = lease[d][q]
      /\ \A e \in Devices : e # d => lease'[e] = lease[e]
  BY <1>1, <1>2, <1>4, LeaseSets
<1>7. TypeOK' /\ OnlyJob(d)
  BY <1>1, <1>2, <1>5, <1>6 DEF TypeOK, OnlyJob
<1>8. gpu'[d] = "idle"
  BY <1>1, <1>2 DEF TypeOK
<1>9. Sound(d)'
  BY <1>2, <1>3, <1>5, <1>6, <1>8
  DEF Sound, Borrows, AtRest, AtSave, AtBind, AtSubmit, AtLaunched, AtRestore,
      GpuPlace, Named, InFlight, Used, Taken, Untouched, Kept, Binding, Restoring,
      Registers
<1> QED
  BY <1>2, <1>3, <1>7, <1>9 DEF Fine, GivenBackAsFound

LEMMA UndoFine ==
    ASSUME Inv, NEW d \in Devices, Undo(d) PROVE Fine(d)
<1> DEFINE r == at[d].reg
<1>1. TypeOK /\ Sound(d)
  BY DEF Inv
<1>2. /\ at[d].step = "undo" /\ r \in Registers
      /\ UNCHANGED <<owner, lease, previous, gpu, references>>
  BY <1>1, StepFields DEF Undo, TypeOK
<1>3. /\ owner = d /\ lease[d][r] = "poisoned" /\ Kept(d, r) /\ Restoring(d, r)
      /\ gpu[d] = "idle" /\ references[d] >= 1 /\ d # Nobody
  BY <1>1, <1>2, RingAssumption DEF Sound, Borrows, AtRestore, GpuPlace, Named
<1> HIDE DEF r
<1>4. register' = [register EXCEPT ![r] = previous[d][r]] \/ UNCHANGED register
  BY DEF Undo, r
<1>5. /\ register' \in [Registers -> Devices \cup {System}]
      /\ \A q \in Registers : q # r => register'[q] = register[q]
  BY <1>1, <1>2, <1>3, <1>4, RegisterSets DEF TypeOK, Kept
<1>6. PICK ok \in BOOLEAN : Go(d, [step |-> "undone", reg |-> r, ok |-> ok])
  BY DEF Undo, r
<1>7. /\ at' \in [Devices -> Steps]
      /\ at'[d] = [step |-> "undone", reg |-> r, ok |-> ok]
      /\ \A e \in Devices : e # d => at'[e] = at[e]
  BY <1>1, <1>2, <1>6, GoSets, StepFields
<1>8. TypeOK' /\ OnlyJob(d)
  BY <1>1, <1>2, <1>3, <1>5, <1>7 DEF TypeOK, OnlyJob
<1>9. Sound(d)'
  BY <1>2, <1>3, <1>5, <1>7
  DEF Sound, Borrows, AtRest, AtSave, AtBind, AtSubmit, AtLaunched, AtRestore,
      GpuPlace, Named, InFlight, Used, Taken, Untouched, Kept, Binding, Restoring,
      Registers
<1> QED
  BY <1>2, <1>3, <1>8, <1>9 DEF Fine, GivenBackAsFound

LEMMA UndoneFine ==
    ASSUME Inv, NEW d \in Devices, Undone(d) PROVE Fine(d)
<1> DEFINE r == at[d].reg
<1>1. TypeOK /\ Sound(d)
  BY DEF Inv
<1>2. /\ at[d].step = "undone" /\ r \in Registers
      /\ UNCHANGED <<register, previous, gpu, references>>
  BY <1>1, StepFields DEF Undone, TypeOK
<1>3. /\ owner = d /\ lease[d][r] = "poisoned" /\ Kept(d, r) /\ Restoring(d, r)
      /\ gpu[d] = "idle" /\ references[d] >= 1 /\ d # Nobody
  BY <1>1, <1>2, RingAssumption DEF Sound, Borrows, AtRestore, GpuPlace, Named
<1>4. "ring" \in Registers /\ "offchip" \in Registers
      /\ "idle" \in LeaseStates /\ "poisoned" \in LeaseStates
  BY DEF Registers, LeaseStates
<1> HIDE DEF r
<1>5. CASE Go(d, [step |-> "retained"]) /\ UNCHANGED <<lease, owner>>
  <2>1. /\ at' \in [Devices -> Steps] /\ at'[d] = [step |-> "retained"]
        /\ \A e \in Devices : e # d => at'[e] = at[e]
    BY <1>1, <1>5, GoSets, StepFields
  <2>2. TypeOK' /\ OnlyJob(d)
    BY <1>1, <1>2, <1>5, <2>1 DEF TypeOK, OnlyJob
  <2>3. Sound(d)'
    BY <1>2, <1>3, <1>5, <2>1
    DEF Sound, Borrows, AtRest, AtSave, AtBind, AtSubmit, AtLaunched, AtRestore,
        GpuPlace, Named, InFlight, Used, Taken, Untouched, Kept, Binding, Restoring,
        Registers
  <2> QED
    BY <1>3, <1>5, <2>2, <2>3 DEF Fine, GivenBackAsFound
<1>6. CASE register[r] = System /\ Restored(d, r)
  \* A job is over: the ring is back, now the off-chip buffer.
  <2>1. CASE r = "ring" /\ lease[d]["offchip"] = "inflight"
    <3>1. /\ Go(d, [step |-> "undo", reg |-> "offchip"])
          /\ lease' = [lease EXCEPT ![d]["ring"] = "idle", ![d]["offchip"] = "poisoned"]
          /\ owner' = owner
      BY <1>6, <2>1 DEF Restored
    <3>2. /\ at' \in [Devices -> Steps]
          /\ at'[d] = [step |-> "undo", reg |-> "offchip"]
          /\ \A e \in Devices : e # d => at'[e] = at[e]
      BY <1>1, <1>4, <3>1, GoSets, StepFields
    <3>3. /\ lease' \in [Devices -> [Registers -> LeaseStates]]
          /\ lease'[d]["ring"] = "idle" /\ lease'[d]["offchip"] = "poisoned"
          /\ \A e \in Devices : e # d => lease'[e] = lease[e]
      BY <1>1, <1>4, <3>1, LeasesSet
    <3>4. TypeOK' /\ OnlyJob(d)
      BY <1>1, <1>2, <3>1, <3>2, <3>3 DEF TypeOK, OnlyJob
    <3>5. Kept(d, "offchip")
      BY <1>3, <2>1 DEF Restoring, Untouched, Used
    <3>6. Sound(d)'
      BY <1>2, <1>3, <1>6, <2>1, <3>1, <3>2, <3>3, <3>5
      DEF Sound, Borrows, AtRest, AtSave, AtBind, AtSubmit, AtLaunched, AtRestore,
          GpuPlace, Named, InFlight, Used, Taken, Untouched, Kept, Binding, Restoring,
          Registers
    <3> QED
      BY <1>3, <3>1, <3>4, <3>6 DEF Fine, GivenBackAsFound
  \* A failed bind: the off-chip buffer is back, now the ring.
  <2>2. CASE r = "offchip" /\ lease[d]["ring"] = "bound"
    <3>1. GiveUp(d, "offchip")
      BY <1>6, <2>2 DEF Restored
    <3>2. Binding(d, "offchip")
      BY <1>3, <2>2 DEF Binding, Restoring, Untouched
    <3> QED
      BY <1>2, <1>3, <1>4, <1>6, <2>2, <3>1, <3>2, GiveUpFine
  \* A job is over and both are back.
  <2>3. CASE r = "offchip" /\ lease[d]["ring"] = "idle"
    <3>1. /\ \E step \in {"none", "lost"} : Go(d, [step |-> step])
          /\ Lease(d, "offchip", "idle")
          /\ owner' = Nobody
      BY <1>6, <2>3 DEF Restored
    <3>2. /\ at' \in [Devices -> Steps]
          /\ at'[d].step \in {"none", "lost"}
          /\ \A e \in Devices : e # d => at'[e] = at[e]
      BY <1>1, <3>1, GoSets, StepFields
    <3>3. /\ lease' \in [Devices -> [Registers -> LeaseStates]]
          /\ lease'[d]["offchip"] = "idle" /\ lease'[d]["ring"] = lease[d]["ring"]
          /\ \A e \in Devices : e # d => lease'[e] = lease[e]
      BY <1>1, <1>4, <3>1, LeaseSets
    <3>4. TypeOK' /\ OnlyJob(d)
      BY <1>1, <1>2, <1>3, <3>1, <3>2, <3>3 DEF TypeOK, OnlyJob
    <3>5. register["ring"] = System
      BY <1>3, <2>3 DEF Restoring, Taken, Untouched
    <3>6. GivenBackAsFound'
      BY <1>2, <1>6, <2>3, <3>5 DEF GivenBackAsFound, Registers
    <3>7. \A q \in Registers : lease'[d][q] = "idle"
      BY <2>3, <3>3 DEF Registers
    <3>8. gpu'[d] = "idle" /\ references'[d] >= 1 /\ Named(d)' \in {0, 1}
      BY <1>2, <1>3 DEF Named
    <3>9. references'[d] >= Named(d)'
      BY <1>1, <1>2, <3>8 DEF TypeOK
    <3>10. Sound(d)'
      BY <1>4, <3>2, <3>7, <3>8, <3>9
      DEF Sound, Borrows, AtRest, AtSave, AtBind, AtSubmit, AtLaunched, AtRestore,
          GpuPlace
    <3> QED
      BY <3>4, <3>6, <3>10 DEF Fine
  \* A failed bind: the ring is back, and nothing else was bound.
  <2>4. CASE r = "ring" /\ lease[d]["offchip"] # "inflight"
    <3>1. GiveUp(d, "ring")
      BY <1>6, <2>4 DEF Restored
    <3>2. Binding(d, "ring")
      BY <1>3, <2>4 DEF Binding, Restoring, Used
    <3> QED
      BY <1>2, <1>3, <1>4, <1>6, <2>4, <3>1, <3>2, GiveUpFine
  <2>5. r = "offchip" => lease[d]["ring"] \in {"bound", "idle"}
    BY <1>3 DEF Restoring, Taken, Untouched
  <2> QED
    BY <1>2, <2>1, <2>2, <2>3, <2>4, <2>5 DEF Registers
<1> QED
  BY <1>3, <1>5, <1>6 DEF Undone, r, Kept

-----------------------------------------------------------------------------
LEMMA InvStep == Inv /\ [Next]_vars => Inv'
<1> SUFFICES ASSUME Inv, [Next]_vars PROVE Inv'
  OBVIOUS
<1>1. CASE UNCHANGED vars
  BY <1>1
  DEF Inv, vars, jobVars, TypeOK, GivenBackAsFound, Sound, Borrows, AtRest, AtSave,
      AtBind, AtSubmit, AtLaunched, AtRestore, GpuPlace, Named, InFlight, Used,
      Taken, Untouched, Kept, Binding, Restoring
<1>2. CASE Next
  <2>1. PICK d \in Devices : \/ CreatePipeline(d) \/ DestroyPipeline(d) \/ Prepare(d)
                            \/ Launch(d) \/ Complete(d) \/ GpuRetires(d)
    BY <1>2 DEF Next
  <2>2. Fine(d)
    BY <2>1, PipelinesFine, PrepareFine, ClaimFine, SaveFine, SetFine, CheckFine,
       SubmitFine, GpuFine, PollDoneFine, UndoFine, UndoneFine
    DEF Launch, Complete
  <2>3. \A e \in Devices : Sound(e)'
    BY <2>2, OthersStaySound DEF Fine
  <2> QED
    BY <2>2, <2>3 DEF Inv, Fine
<1> QED
  BY <1>1, <1>2

LEMMA Invariant == Spec => []Inv
<1>1. Init => Inv
  BY RingAssumption, StepFields
  DEF Init, Inv, TypeOK, LeaseStates, GivenBackAsFound, Sound, Borrows, AtRest, AtSave,
      AtBind, AtSubmit, AtLaunched, AtRestore, GpuPlace, Named
<1> QED
  BY <1>1, InvStep, PTL DEF Spec

(* The registers, the leases and the steps of every job keep their types. *)
THEOREM TypeCorrect == Spec => []TypeOK
<1>1. Inv => TypeOK
  BY DEF Inv
<1> QED
  BY <1>1, Invariant, PTL

(* Whoever finds the registers free finds them as the console's driver     *)
(* left them: a launch that fails half way and a job that cannot put them  *)
(* back keep them borrowed (launch_batch, poll).                           *)
THEOREM RingsGivenBack == Spec => []GivenBackAsFound
<1>1. Inv => GivenBackAsFound
  BY DEF Inv
<1> QED
  BY <1>1, Invariant, PTL

(* While the GPU runs a tessellation job both registers point at the       *)
(* storage of its device, and the storage exists (ring_owner,              *)
(* tess_shared_storage.c).                                                 *)
THEOREM RingsFound == Spec => []GpuFindsItsRings
<1>1. Inv => GpuFindsItsRings
  <2> SUFFICES ASSUME Inv, NEW d \in Devices, gpu[d] = "running"
               PROVE  (\A r \in Registers : register[r] = d) /\ references[d] > 0
    BY DEF GpuFindsItsRings
  <2>1. Sound(d) /\ references[d] \in Nat
    BY DEF Inv, TypeOK
  <2>2. InFlight(d) /\ at[d].step # "none"
    BY <2>1 DEF Sound, GpuPlace, AtLaunched
  <2> QED
    BY <2>1, <2>2 DEF InFlight, Used, Registers, Sound, Named
<1> QED
  BY <1>1, Invariant, PTL
=============================================================================
