------------------------------- MODULE TessRing -------------------------------
(***************************************************************************)
(* The registers of the tessellation rings: one tessellation factor ring   *)
(* and one off-chip buffer per process, owned by the driver of the console *)
(* and borrowed by one graphics job at a time (native/graphics_queue_ps5.c,*)
(* native/tess_ring_lease.c, native/tess_offchip_lease.h).  Several        *)
(* devices of the process launch and poll tessellation jobs, each under    *)
(* its own device lock; they share the registers and ring_owner.           *)
(*                                                                         *)
(* A job points the registers at the storage of its device, which its      *)
(* pipelines share by counting references (native/tess_shared_storage.c).  *)
(* Every call into the console's driver is a step: a setter may fail with  *)
(* or without effect, and a getter may fail or read something else.        *)
(***************************************************************************)
EXTENDS Integers

CONSTANTS
    Devices,
    System,       \* what the registers hold when no job has borrowed them
    Nobody,       \* ring_owner is NULL
    MaxPipelines  \* UINT_MAX references to one storage

ASSUME RingAssumption ==
    /\ System \notin Devices /\ Nobody \notin Devices
    /\ MaxPipelines \in Nat

(* The order in which launch_batch binds them.                             *)
Registers == {"ring", "offchip"}

VARIABLES
    register,    \* what the console's driver has in each register
    owner,       \* ring_owner
    lease,       \* state of the leases of each device's job
    previous,    \* what each lease found in its register
    at,          \* the step of each device's job
    gpu,         \* whether the GPU is executing the job
    references   \* pipelines that share the storage of each device

jobVars == <<lease, previous, at>>
vars == <<register, owner, jobVars, gpu, references>>

LeaseStates == {"idle", "bound", "inflight", "poisoned"}

(* bind: save, set, check of a register.  undo: set, check of a restore.   *)
(* ok is what the setter reported.  A lost device and a retained thread    *)
(* do nothing more.                                                        *)
Steps ==
    [step : {"none", "queued", "submit", "launched", "lost", "retained"}] \cup
    [step : {"save", "set", "undo"}, reg : Registers] \cup
    [step : {"check", "undone"}, reg : Registers, ok : BOOLEAN]

TypeOK ==
    /\ register \in [Registers -> Devices \cup {System}]
    /\ owner \in Devices \cup {Nobody}
    /\ lease \in [Devices -> [Registers -> LeaseStates]]
    /\ previous \in [Devices -> [Registers -> Devices \cup {System}]]
    /\ at \in [Devices -> Steps]
    /\ gpu \in [Devices -> {"idle", "running", "done"}]
    /\ references \in [Devices -> 0..MaxPipelines]

Init ==
    /\ register = [r \in Registers |-> System]
    /\ owner = Nobody
    /\ lease = [d \in Devices |-> [r \in Registers |-> "idle"]]
    /\ previous = [d \in Devices |-> [r \in Registers |-> System]]
    /\ at = [d \in Devices |-> [step |-> "none"]]
    /\ gpu = [d \in Devices |-> "idle"]
    /\ references = [d \in Devices |-> 0]

Go(d, step) == at' = [at EXCEPT ![d] = step]
Lease(d, r, state) == lease' = [lease EXCEPT ![d][r] = state]

-----------------------------------------------------------------------------
(* Pipelines.  A device's storage exists while a pipeline refers to it;    *)
(* a pipeline that a queued or running job names cannot be destroyed, and  *)
(* a lost device keeps its job queued.                                     *)
Named(d) == IF at[d].step = "none" THEN 0 ELSE 1

CreatePipeline(d) ==
    /\ references[d] < MaxPipelines
    /\ references' = [references EXCEPT ![d] = @ + 1]
    /\ UNCHANGED <<register, owner, jobVars, gpu>>

(* Slip: pending use is not looked at. *)
DestroyPipelineInUse(d) ==
    /\ references[d] > 0
    /\ references' = [references EXCEPT ![d] = @ - 1]
    /\ UNCHANGED <<register, owner, jobVars, gpu>>

DestroyPipeline(d) ==
    /\ references[d] > Named(d)
    /\ references' = [references EXCEPT ![d] = @ - 1]
    /\ UNCHANGED <<register, owner, jobVars, gpu>>

(* A job with a tessellation draw is prepared with the address of the      *)
(* storage (all its draws agree on it); its leases are new.                *)
Prepare(d) ==
    /\ at[d].step = "none" /\ references[d] > 0
    /\ Go(d, [step |-> "queued"])
    /\ UNCHANGED <<register, owner, lease, previous, gpu, references>>

-----------------------------------------------------------------------------
(* launch_batch, first arena.                                              *)

(* Slip: the owner is stored without looking at the one before. *)
ClaimByStoring(d) ==
    /\ at[d].step = "queued"
    /\ owner' = d
    /\ Go(d, [step |-> "save", reg |-> "ring"])
    /\ UNCHANGED <<register, lease, previous, gpu, references>>

(* The compare-and-exchange on ring_owner; a launch that finds the         *)
(* registers borrowed fails and loses its device.                          *)
Claim(d) ==
    /\ at[d].step = "queued"
    /\ IF owner = Nobody
       THEN owner' = d /\ Go(d, [step |-> "save", reg |-> "ring"])
       ELSE Go(d, [step |-> "lost"]) /\ UNCHANGED owner
    /\ UNCHANGED <<register, lease, previous, gpu, references>>

(* A bind that failed gives up what was bound before it.  With the ring    *)
(* unbound there is nothing to give up but the ownership.                  *)
GiveUp(d, r) ==
    IF r = "offchip"
    THEN /\ Go(d, [step |-> "undo", reg |-> "ring"])
         /\ lease' = [lease EXCEPT ![d]["offchip"] = "idle", ![d]["ring"] = "poisoned"]
         /\ UNCHANGED owner
    ELSE /\ Go(d, [step |-> "lost"])
         /\ Lease(d, "ring", "idle")
         /\ owner' = Nobody

Save(d) ==
    /\ at[d].step = "save"
    /\ LET r == at[d].reg
       IN  \/ /\ previous' = [previous EXCEPT ![d][r] = register[r]]
              /\ Lease(d, r, "bound")
              /\ Go(d, [step |-> "set", reg |-> r])
              /\ UNCHANGED owner
           \/ GiveUp(d, r) /\ UNCHANGED previous
    /\ UNCHANGED <<register, gpu, references>>

Set(d) ==
    /\ at[d].step = "set"
    /\ LET r == at[d].reg
       IN  \/ /\ register' = [register EXCEPT ![r] = d]
              /\ \E ok \in BOOLEAN : Go(d, [step |-> "check", reg |-> r, ok |-> ok])
           \/ /\ Go(d, [step |-> "check", reg |-> r, ok |-> FALSE])
              /\ UNCHANGED register
    /\ UNCHANGED <<owner, lease, previous, gpu, references>>

(* Slip: a bind that failed is taken not to have changed the register. *)
RollBackNothing(d, r) == GiveUp(d, r)

(* A failing setter may have changed the register: it is always restored.  *)
RollBack(d, r) ==
    /\ Go(d, [step |-> "undo", reg |-> r])
    /\ Lease(d, r, "poisoned")
    /\ UNCHANGED owner

Check(d) ==
    /\ at[d].step = "check"
    /\ LET r == at[d].reg
       IN  \/ /\ at[d].ok /\ register[r] = d
              /\ Go(d, IF r = "ring" THEN [step |-> "save", reg |-> "offchip"]
                                     ELSE [step |-> "submit"])
              /\ UNCHANGED <<lease, owner>>
           \/ RollBack(d, r)
    /\ UNCHANGED <<register, previous, gpu, references>>

(* Both leases are in flight before the first arena is submitted; after    *)
(* that a failure leaves the device lost with the registers borrowed.      *)
Submit(d) ==
    /\ at[d].step = "submit"
    /\ lease' = [lease EXCEPT ![d] = [r \in Registers |-> "inflight"]]
    /\ \/ Go(d, [step |-> "launched"]) /\ gpu' = [gpu EXCEPT ![d] = "running"]
       \/ Go(d, [step |-> "lost"]) /\ gpu' \in {[gpu EXCEPT ![d] = "running"], gpu}
    /\ UNCHANGED <<register, owner, previous, references>>

GpuRetires(d) ==
    /\ gpu[d] = "running" /\ gpu' = [gpu EXCEPT ![d] = "done"]
    /\ UNCHANGED <<register, owner, jobVars, references>>

-----------------------------------------------------------------------------
(* poll.  The label of the last arena has its value, or the time is up.    *)
PollDone(d) ==
    /\ at[d].step = "launched" /\ gpu[d] = "done"
    /\ lease' = [lease EXCEPT ![d]["ring"] = "poisoned"]
    /\ Go(d, [step |-> "undo", reg |-> "ring"])
    /\ gpu' = [gpu EXCEPT ![d] = "idle"]
    /\ UNCHANGED <<register, owner, previous, references>>

PollLate(d) ==
    /\ at[d].step = "launched" /\ gpu[d] = "running"
    /\ Go(d, [step |-> "lost"])
    /\ UNCHANGED <<register, owner, lease, previous, gpu, references>>

(* The restore of a lease: poisoned before the setter is called, idle only *)
(* when the register reads as it was found.                                *)
Undo(d) ==
    /\ at[d].step = "undo"
    /\ LET r == at[d].reg
       IN  \/ /\ register' = [register EXCEPT ![r] = previous[d][r]]
              /\ \E ok \in BOOLEAN : Go(d, [step |-> "undone", reg |-> r, ok |-> ok])
           \/ /\ Go(d, [step |-> "undone", reg |-> r, ok |-> FALSE])
              /\ UNCHANGED register
    /\ UNCHANGED <<owner, lease, previous, gpu, references>>

(* After a job both leases are given back, the ring first; a job whose     *)
(* bind failed gives back the ring last.  The results of a completed job   *)
(* are read after that, and a result that is wrong loses the device.       *)
Restored(d, r) ==
    CASE r = "ring" /\ lease[d]["offchip"] = "inflight" ->
           /\ Go(d, [step |-> "undo", reg |-> "offchip"])
           /\ lease' = [lease EXCEPT ![d]["ring"] = "idle", ![d]["offchip"] = "poisoned"]
           /\ UNCHANGED owner
      [] r = "offchip" /\ lease[d]["ring"] = "bound" -> GiveUp(d, "offchip")
      [] r = "offchip" /\ lease[d]["ring"] = "idle" ->
           /\ \E step \in {"none", "lost"} : Go(d, [step |-> step])
           /\ Lease(d, "offchip", "idle")
           /\ owner' = Nobody
      [] OTHER -> GiveUp(d, "ring")

Undone(d) ==
    /\ at[d].step = "undone"
    /\ LET r == at[d].reg
       IN  \/ at[d].ok /\ register[r] = previous[d][r] /\ Restored(d, r)
           \/ Go(d, [step |-> "retained"]) /\ UNCHANGED <<lease, owner>>
    /\ UNCHANGED <<register, previous, gpu, references>>

-----------------------------------------------------------------------------
Launch(d) == Claim(d) \/ Save(d) \/ Set(d) \/ Check(d) \/ Submit(d)
Complete(d) == PollDone(d) \/ PollLate(d) \/ Undo(d) \/ Undone(d)

Next ==
    \E d \in Devices :
        \/ CreatePipeline(d) \/ DestroyPipeline(d) \/ Prepare(d)
        \/ Launch(d) \/ Complete(d) \/ GpuRetires(d)

Spec == Init /\ [][Next]_vars

(* While the GPU executes a tessellation job, also one whose device has    *)
(* been given up as lost, both registers point at the storage of that      *)
(* device, and the storage exists: no other device rebinds them and no     *)
(* pipeline destruction frees what they point at.                          *)
GpuFindsItsRings ==
    \A d \in Devices : gpu[d] = "running" =>
        /\ \A r \in Registers : register[r] = d
        /\ references[d] > 0

(* Whoever finds the registers free finds them as the console's driver     *)
(* left them, whatever failed before: a job that could not put them back   *)
(* keeps them borrowed.                                                    *)
GivenBackAsFound ==
    owner = Nobody => \A r \in Registers : register[r] = System
=============================================================================
