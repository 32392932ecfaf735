-------------------------- MODULE RefinementProofs --------------------------
(***************************************************************************)
(* NodeDriver implements Machine, for any number of machines, VMIDs, nodes *)
(* and faults.                                                             *)
(***************************************************************************)
EXTENDS TagProofs, NodeDriverRefinement

-----------------------------------------------------------------------------
(* The phases.                                                             *)

\* The phase of a machine at control point p, called by r.
PhaseAt(p, r) ==
  IF p \in {"new", "up", "removed", "gone"} THEN p
  ELSE IF p \in {"failed", "crashed", "rmfailed"} THEN "failed"
  ELSE IF p \in RemoveSteps \cup CleanSteps /\ r = "create" THEN "undoing"
  ELSE IF p \in RemoveSteps THEN "removing"
  ELSE "creating"

\* It is what PhaseOf says, before and after a step.
LEMMA PhaseOfAt ==
  ASSUME NEW m \in Machines
  PROVE  /\ PhaseOf(m) = PhaseAt(pc[m], ret[m])
         /\ PhaseOf(m)' = PhaseAt(pc'[m], ret'[m])
<1> DEFINE Rest == {"new", "up", "removed", "gone", "failed", "crashed", "rmfailed"}
<1>1. \A p \in RemoveSteps \cup CleanSteps : p \notin Rest
  BY DEF RemoveSteps, CleanSteps
<1> QED
  BY <1>1 DEF PhaseOf, PhaseAt, Undoing, CleanSteps

\* Its value, by kind of control point.
LEMMA PhaseValues ==
  ASSUME NEW p, NEW r
  PROVE  /\ p \in {"new", "up", "removed", "gone"} => PhaseAt(p, r) = p
         /\ p \in {"failed", "crashed", "rmfailed"} => PhaseAt(p, r) = "failed"
         /\ p \in RemoveSteps =>
              PhaseAt(p, r) = IF r = "create" THEN "undoing" ELSE "removing"
         /\ p \in CleanSteps =>
              PhaseAt(p, r) = IF r = "create" THEN "undoing" ELSE "creating"
         /\ p \in (CloneSteps \ CleanSteps) \cup ProvisionSteps
              => PhaseAt(p, r) = "creating"
<1>1. ASSUME p \in {"new", "up", "removed", "gone"} PROVE PhaseAt(p, r) = p
  BY <1>1 DEF PhaseAt
<1>2. ASSUME p \in {"failed", "crashed", "rmfailed"} PROVE PhaseAt(p, r) = "failed"
  BY <1>2 DEF PhaseAt
<1>3. ASSUME p \in RemoveSteps
      PROVE  PhaseAt(p, r) = IF r = "create" THEN "undoing" ELSE "removing"
  <2>1. p \notin {"new", "up", "removed", "gone", "failed", "crashed", "rmfailed"}
    BY <1>3 DEF RemoveSteps
  <2> QED
    BY <1>3, <2>1 DEF PhaseAt
<1>4. ASSUME p \in CleanSteps
      PROVE  PhaseAt(p, r) = IF r = "create" THEN "undoing" ELSE "creating"
  <2>1. /\ p \notin {"new", "up", "removed", "gone", "failed", "crashed", "rmfailed"}
        /\ p \notin RemoveSteps
    BY <1>4 DEF RemoveSteps, CleanSteps
  <2> QED
    BY <1>4, <2>1 DEF PhaseAt
<1>5. ASSUME p \in (CloneSteps \ CleanSteps) \cup ProvisionSteps
      PROVE  PhaseAt(p, r) = "creating"
  <2>1. /\ p \notin {"new", "up", "removed", "gone", "failed", "crashed", "rmfailed"}
        /\ p \notin RemoveSteps \cup CleanSteps
    BY <1>5 DEF RemoveSteps, CleanSteps, CloneSteps, ProvisionSteps
  <2> QED
    BY <1>5, <2>1 DEF PhaseAt
<1> QED
  BY <1>1, <1>2, <1>3, <1>4, <1>5

\* A machine's own step takes it along the flow of phases, or leaves it.
LEMMA PhaseFlows ==
  ASSUME NEW m \in Machines, MoveOf(m)
  PROVE  PhaseOf(m)' = PhaseOf(m) \/ PhaseOf(m)' \in Abstract!Flow(PhaseOf(m))
<1>1. /\ PhaseOf(m) = PhaseAt(pc[m], ret[m])
      /\ PhaseOf(m)' = PhaseAt(pc'[m], ret'[m])
  BY PhaseOfAt
<1>2. /\ Cloning(m) => PhaseOf(m) = "creating"
      /\ Cloning(m)' => PhaseOf(m)' = "creating"
      /\ Discards(m) => PhaseOf(m) = "undoing"
      /\ Discards(m)' => PhaseOf(m)' = "undoing"
  BY <1>1, PhaseValues DEF Cloning, Discards
<1>3. CASE Begins(m) \/ Clones(m) \/ Abandons(m)
  BY <1>1, <1>2, <1>3, PhaseValues DEF Begins, Clones, Abandons, Abstract!Flow
<1>4. CASE Tags(m) \/ Provisions(m) \/ ComesUp(m)
  BY <1>1, <1>4, PhaseValues
     DEF Tags, Provisions, ComesUp, CloneSteps, CleanSteps, ProvisionSteps,
         Abstract!Flow
<1>5. CASE CreateEnds(m)
  BY <1>1, <1>2, <1>5, PhaseValues
     DEF CreateEnds, CloneSteps, CleanSteps, ProvisionSteps, Abstract!Flow
<1>6. CASE EntersRemove(m)
  <2>1. "lookup" \in RemoveSteps
    BY DEF RemoveSteps
  <2> QED
    BY <1>1, <1>6, <2>1, PhaseValues DEF EntersRemove, Abstract!Flow
<1>7. CASE RemoveGoesOn(m)
  <2>1. pc'[m] \in RemoveSteps
    BY <1>7 DEF RemoveGoesOn, Searches, Finds, Destroys, HoldSteps, RemoveSteps
  <2> QED
    BY <1>1, <1>7, <2>1, PhaseValues DEF RemoveGoesOn
<1>8. CASE RemoveFails(m) \/ RemoveSucceeds(m)
  <2>1. pc[m] \in RemoveSteps /\ ret[m] = "rancher"
        /\ pc'[m] \in {"rmfailed", "removed"}
    BY <1>8 DEF RemoveFails, RemoveSucceeds, NothingLeft, RemoveSteps
  <2> QED
    BY <1>1, <2>1, PhaseValues DEF Abstract!Flow
<1>9. CASE Forgets(m)
  BY <1>1, <1>9, PhaseValues DEF Forgets, Abstract!Flow
<1>10. CASE Dies(m)
  <2>1. PhaseOf(m) \in {"creating", "undoing", "removing", "removed"}
    BY <1>1, <1>10, PhaseValues DEF Dies, LiveSteps, CleanSteps
  <2>2. PhaseOf(m)' = "failed"
    BY <1>1, <1>10, PhaseValues DEF Dies
  <2> QED
    BY <2>1, <2>2 DEF Abstract!Flow
<1> QED
  BY <1>3, <1>4, <1>5, <1>6, <1>7, <1>8, <1>9, <1>10 DEF MoveOf

\* A machine that does not move stays in its phase.
LEMMA PhaseStill ==
  ASSUME NEW m \in Machines, Still(m)
  PROVE  PhaseOf(m)' = PhaseOf(m)
BY PhaseOfAt DEF Still

-----------------------------------------------------------------------------
(* What a step does to the VMs, whoever takes it.                          *)

\* A step of m's jobs.
JobStep(m) == StartCreate(m) \/ ProcessStep(m) \/ StartRemove(m) \/ Crash(m)

\* The requests never make a VM disappear: only their tasks do.
LEMMA CallKeeps ==
  ASSUME ClusterTypeOK, NEW m \in Machines, NEW ref, NEW vm, NEW e,
         \/ Clone(m, ref.vmid, e)
         \/ Delete(m, ref, e)
         \/ Modify(ref, vm, e) /\ (At(ref) => vm.st = vms[ref.vmid].st)
  PROVE  \A id \in VMIDs : vms[id].st # "free" => vms'[id].st # "free"
<1> SUFFICES ASSUME NEW id \in VMIDs, vms[id].st # "free"
             PROVE  vms'[id].st # "free"
  OBVIOUS
<1>0. vms[id] \in VM
  BY DEF ClusterTypeOK
<1>1. CASE Clone(m, ref.vmid, e)
  BY <1>1 DEF Clone, Claim, Fails, ClusterTypeOK, clusterVars
<1>2. CASE Delete(m, ref, e)
  BY <1>0, <1>2 DEF Delete, Fails, ClusterTypeOK, VM, clusterVars
<1>3. CASE Modify(ref, vm, e) /\ (At(ref) => vm.st = vms[ref.vmid].st)
  BY <1>3 DEF Modify, Fails, ClusterTypeOK, clusterVars
<1> QED
  BY <1>1, <1>2, <1>3

\* What the driver turns a VM into exists as the VM did.
LEMMA SameState ==
  ASSUME ClusterTypeOK, NEW ref, At(ref)
  PROVE  /\ [vms[ref.vmid] EXCEPT !.tagged = TRUE].st = vms[ref.vmid].st
         /\ [vms[ref.vmid] EXCEPT !.power = "running"].st = vms[ref.vmid].st
         /\ PoweredOff(ref).st = vms[ref.vmid].st
<1>1. vms[ref.vmid] \in VM
  BY DEF ClusterTypeOK, At
<1> QED
  BY <1>1 DEF VM, PoweredOff

\* A job's step leaves every VM in existence.
LEMMA JobKeeps ==
  ASSUME ClusterTypeOK, NEW m \in Machines, JobStep(m)
  PROVE  \A id \in VMIDs : vms[id].st # "free" => vms'[id].st # "free"
<1>1. CASE vms' = vms
  BY <1>1
<1>2. CASE \/ RandomFreeVMID(m) \/ AwaitClone(m) \/ CloneRetry(m) \/ CleanUpRead(m)
           \/ CleanUpWait(m) \/ ReadClone(m)
  BY <1>1, <1>2
     DEF RandomFreeVMID, AwaitClone, CloneRetry, CleanUpRead, CleanUpWait,
         ReadClone, ListVMs, GetVM, WaitTask, Fails, clusterVars
<1>3. CASE CloneRequest(m) \/ CleanUpDelete(m) \/ DeleteRequest(m)
  BY <1>3, CallKeeps DEF CloneRequest, CleanUpDelete, DeleteRequest
<1>4. CASE TagClone(m)
  <2>1. PICK e \in ErrClass :
          Modify(hnd[m], [vms[hnd[m].vmid] EXCEPT !.tagged = TRUE], e)
    BY <1>4 DEF TagClone
  <2>2. At(hnd[m]) =>
          [vms[hnd[m].vmid] EXCEPT !.tagged = TRUE].st = vms[hnd[m].vmid].st
    BY SameState
  <2> QED
    BY <2>1, <2>2, CallKeeps
<1>5. CASE ConfigureVM(m) \/ ResizeVMDisk(m) \/ StartVM(m)
  BY <1>5, CallKeeps, SameState DEF ConfigureVM, ResizeVMDisk, StartVM, Provision
<1>6. CASE Shutdown(m) \/ Stop(m)
  <2>1. PICK e \in ErrClass : Modify(hnd[m], PoweredOff(hnd[m]), e)
    BY <1>6 DEF Shutdown, Stop
  <2>2. At(hnd[m]) => PoweredOff(hnd[m]).st = vms[hnd[m].vmid].st
    BY SameState
  <2> QED
    BY <2>1, <2>2, CallKeeps
<1>7. CASE \/ LookupRecorded(m) \/ LookupList(m) \/ LookupFetch(m) \/ FindList(m)
           \/ FindFetch(m) \/ FindNothing(m) \/ DeleteWait(m) \/ DeleteRetry(m)
  <2>1. vms' = vms
    BY <1>7
       DEF LookupRecorded, LookupList, LookupFetch, FindList, FindFetch,
           FindNothing, DeleteWait, DeleteRetry, ListVMs, GetVM, WaitTask,
           Fails, clusterVars
  <2> QED
    BY <2>1
<1>8. CASE WaitForIP(m) \/ StartCreate(m) \/ Forget(m) \/ StartRemove(m) \/ Crash(m)
  BY <1>1, <1>8
     DEF WaitForIP, StartCreate, Forget, StartRemove, Crash, ListVMs, Fails,
         clusterVars
<1> QED
  BY <1>2, <1>3, <1>4, <1>5, <1>6, <1>7, <1>8
     DEF JobStep, ProcessStep, CloneStep, ProvisionStep, RemoveStep

\* The cluster's own steps are about one VM.
LEMMA ClusterOneVM ==
  ASSUME ClusterTypeOK, ClusterStep
  PROVE  \E id \in VMIDs : \A i \in VMIDs : i # id => vms'[i] = vms[i]
<1>1. PICK id \in VMIDs :
         \/ TaskEnds(id)
         \/ \E n \in Nodes : Migrate(id, n)
         \/ \E n \in Nodes, name \in Names : ForeignCreate(id, name, n)
         \/ ForeignDelete(id)
         \/ \E p \in Powers : Power(id, p)
  BY DEF ClusterStep
<1>2. \A i \in VMIDs : i # id => vms'[i] = vms[i]
  BY <1>1 DEF TaskEnds, CloneTaskSucceeds, CloneTaskFails, DeleteTaskSucceeds,
              DeleteTaskFails, Migrate, ForeignCreate, ForeignDelete, Power,
              Claim, ClusterTypeOK
<1> QED
  BY <1>2

\* A VMID is reused by a VM that appears.
ClaimStep ==
  \E id \in VMIDs :
    /\ vms[id].st = "free"
    /\ ~vms'[id].tagged
    /\ \A i \in VMIDs : i # id => vms'[i] = vms[i]

\* A clone request or somebody else's VM that gets a VMID is such a step.
LEMMA ClaimIsClaimStep ==
  ASSUME ClusterTypeOK, NEW id \in VMIDs, NEW o, NEW vm, Claim(id, o, vm), ~vm.tagged
  PROVE  ClaimStep
<1>1. vms' = [vms EXCEPT ![id] = vm] /\ vms[id].st = "free"
  BY DEF Claim
<1> QED
  BY <1>1 DEF ClaimStep, ClusterTypeOK

\* Only they reuse a VMID, and of the driver's steps only the clone request.
LEMMA ReuseIsClaim ==
  ASSUME TypeInv, [Next]_vars, reused' # reused
  PROVE  ClaimStep /\ (UNCHANGED procVars \/ \E m \in Machines : CloneRequest(m))
<1>0. ClusterTypeOK
  BY DEF TypeInv
<1>1. ASSUME NEW m \in Machines, JobStep(m) PROVE CloneRequest(m)
  <2>1. CASE CloneStep(m)
    BY <2>1
       DEF CloneStep, RandomFreeVMID, AwaitClone, CloneRetry,
           CleanUpRead, CleanUpDelete, CleanUpWait, ReadClone, TagClone,
           ListVMs, GetVM, WaitTask, Delete, Modify, Fails, clusterVars
  <2>2. ~ProvisionStep(m)
    BY DEF ProvisionStep, ConfigureVM, ResizeVMDisk, StartVM, WaitForIP, Provision,
           Modify, Fails, clusterVars
  <2>3. ~RemoveStep(m)
    BY DEF RemoveStep, LookupRecorded, LookupList, LookupFetch, FindList,
           FindFetch, FindNothing, Shutdown, Stop, DeleteRequest,
           DeleteWait, DeleteRetry, ListVMs, GetVM, WaitTask, Delete,
           Modify, Fails, clusterVars
  <2>4. ~(StartCreate(m) \/ Forget(m) \/ StartRemove(m) \/ Crash(m))
    BY DEF StartCreate, Forget, StartRemove, Crash, ListVMs, Fails, clusterVars
  <2> QED
    BY <1>1, <2>1, <2>2, <2>3, <2>4 DEF JobStep, ProcessStep
<1>2. ASSUME NEW m \in Machines, CloneRequest(m) PROVE ClaimStep
  <2>1. hnd[m].vmid \in VMIDs
    BY <1>2 DEF CloneRequest, TypeInv, ProcessInv, PickedVMID
  <2>2. PICK e \in ErrClass : Clone(m, hnd[m].vmid, e)
    BY <1>2 DEF CloneRequest
  <2>3. Claim(hnd[m].vmid, m, [st |-> "cloning", owner |-> m, name |-> NameOf[m],
                               tagged |-> FALSE, power |-> "stopped",
                               node |-> NodeOf[m], by |-> m])
    BY <2>2 DEF Clone, Fails, clusterVars
  <2> QED
    BY <1>0, <2>1, <2>3, ClaimIsClaimStep
<1>3. ASSUME ClusterStep PROVE ClaimStep
  <2>1. PICK id \in VMIDs, n \in Nodes, name \in Names : ForeignCreate(id, name, n)
    BY <1>3
       DEF ClusterStep, TaskEnds, CloneTaskSucceeds, CloneTaskFails,
           DeleteTaskSucceeds, DeleteTaskFails, Migrate, ForeignDelete, Power
  <2> QED
    BY <1>0, <2>1, ClaimIsClaimStep DEF ForeignCreate
<1>4. ~(Finished \/ UNCHANGED vars)
  BY DEF Finished, vars, clusterVars
<1> QED
  BY <1>1, <1>2, <1>3, <1>4 DEF Next, JobStep

-----------------------------------------------------------------------------
(* What a step does to the tagged VMs, as long as no VMID has been reused. *)

\* m's VMs keep or lack the tag as before.
SameMarks(m) == \A id \in VMIDs : Marked(m, id)' <=> Marked(m, id)

\* A machine with the same tagged VMs has a VM as before.
LEMMA SameHas ==
  ASSUME NEW m \in Machines, SameMarks(m)
  PROVE  HasVM(m)' = HasVM(m)
BY DEF SameMarks, HasVM, Marked

\* A VM that appears has no tag and takes none away.
LEMMA ClaimMarks ==
  ASSUME PlaceInv, ClaimStep, NEW m \in Machines
  PROVE  SameMarks(m)
<1>1. PICK id \in VMIDs :
        /\ vms[id].st = "free"
        /\ ~vms'[id].tagged
        /\ \A i \in VMIDs : i # id => vms'[i] = vms[i]
  BY DEF ClaimStep
<1>2. ~vms[id].tagged
  BY <1>1 DEF PlaceInv, Blank
<1> QED
  BY <1>1, <1>2 DEF SameMarks, Marked

\* No job's step takes a tag away.
LEMMA JobMarks ==
  ASSUME TagsInv, StepOK, NEW k \in Machines, JobStep(k), NEW m \in Machines,
         NEW id \in VMIDs, Marked(m, id)
  PROVE  Marked(m, id)'
<1>1. vms[id].st # "free"
  BY DEF TagsInv, PlaceInv, Blank, Marked
<1>2. vms'[id].st # "free"
  BY <1>1, JobKeeps DEF TagsInv, Base, TypeInv
<1>3. Stays(id)
  BY <1>1, <1>2 DEF StepOK, Evolves, Freed, FreeVM, Appears
<1> QED
  BY <1>3 DEF Stays, Marked

\* The tags of a machine whose process stays where it is are left alone by the
\* jobs of the others.
LEMMA OthersMarks ==
  ASSUME TagsInv, StepOK, reused = {}, NEW k \in Machines, JobStep(k),
         NEW m \in Machines, pc'[m] = pc[m] \/ pc[m] # "tag"
  PROVE  SameMarks(m)
BY JobMarks, MarkedGrows DEF SameMarks, TagsInv

\* A tagged VM that is being deleted belongs to a machine of which some job
\* failed, or is being removed or cleaned up.
LEMMA DeletingPhase ==
  ASSUME TagsInv, reused = {}, Faults \cap {"dns", "migrate", "purge"} = {},
         NEW m \in Machines, NEW id \in VMIDs, Marked(m, id), vms[id].st = "deleting"
  PROVE  PhaseOf(m) \in {"undoing", "failed", "removing"}
<1>1. PhaseOf(m) = PhaseAt(pc[m], ret[m])
  BY PhaseOfAt
<1>2. pc[m] # "new" /\ ~Cloning(m)
  BY DEF TagsInv, TagInv, Untagged
<1>3. ASSUME NEW i \in VMIDs, NEW runs, Safe(m, i, runs) PROVE FALSE
  <2>1. Marked(m, i) /\ vms[i].st = "idle"
    BY <1>3 DEF Safe
  <2>2. i = id
    BY <2>1 DEF TagsInv, TagInv, OneMarked
  <2> QED
    BY <2>1, <2>2
<1>4. pc[m] \notin ProvisionSteps /\ pc[m] # "up"
  BY <1>3 DEF TagsInv, UpInv, Provisioned
<1>5. pc[m] \notin {"removed", "gone"}
  BY DEF TagsInv, RemoveInv, Precise, Removed
<1>6. pc[m] \in CleanSteps => ret[m] \in {"retry", "create"}
  BY DEF TagsInv, Base, RecordInv, CleanUpCaller, TypeInv, ProcessInv, ProcessTypeOK
<1>7. \/ pc[m] \in {"failed", "crashed", "rmfailed"}
      \/ pc[m] \in RemoveSteps
      \/ pc[m] \in CleanSteps /\ ret[m] = "create"
  <2>1. pc[m] \in Resting \cup LiveSteps
    BY DEF TagsInv, Base, TypeInv, ProcessInv, ProcessTypeOK, Steps
  <2> QED
    BY <1>2, <1>4, <1>5, <1>6, <2>1 DEF Resting, LiveSteps, Cloning
<1> QED
  BY <1>1, <1>7, PhaseValues

-----------------------------------------------------------------------------
(* The steps of Machine, from what happens to each machine.                *)

\* The phases and the VMs of all machines but m are left alone.
OthersSame(m) ==
  \A k \in Machines \ {m} : PhaseOf(k)' = PhaseOf(k) /\ HasVM(k)' = HasVM(k)

AllSame == \A k \in Machines : PhaseOf(k)' = PhaseOf(k) /\ HasVM(k)' = HasVM(k)

\* Nothing changes for any machine: Machine stutters.
LEMMA AbstractStutter ==
  ASSUME AllSame, Promised' = Promised
  PROVE  UNCHANGED Abstract!vars
BY DEF AllSame, Abstract!vars

\* One machine changes its phase along the flow: Move.
LEMMA AbstractMove ==
  ASSUME NEW m \in Machines, OthersSame(m), Promised' = Promised,
         HasVM(m)' = HasVM(m),
         PhaseOf(m)' \in Abstract!Flow(PhaseOf(m)),
         PhaseOf(m)' = "up" => HasVM(m),
         PhaseOf(m)' = "removed" => ~HasVM(m)
  PROVE  Abstract!Next
<1>1. PICK p : p = PhaseOf(m)'
  OBVIOUS
<1>2. p \in Abstract!Phases
  BY <1>1 DEF Abstract!Flow, Abstract!Phases
<1>3. /\ [k \in Machines |-> PhaseOf(k)]' = [[k \in Machines |-> PhaseOf(k)] EXCEPT ![m] = p]
      /\ [k \in Machines |-> HasVM(k)]' = [k \in Machines |-> HasVM(k)]
  BY <1>1 DEF OthersSame
<1>4. Abstract!Move(m, p)
  BY <1>1, <1>3 DEF Abstract!Move
<1> QED
  BY <1>2, <1>4 DEF Abstract!Next

\* One machine gets its VM while it is created: Acquire.
LEMMA AbstractAcquire ==
  ASSUME NEW m \in Machines, OthersSame(m), Promised' = Promised,
         PhaseOf(m) = "creating", PhaseOf(m)' \in {"creating", "undoing"},
         ~HasVM(m), HasVM(m)'
  PROVE  Abstract!Next
<1>1. PICK p \in {"creating", "undoing"} : p = PhaseOf(m)'
  OBVIOUS
<1>2. /\ [k \in Machines |-> PhaseOf(k)]' = [[k \in Machines |-> PhaseOf(k)] EXCEPT ![m] = p]
      /\ [k \in Machines |-> HasVM(k)]' = [[k \in Machines |-> HasVM(k)] EXCEPT ![m] = TRUE]
  <2>1. HasVM(m)' = TRUE
    BY DEF HasVM
  <2> QED
    BY <1>1, <2>1 DEF OthersSame
<1>3. Abstract!Acquire(m)
  BY <1>1, <1>2 DEF Abstract!Acquire
<1> QED
  BY <1>3 DEF Abstract!Next

\* One machine loses its VM to its own job: Lose.
LEMMA AbstractLose ==
  ASSUME NEW m \in Machines, OthersSame(m), Promised' = Promised,
         PhaseOf(m) \in {"undoing", "failed", "removing"}, PhaseOf(m)' = PhaseOf(m),
         HasVM(m), ~HasVM(m)'
  PROVE  Abstract!Next
<1>1. /\ [k \in Machines |-> PhaseOf(k)]' = [k \in Machines |-> PhaseOf(k)]
      /\ [k \in Machines |-> HasVM(k)]' = [[k \in Machines |-> HasVM(k)] EXCEPT ![m] = FALSE]
  <2>1. HasVM(m)' = FALSE
    BY DEF HasVM
  <2> QED
    BY <2>1 DEF OthersSame
<1>2. Abstract!Lose(m)
  BY <1>1 DEF Abstract!Lose
<1> QED
  BY <1>2 DEF Abstract!Next

\* Only the promises end: Spoil.
LEMMA AbstractSpoil ==
  ASSUME AllSame, Promised, ~Promised'
  PROVE  Abstract!Next
<1>1. /\ [k \in Machines |-> PhaseOf(k)]' = [k \in Machines |-> PhaseOf(k)]
      /\ [k \in Machines |-> HasVM(k)]' = [k \in Machines |-> HasVM(k)]
      /\ Promised' = FALSE
  BY DEF AllSame, Promised
<1>2. Abstract!Spoil
  BY <1>1 DEF Abstract!Spoil
<1> QED
  BY <1>2 DEF Abstract!Next

\* Without promises the phases still flow.
LEMMA AbstractSpoiled ==
  ASSUME StepOK, ~Promised, ~Promised'
  PROVE  Abstract!Next
<1>1. /\ [k \in Machines |-> HasVM(k)]' \in [Machines -> BOOLEAN]
      /\ Promised' = Promised
  BY DEF HasVM, Promised
<1>2. \/ [k \in Machines |-> PhaseOf(k)]' = [k \in Machines |-> PhaseOf(k)]
      \/ \E m \in Machines : \E p \in Abstract!Flow(PhaseOf(m)) :
           [k \in Machines |-> PhaseOf(k)]'
             = [[k \in Machines |-> PhaseOf(k)] EXCEPT ![m] = p]
  <2>1. CASE ClusterOnly
    BY <2>1, PhaseStill DEF ClusterOnly
  <2>2. ASSUME NEW m \in Machines, StepOf(m)
        PROVE  \/ [k \in Machines |-> PhaseOf(k)]' = [k \in Machines |-> PhaseOf(k)]
               \/ \E p \in Abstract!Flow(PhaseOf(m)) :
                    [k \in Machines |-> PhaseOf(k)]'
                      = [[k \in Machines |-> PhaseOf(k)] EXCEPT ![m] = p]
    <3>1. \A k \in Machines \ {m} : PhaseOf(k)' = PhaseOf(k)
      BY <2>2, PhaseStill DEF StepOf
    <3>2. PhaseOf(m)' = PhaseOf(m) \/ PhaseOf(m)' \in Abstract!Flow(PhaseOf(m))
      BY <2>2, PhaseFlows DEF StepOf
    <3>3. PICK p : p = PhaseOf(m)'
      OBVIOUS
    <3>4. [k \in Machines |-> PhaseOf(k)]'
            = [[k \in Machines |-> PhaseOf(k)] EXCEPT ![m] = p]
      BY <3>1, <3>3
    <3>5. CASE PhaseOf(m)' = PhaseOf(m)
      BY <3>1, <3>5
    <3> QED
      BY <3>2, <3>3, <3>4, <3>5
  <2> QED
    BY <2>1, <2>2 DEF StepOK
<1>3. Abstract!Spoiled
  BY <1>1, <1>2 DEF Abstract!Spoiled
<1> QED
  BY <1>3 DEF Abstract!Next

-----------------------------------------------------------------------------
(* Every step implements a step of Machine.                                *)

\* The first reuse of a VMID ends the promises and changes nothing else.
LEMMA ReuseSpoils ==
  ASSUME TagsInv, StepOK, [Next]_vars, reused' # reused
  PROVE  AllSame
<1>1. ClaimStep /\ (UNCHANGED procVars \/ \E m \in Machines : CloneRequest(m))
  BY ReuseIsClaim DEF TagsInv, Base
<1>2. \A k \in Machines : HasVM(k)' = HasVM(k)
  BY <1>1, ClaimMarks, SameHas DEF TagsInv
<1>3. CASE UNCHANGED procVars
  <2>1. \A k \in Machines : Still(k)
    BY <1>3 DEF procVars, Still
  <2> QED
    BY <1>2, <2>1, PhaseStill DEF AllSame
<1>4. ASSUME NEW m \in Machines, CloneRequest(m) PROVE AllSame
  <2>1. pc[m] = "post" /\ pc'[m] \in {"await", "retry"} /\ Alone(m)
    <3>1. PICK e \in ErrClass :
            \/ AttemptFails(m, e)
            \/ Goto(m, "await") /\ UNCHANGED <<hnd, tries, err, ret, locals>>
      BY <1>4 DEF CloneRequest
    <3>2. ProcessTypeOK
      BY DEF TagsInv, Base, TypeInv, ProcessInv
    <3>3. pc[m] = "post"
      BY <1>4 DEF CloneRequest
    <3>4. CASE AttemptFails(m, e)
      BY <3>2, <3>3, <3>4 DEF AttemptFails, Goto, locals, Alone, Still, ProcessTypeOK
    <3>5. CASE Goto(m, "await") /\ UNCHANGED <<hnd, tries, err, ret, locals>>
      BY <3>2, <3>3, <3>5 DEF Goto, locals, Alone, Still, ProcessTypeOK
    <3> QED
      BY <3>1, <3>4, <3>5
  <2>2. PhaseOf(m) = "creating" /\ PhaseOf(m)' = "creating"
    BY <2>1, PhaseOfAt, PhaseValues DEF CloneSteps, CleanSteps
  <2>3. \A k \in Machines \ {m} : PhaseOf(k)' = PhaseOf(k)
    BY <2>1, PhaseStill DEF Alone
  <2> QED
    BY <1>2, <2>2, <2>3 DEF AllSame
<1> QED
  BY <1>1, <1>3, <1>4

\* What happens in the cluster: a machine may lose the VM its job deletes.
LEMMA ClusterRefines ==
  ASSUME TagsInv, StepOK, Promised, Promised', ClusterStep, UNCHANGED procVars
  PROVE  Abstract!Next \/ UNCHANGED Abstract!vars
<1>0. /\ reused = {} /\ Faults \cap {"dns", "migrate", "purge"} = {}
      /\ Promised' = Promised
  BY DEF Promised
<1>1. PICK id \in VMIDs : \A i \in VMIDs : i # id => vms'[i] = vms[i]
  BY ClusterOneVM DEF TagsInv, Base, TypeInv
<1>2. \A k \in Machines : PhaseOf(k)' = PhaseOf(k)
  BY PhaseStill DEF procVars, Still
<1>3. ~\E k \in Machines : Handles(k, {"tag"}, id)
  BY DEF Handles, procVars
<1>4. CASE Stays(id) \/ Appears(id) \/ ~vms[id].tagged
  <2>1. \A k \in Machines : Marked(k, id)' <=> Marked(k, id)
    <3>1. CASE Stays(id)
      BY <1>3, <3>1 DEF Stays, Marked
    <3>2. CASE Appears(id)
      BY <3>2 DEF Appears, Marked, TagsInv, PlaceInv, Blank
    <3>3. CASE Freed(id) /\ ~vms[id].tagged
      BY <3>3 DEF Freed, FreeVM, Marked
    <3> QED
      BY <1>4, <3>1, <3>2, <3>3 DEF StepOK, Evolves
  <2>2. \A k \in Machines : SameMarks(k)
    BY <1>1, <2>1 DEF SameMarks, Marked
  <2> QED
    BY <1>0, <1>2, <2>2, SameHas, AbstractStutter DEF AllSame
<1>5. CASE Freed(id) /\ vms[id].tagged
  <2>1. vms[id].st = "deleting"
    BY <1>0, <1>5 DEF Freed, TagsInv, PlaceInv, Blank
  <2>2. \A k \in Machines : vms[id].owner # k => SameMarks(k)
    BY <1>1, <1>5, SentinelAssumption DEF SameMarks, Marked, Freed, FreeVM
  <2>3. CASE vms[id].owner \notin Machines
    BY <1>0, <1>2, <2>2, <2>3, SameHas, AbstractStutter DEF AllSame
  <2>4. CASE vms[id].owner \in Machines
    <3>1. PICK m \in Machines : m = vms[id].owner
      BY <2>4
    <3>2. Marked(m, id) /\ HasVM(m)
      BY <1>5, <3>1 DEF Marked, HasVM
    <3>3. ~HasVM(m)'
      <4>1. \A i \in VMIDs : i # id => ~Marked(m, i)
        BY <1>0, <3>2 DEF TagsInv, TagInv, OneMarked
      <4>2. \A i \in VMIDs : ~Marked(m, i)'
        BY <1>1, <1>5, <4>1 DEF Marked, Freed, FreeVM
      <4> QED
        BY <4>2 DEF HasVM, Marked
    <3>4. PhaseOf(m) \in {"undoing", "failed", "removing"}
      BY <1>0, <2>1, <3>2, DeletingPhase
    <3>5. OthersSame(m)
      BY <1>2, <2>2, <3>1, SameHas DEF OthersSame
    <3> QED
      BY <1>0, <1>2, <3>2, <3>3, <3>4, <3>5, AbstractLose
  <2> QED
    BY <2>3, <2>4
<1> QED
  BY <1>4, <1>5 DEF StepOK, Evolves

\* What a job does: its machine moves on, or gets the tag on its VM.
LEMMA JobRefines ==
  ASSUME TagsInv, TagsInv', StepOK, Promised, Promised', NEW j \in Machines,
         JobStep(j), NEW m \in Machines, StepOf(m)
  PROVE  Abstract!Next \/ UNCHANGED Abstract!vars
<1>0. /\ reused = {} /\ Faults \cap {"dns", "migrate", "purge"} = {}
      /\ Promised' = Promised /\ reused' = {}
  BY DEF Promised
<1>1. OthersSame(m)
  <2> SUFFICES ASSUME NEW k \in Machines \ {m}
               PROVE  PhaseOf(k)' = PhaseOf(k) /\ HasVM(k)' = HasVM(k)
    BY DEF OthersSame
  <2>1. Still(k)
    BY DEF StepOf
  <2>2. SameMarks(k)
    BY <1>0, <2>1, OthersMarks DEF Still
  <2> QED
    BY <2>1, <2>2, PhaseStill, SameHas
<1>2. PhaseOf(m)' = PhaseOf(m) \/ PhaseOf(m)' \in Abstract!Flow(PhaseOf(m))
  BY PhaseFlows DEF StepOf
<1>3. HasVM(m) => HasVM(m)'
  BY JobMarks DEF HasVM, Marked
<1>4. CASE HasVM(m)' /\ ~HasVM(m)
  <2>1. PICK id \in VMIDs : Marked(m, id)' /\ ~Marked(m, id)
    BY <1>4 DEF HasVM, Marked
  <2>2. pc[m] = "tag" /\ pc'[m] # "tag"
    BY <1>0, <2>1, MarkedGrows DEF TagsInv
  <2>3. Abandons(m) \/ Tags(m) \/ Dies(m)
    BY <2>2 DEF StepOf, MoveOf, Begins, Clones, Provisions, ComesUp, CreateEnds,
                EntersRemove, RemoveGoesOn, RemoveFails, RemoveSucceeds, Forgets,
                NothingLeft, Discards, CleanSteps, ProvisionSteps, RemoveSteps
  <2>4. ~Dies(m)
    BY <2>1 DEF Dies, Marked
  <2>5. PhaseOf(m) = "creating"
    BY <2>2, PhaseOfAt, PhaseValues DEF CloneSteps, CleanSteps
  <2>6. Abandons(m) => PhaseOf(m)' = "undoing"
    BY PhaseOfAt, PhaseValues DEF Abandons, Discards
  <2>7. Tags(m) => PhaseOf(m)' = "creating"
    BY PhaseOfAt, PhaseValues DEF Tags, ProvisionSteps
  <2> QED
    BY <1>0, <1>1, <1>4, <2>3, <2>4, <2>5, <2>6, <2>7, AbstractAcquire
<1>5. CASE HasVM(m)' = HasVM(m)
  <2>1. CASE PhaseOf(m)' = PhaseOf(m)
    BY <1>0, <1>1, <1>5, <2>1, AbstractStutter DEF AllSame, OthersSame
  <2>2. CASE PhaseOf(m)' \in Abstract!Flow(PhaseOf(m))
    <3>1. PhaseOf(m)' = PhaseAt(pc'[m], ret'[m])
      BY PhaseOfAt
    <3>2. ASSUME PhaseOf(m)' = "up" PROVE HasVM(m)
      <4>1. pc'[m] = "up"
        BY <3>1, <3>2 DEF PhaseAt
      <4>2. PICK id \in VMIDs : id = cfg'[m].vmid
        BY <4>1 DEF TagsInv, UpInv, Provisioned
      <4>3. Safe(m, id, TRUE)'
        BY <4>1, <4>2 DEF TagsInv, UpInv, Provisioned
      <4>4. Marked(m, id)'
        BY <1>0, <4>3 DEF Safe
      <4> QED
        BY <1>5, <4>4 DEF HasVM, Marked
    <3>3. ASSUME PhaseOf(m)' = "removed" PROVE ~HasVM(m)
      <4>1. pc'[m] = "removed"
        BY <3>1, <3>3 DEF PhaseAt
      <4>2. Removed(m)'
        BY <1>0 DEF TagsInv, RemoveInv, Precise
      <4> QED
        BY <1>5, <4>1, <4>2 DEF Removed, HasVM, Marked
    <3> QED
      BY <1>0, <1>1, <1>5, <2>2, <3>2, <3>3, AbstractMove
  <2> QED
    BY <1>2, <2>1, <2>2
<1> QED
  BY <1>3, <1>4, <1>5 DEF HasVM

\* Every step of the driver and of the cluster is a step of Machine or none.
LEMMA StepRefines ==
  ASSUME NamesDistinct, TagsInv, [Next]_vars
  PROVE  [Abstract!Next]_(Abstract!vars)
<1>0. TagsInv' /\ StepOK /\ reused \subseteq reused'
  BY TagsNext
<1>1. CASE ~Promised
  <2>1. ~Promised'
    BY <1>0, <1>1 DEF Promised
  <2> QED
    BY <1>0, <1>1, <2>1, AbstractSpoiled
<1>2. CASE Promised /\ ~Promised'
  <2>1. reused' # reused
    BY <1>2 DEF Promised
  <2> QED
    BY <1>0, <1>2, <2>1, ReuseSpoils, AbstractSpoil
<1>3. CASE Promised /\ Promised'
  <2>1. CASE ClusterStep /\ UNCHANGED procVars
    BY <1>0, <1>3, <2>1, ClusterRefines
  <2>2. CASE UNCHANGED vars
    <3>1. AllSame
      BY <2>2 DEF AllSame, PhaseOf, HasVM, Undoing, vars, clusterVars, procVars
    <3> QED
      BY <1>3, <3>1, AbstractStutter DEF Promised
  <2>3. ASSUME NEW m \in Machines, JobStep(m)
        PROVE  Abstract!Next \/ UNCHANGED Abstract!vars
    <3>1. CASE \E k \in Machines : StepOf(k)
      BY <1>0, <1>3, <2>3, <3>1, JobRefines
    <3>2. CASE ClusterOnly
      <4>1. \A k \in Machines : SameMarks(k)
        BY <1>0, <1>3, <2>3, <3>2, OthersMarks DEF Promised, ClusterOnly, Still
      <4>2. AllSame
        BY <3>2, <4>1, SameHas, PhaseStill DEF AllSame, ClusterOnly
      <4> QED
        BY <1>3, <4>2, AbstractStutter DEF Promised
    <3> QED
      BY <1>0, <3>1, <3>2 DEF StepOK
  <2> QED
    BY <2>1, <2>2, <2>3 DEF Next, Finished, JobStep
<1> QED
  BY <1>1, <1>2, <1>3

\* Before the first job no machine has a VM.
LEMMA InitRefines == Init => Abstract!Init
<1> SUFFICES ASSUME Init PROVE Abstract!Init
  OBVIOUS
<1>1. \A m \in Machines : PhaseOf(m) = "new" /\ HasVM(m) = FALSE
  BY PhaseOfAt, PhaseValues DEF Init, ProcessInit, ClusterInit, HasVM, FreeVM
<1>2. Promised \in BOOLEAN
  BY DEF Promised
<1> QED
  BY <1>1, <1>2 DEF Abstract!Init

\* NodeDriver implements Machine: whatever the jobs of all machines do in
\* parallel, and whichever call or process fails, every machine gets a VM at
\* most once and only from its create job, is up only with it, loses it only to
\* a job of its own that cleans up or removes, and is removed only without it,
\* until a VMID is reused (clone.go, create.go, remove.go, driver.go).
THEOREM DriverImplementsMachine ==
  ASSUME NamesDistinct
  PROVE  Spec => MachineSpec
<1>1. TagsInv /\ [Next]_vars => TagsInv' /\ [Abstract!Next]_(Abstract!vars)
  BY TagsNext, StepRefines
<1> QED
  BY <1>1, TagsInit, InitRefines, PTL DEF Spec, MachineSpec, Abstract!Spec

=============================================================================
