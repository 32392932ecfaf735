----------------------------- MODULE TagProofs ------------------------------
(***************************************************************************)
(* The ownership tag, for any number of machines, VMIDs, nodes and faults: *)
(* what is recorded has it, a machine has at most one VM with it, a        *)
(* machine that is up has kept it, and a removal that succeeded has left   *)
(* none. Last, what a failed Create leaves: no VM, tagged or not.          *)
(***************************************************************************)
EXTENDS StepProofs

\* id is a VM of m that bears the ownership tag.
Marked(m, id) == vms[id].owner = m /\ vms[id].tagged

-----------------------------------------------------------------------------
(* RecordedVMIsTagged needs to know that a machine that may still clone    *)
(* has nothing recorded: its next clone could get the recorded VMID.       *)

Unrecorded(m) ==
  pc[m] \in {"new"} \cup CloneSteps => drv[m] = NoRef /\ cfg[m] = NoRef

RecordTagged(m) ==
  \A r \in {drv[m], cfg[m]} :
    r.vmid # NoVMID /\ vms[r.vmid].owner = m => vms[r.vmid].tagged

RecordInv ==
  /\ CleanUpCaller
  /\ \A m \in Machines : Unrecorded(m) /\ RecordTagged(m)

\* From one state to the next, a machine stays where it is or moves.
LEMMA StillOrMoves ==
  ASSUME StepOK, NEW m \in Machines
  PROVE  (Still(m) /\ TaskStill(m)) \/ MoveOf(m)
BY DEF StepOK, StepOf, ClusterOnly, TaskStill

\* Only a create job that has not written the tag can come to the steps of
\* CloneFromTemplate.
LEMMA CloneStepsEntered ==
  ASSUME NEW m \in Machines, MoveOf(m), pc'[m] \in {"new"} \cup CloneSteps
  PROVE  /\ pc[m] \in {"new"} \cup CloneSteps /\ Recorded(m)
         /\ pc'[m] \in CleanSteps => ret'[m] # "rancher"
<1>1. Begins(m) \/ Clones(m) \/ Abandons(m)
  BY DEF MoveOf, Tags, Provisions, ComesUp, CreateEnds, EntersRemove,
         RemoveGoesOn, Searches, Finds, Destroys, RemoveFails, RemoveSucceeds,
         Forgets, Dies, CloneSteps, HoldSteps
<1> QED
  BY <1>1 DEF Begins, Clones, Abandons, Cloning, Discards, CloneSteps, CleanSteps

\* Except when the tag has been written, nothing new is recorded.
LEMMA NothingNewRecorded ==
  ASSUME NEW m \in Machines, Still(m) \/ MoveOf(m), ~Tags(m)
  PROVE  /\ drv'[m] \in {drv[m], cfg[m], NoRef}
         /\ cfg'[m] \in {drv[m], cfg[m], NoRef}
BY DEF Still, MoveOf, Begins, Clones, Abandons, Provisions, ComesUp, CreateEnds,
       EntersRemove, RemoveGoesOn, RemoveFails, RemoveSucceeds, Forgets, Dies,
       Recorded

\* The VM of a machine that does not clone just now keeps its tag as long as
\* it exists.
LEMMA TagKept ==
  ASSUME ClusterTypeOK, NEW m \in Machines, NEW id \in VMIDs, Evolves(id),
         pc[m] # "post", vms'[id].owner = m
  PROVE  vms[id].owner = m /\ (vms[id].tagged => vms'[id].tagged)
<1>1. ~Freed(id)
  BY SentinelAssumption DEF Freed, FreeVM
<1>2. ~Appears(id)
  BY SentinelAssumption DEF Appears
<1> QED
  BY <1>1, <1>2 DEF Evolves, Stays

\* Every step keeps what is recorded tagged.
LEMMA RecordNext ==
  ASSUME TypeInv, RecordInv, [Next]_vars
  PROVE  RecordInv'
<1>0. StepOK /\ ClusterTypeOK /\ ProcessTypeOK /\ ClusterTypeOK'
  BY NextOK, NextType DEF RecordInv, TypeInv, ProcessInv
<1>1. CleanUpCaller'
  <2> SUFFICES ASSUME NEW m \in Machines, pc'[m] \in CleanSteps
               PROVE  ret'[m] # "rancher"
    BY DEF CleanUpCaller
  <2>1. CASE Still(m)
    BY <2>1 DEF Still, RecordInv, CleanUpCaller
  <2>2. CASE MoveOf(m)
    BY <2>2, CloneStepsEntered DEF CloneSteps, CleanSteps
  <2> QED
    BY <1>0, <2>1, <2>2, StillOrMoves
<1>2. ASSUME NEW m \in Machines PROVE Unrecorded(m)'
  <2> SUFFICES ASSUME pc'[m] \in {"new"} \cup CloneSteps
               PROVE  drv'[m] = NoRef /\ cfg'[m] = NoRef
    BY DEF Unrecorded
  <2>1. pc[m] \in {"new"} \cup CloneSteps /\ drv'[m] = drv[m] /\ cfg'[m] = cfg[m]
    BY <1>0, StillOrMoves, CloneStepsEntered DEF Still, Recorded
  <2> QED
    BY <2>1 DEF RecordInv, Unrecorded
<1>3. ASSUME NEW m \in Machines, NEW r \in {drv'[m], cfg'[m]}, r.vmid # NoVMID,
             vms'[r.vmid].owner = m
      PROVE  vms'[r.vmid].tagged
  <2>1. CASE Tags(m)
    <3>1. cfg'[m] = NoRef
      BY <2>1 DEF Tags, RecordInv, Unrecorded, CloneSteps
    <3>2. r = hnd[m] /\ r.vmid \in VMIDs
      BY <1>3, <2>1, <3>1 DEF Tags, NoRef
    <3>3. vms[r.vmid] \in VM
      BY <1>0, <3>2 DEF ClusterTypeOK
    <3> QED
      BY <2>1, <3>2, <3>3 DEF Tags, VM
  <2>2. CASE ~Tags(m)
    <3>1. r \in {drv[m], cfg[m]}
      BY <1>0, <1>3, <2>2, StillOrMoves, NothingNewRecorded DEF NoRef
    <3>2. r.vmid \in VMIDs
      BY <1>0, <1>3, <3>1 DEF ProcessTypeOK, Ref
    <3>3. pc[m] # "post"
      BY <1>3, <3>1 DEF RecordInv, Unrecorded, CloneSteps, NoRef
    <3>4. vms[r.vmid].owner = m /\ (vms[r.vmid].tagged => vms'[r.vmid].tagged)
      BY <1>0, <1>3, <3>2, <3>3, TagKept DEF StepOK
    <3> QED
      BY <1>3, <3>1, <3>4 DEF RecordInv, RecordTagged
  <2> QED
    BY <2>1, <2>2
<1>4. ASSUME NEW m \in Machines PROVE RecordTagged(m)'
  BY <1>3 DEF RecordTagged
<1> QED
  BY <1>1, <1>2, <1>4 DEF RecordInv

\* Nothing is recorded before the first job.
LEMMA RecordInit == Init => RecordInv
BY DEF Init, ClusterInit, ProcessInit, RecordInv, CleanUpCaller, Unrecorded,
       RecordTagged, NoRef, CleanSteps

\* create.go: Driver.VMID and config.json never lead to a VM of the machine's
\* own without the tag, which Remove would refuse to delete, whatever failed,
\* was retried or was done by hand, even if VMIDs are reused.
THEOREM RecordedIsTagged == Spec => []RecordedVMIsTagged
<1>1. RecordInv => RecordedVMIsTagged
  BY DEF RecordInv, RecordTagged, RecordedVMIsTagged
<1>2. TypeInv /\ RecordInv /\ [Next]_vars => TypeInv' /\ RecordInv'
  BY NextType, RecordNext
<1> QED
  BY <1>1, <1>2, InitType, RecordInit, PTL DEF Spec

-----------------------------------------------------------------------------
(* AtMostOneTaggedVM needs to know that a machine that may still clone has *)
(* no tagged VM yet; RecordOnly, that a recorded VMID is the tagged VM's.  *)
(* Both rest on ownership: another machine never writes the tag of m's VM. *)

Untagged(m) ==
  pc[m] = "new" \/ Cloning(m) => \A id \in VMIDs : ~Marked(m, id)

OneMarked(m) == \A i, j \in VMIDs : Marked(m, i) /\ Marked(m, j) => i = j

RecordOnly(m) ==
  \A r \in {drv[m], cfg[m]} :
    r.vmid # NoVMID => \A id \in VMIDs : Marked(m, id) => id = r.vmid

TagInv ==
  reused = {} => \A m \in Machines : Untagged(m) /\ OneMarked(m) /\ RecordOnly(m)

\* What the invariants from here on build on.
Base == TypeInv /\ Own /\ RecordInv

\* Every step preserves it.
LEMMA BaseNext ==
  ASSUME NamesDistinct, Base, [Next]_vars
  PROVE  Base' /\ StepOK
BY NextType, NextOwn, RecordNext, NextOK DEF Base, RecordInv

\* A VMID that was reused remains so.
LEMMA ReusedGrows ==
  ASSUME Base, [Next]_vars
  PROVE  reused \subseteq reused'
<1>0. ClusterTypeOK
  BY DEF Base, TypeInv
<1>1. ASSUME NEW id, NEW o, NEW vm, Claim(id, o, vm) PROVE reused \subseteq reused'
  BY <1>1 DEF Claim
<1>2. ASSUME NEW m \in Machines, ProcessStep(m) PROVE reused \subseteq reused'
  <2>1. CASE CloneStep(m)
    BY <1>1, <2>1
       DEF CloneStep, RandomFreeVMID, CloneRequest, AwaitClone, CloneRetry,
           CleanUpRead, CleanUpDelete, CleanUpWait, ReadClone, TagClone,
           ListVMs, GetVM, Clone, WaitTask, Delete, Modify, Fails, clusterVars
  <2>2. CASE ProvisionStep(m)
    BY <2>2 DEF ProvisionStep, ConfigureVM, ResizeVMDisk, StartVM, WaitForIP, Provision,
                Modify, Fails, clusterVars
  <2>3. CASE RemoveStep(m)
    BY <2>3 DEF RemoveStep, LookupRecorded, LookupList, LookupFetch, FindList,
                FindFetch, FindNothing, Shutdown, Stop, DeleteRequest,
                DeleteWait, DeleteRetry, ListVMs, GetVM, WaitTask, Delete,
                Modify, Fails, clusterVars
  <2>4. CASE Forget(m)
    BY <2>4 DEF Forget, clusterVars
  <2> QED
    BY <1>2, <2>1, <2>2, <2>3, <2>4 DEF ProcessStep
<1>3. CASE ClusterStep
  BY <1>1, <1>3
     DEF ClusterStep, TaskEnds, CloneTaskSucceeds, CloneTaskFails,
         DeleteTaskSucceeds, DeleteTaskFails, Migrate, ForeignCreate,
         ForeignDelete, Power
<1>4. CASE \E m \in Machines : StartCreate(m) \/ StartRemove(m) \/ Crash(m)
  BY <1>4 DEF StartCreate, StartRemove, Crash, ListVMs, Fails, clusterVars
<1> QED
  BY <1>2, <1>3, <1>4 DEF Next, Finished, vars, clusterVars

\* Whoever has a VM in hand that is not reused is its owner.
LEMMA HandlesOwn ==
  ASSUME Base, NEW m \in Machines, NEW id \in VMIDs, id \notin reused,
         NEW steps, Handles(m, steps, id), "post" \notin steps
  PROVE  vms[id].owner = m
<1>1. Hand(m) /\ VMOwn(id) /\ hnd[m].vmid = id /\ pc[m] # "post"
  BY DEF Base, Own, HandOwn, ClusterOwn, Handles
<1>2. Owned(m, id)
  BY <1>1, SentinelAssumption DEF Hand
<1> QED
  BY <1>1, <1>2 DEF Handles, VMOwn, Owned

\* A VM gets its tag from the machine that owns it, in the step that writes
\* the tag, or had it before.
LEMMA MarkedGrows ==
  ASSUME Base, StepOK, NEW m \in Machines, NEW id \in VMIDs, id \notin reused,
         Marked(m, id)'
  PROVE  \/ Marked(m, id)
         \/ pc[m] = "tag" /\ pc'[m] # "tag" /\ hnd[m].vmid = id
<1>1. ~Freed(id) /\ ~Appears(id)
  BY SentinelAssumption DEF Freed, FreeVM, Appears, Marked
<1>2. Stays(id)
  BY <1>1 DEF StepOK, Evolves
<1>3. CASE vms'[id].tagged = vms[id].tagged
  BY <1>2, <1>3 DEF Stays, Marked
<1>4. CASE \E k \in Machines : Handles(k, {"tag"}, id)
  <2>1. PICK k \in Machines : Handles(k, {"tag"}, id)
    BY <1>4
  <2>2. k = m
    BY <1>2, <2>1, HandlesOwn DEF Stays, Marked
  <2> QED
    BY <2>1, <2>2 DEF Handles
<1> QED
  BY <1>2, <1>3, <1>4 DEF Stays

\* The step that leaves "tag" goes on to provision or to a cleanup.
LEMMA TagLeft ==
  ASSUME NEW m \in Machines, Still(m) \/ MoveOf(m), pc[m] = "tag", pc'[m] # "tag"
  PROVE  /\ ~Cloning(m)' /\ pc'[m] # "new"
         /\ Tags(m) \/ (drv'[m] \in {drv[m], cfg[m], NoRef} /\
                        cfg'[m] \in {drv[m], cfg[m], NoRef})
<1>1. Abandons(m) \/ Tags(m) \/ CreateEnds(m) \/ Dies(m)
  BY DEF Still, MoveOf, Begins, Clones, Provisions, ComesUp, EntersRemove,
         RemoveGoesOn, RemoveFails, RemoveSucceeds, Forgets, NothingLeft,
         ProvisionSteps, RemoveSteps
<1>2. ~Cloning(m)' /\ pc'[m] # "new"
  BY <1>1 DEF Abandons, Tags, CreateEnds, Dies, Cloning, Discards, CloneSteps,
              CleanSteps
<1> QED
  BY <1>2, NothingNewRecorded

\* Every step preserves the invariant.
LEMMA TagNext ==
  ASSUME NamesDistinct, Base, TagInv, [Next]_vars
  PROVE  TagInv'
<1> SUFFICES ASSUME reused' = {}, NEW m \in Machines
             PROVE  Untagged(m)' /\ OneMarked(m)' /\ RecordOnly(m)'
  BY DEF TagInv
<1>0. reused = {} /\ StepOK /\ (Still(m) \/ MoveOf(m))
  BY ReusedGrows, BaseNext, StillOrMoves
<1>1. Untagged(m) /\ OneMarked(m) /\ RecordOnly(m) /\ Unrecorded(m)
  BY <1>0 DEF TagInv, Base, RecordInv
<1>2. CASE ~(pc[m] = "tag" /\ pc'[m] # "tag")
  <2>1. \A id \in VMIDs : Marked(m, id)' => Marked(m, id)
    BY <1>0, <1>2, MarkedGrows
  <2>2. Untagged(m)'
    <3>1. pc'[m] = "new" \/ Cloning(m)' => pc[m] = "new" \/ Cloning(m)
      <4>1. CASE Still(m)
        BY <4>1 DEF Still, Cloning
      <4>2. CASE MoveOf(m)
        BY <4>2
           DEF MoveOf, Begins, Clones, Abandons, Tags, Provisions, ComesUp,
               CreateEnds, EntersRemove, RemoveGoesOn, Searches, Finds,
               Destroys, RemoveFails, RemoveSucceeds, Forgets, Dies, Cloning,
               Discards, CloneSteps, CleanSteps, HoldSteps
      <4> QED
        BY <1>0, <4>1, <4>2
    <3> QED
      BY <1>1, <2>1, <3>1 DEF Untagged
  <2>3. OneMarked(m)'
    BY <1>1, <2>1 DEF OneMarked
  <2>4. ~Tags(m)
    BY <1>2 DEF Tags
  <2>5. RecordOnly(m)'
    BY <1>0, <1>1, <2>1, <2>4, NothingNewRecorded DEF RecordOnly, NoRef
  <2> QED
    BY <2>2, <2>3, <2>5
<1>3. CASE pc[m] = "tag" /\ pc'[m] # "tag"
  <2>1. Cloning(m) /\ drv[m] = NoRef /\ cfg[m] = NoRef
    BY <1>1, <1>3 DEF Cloning, CloneSteps, CleanSteps, Unrecorded
  <2>2. \A id \in VMIDs : Marked(m, id)' => id = hnd[m].vmid
    BY <1>0, <1>1, <2>1, MarkedGrows DEF Untagged
  <2>3. ~Cloning(m)' /\ pc'[m] # "new"
    BY <1>0, <1>3, TagLeft
  <2>4. \A r \in {drv'[m], cfg'[m]} : r = hnd[m] \/ r = NoRef
    BY <1>0, <1>3, <2>1, TagLeft DEF Tags
  <2> QED
    BY <2>2, <2>3, <2>4 DEF Untagged, OneMarked, RecordOnly, NoRef
<1> QED
  BY <1>2, <1>3

\* No VM has the tag before the first job.
LEMMA TagInit == Init => TagInv
<1> SUFFICES ASSUME Init, NEW m \in Machines, NEW id \in VMIDs PROVE ~Marked(m, id)
  BY DEF TagInv, Untagged, OneMarked, RecordOnly
<1> QED
  BY DEF Init, ClusterInit, Marked, FreeVM

\* Base holds before the first job.
LEMMA BaseInit == Init => Base
BY InitType, InitOwn, RecordInit DEF Base

\* clone.go, pve.FindVMByNameAndTag: a machine never has two tagged VMs, so the
\* search for name and tag has at most one answer, whatever failed, was retried
\* or was done by hand, as long as no VMID is reused.
THEOREM OneTaggedVM ==
  ASSUME NamesDistinct
  PROVE  Spec => []AtMostOneTaggedVM
<1>1. TagInv => AtMostOneTaggedVM
  BY DEF TagInv, OneMarked, Marked, AtMostOneTaggedVM
<1>2. Base /\ TagInv /\ [Next]_vars => Base' /\ TagInv'
  BY BaseNext, TagNext
<1> QED
  BY <1>1, <1>2, BaseInit, TagInit, PTL DEF Spec

-----------------------------------------------------------------------------
(* UpMachineHasItsVM: from the tag on, m's VM is safe.  Nobody else has a  *)
(* handle of it, and m itself neither stops nor deletes it.                *)

Safe(m, id, runs) ==
  "purge" \notin Faults =>
    \/ id \in reused
    \/ /\ Marked(m, id) /\ vms[id].st = "idle"
       /\ runs /\ "power" \notin Faults => vms[id].power = "running"

Provisioned(m) ==
  /\ pc[m] \in ProvisionSteps =>
       /\ drv[m] = hnd[m] /\ hnd[m].vmid \in VMIDs
       /\ Safe(m, hnd[m].vmid, pc[m] = "waitip")
  /\ pc[m] = "up" => cfg[m].vmid \in VMIDs /\ Safe(m, cfg[m].vmid, TRUE)

UpInv == \A m \in Machines : Provisioned(m)

\* A VM that its owner does not delete stays as it is, whatever the others do.
LEMMA SafeStays ==
  ASSUME Base, StepOK, reused \subseteq reused', NEW m \in Machines,
         NEW id \in VMIDs, NEW runs \in BOOLEAN, Safe(m, id, runs),
         pc[m] \notin {"cleanDelete", "delete"},
         runs => pc'[m] = pc[m] \/ pc[m] \notin {"start", "shutdown", "stop"}
  PROVE  Safe(m, id, runs)'
<1> SUFFICES ASSUME "purge" \notin Faults, id \notin reused
             PROVE  /\ Marked(m, id)' /\ vms'[id].st = "idle"
                    /\ runs /\ "power" \notin Faults => vms'[id].power = "running"
  BY DEF Safe
<1>1. Marked(m, id) /\ vms[id].st = "idle"
      /\ (runs /\ "power" \notin Faults => vms[id].power = "running")
  BY DEF Safe
<1>2. Stays(id)
  BY <1>1 DEF StepOK, Evolves, Freed, Appears
<1>3. ASSUME NEW k \in Machines, NEW steps, Handles(k, steps, id), "post" \notin steps
      PROVE  k = m
  BY <1>1, <1>3, HandlesOwn DEF Marked
<1>4. ~\E k \in Machines : Handles(k, {"cleanDelete", "delete"}, id)
  BY <1>3 DEF Handles
<1>5. vms'[id].st = "idle" /\ Marked(m, id)'
  BY <1>1, <1>2, <1>4 DEF Stays, Marked
<1>6. runs /\ "power" \notin Faults => vms'[id].power = "running"
  <2>1. runs => ~\E k \in Machines : Handles(k, {"start", "shutdown", "stop"}, id)
    BY <1>3 DEF Handles
  <2> QED
    BY <1>1, <1>2, <2>1 DEF Stays
<1> QED
  BY <1>5, <1>6

\* The tag has just been written: the VM is m's own, or its VMID reused.
LEMMA TagsSafe ==
  ASSUME Base, StepOK, reused \subseteq reused', NEW m \in Machines, Tags(m),
         NEW id \in VMIDs, id = hnd[m].vmid
  PROVE  Safe(m, id, FALSE)'
<1>1. vms[id].st = "idle" /\ vms'[id] = [vms[id] EXCEPT !.tagged = TRUE]
  BY DEF Tags
<1>2. vms[id] \in VM
  BY DEF Base, TypeInv, ClusterTypeOK
<1>3. vms'[id].owner = vms[id].owner /\ vms'[id].st = "idle" /\ vms'[id].tagged
  BY <1>1, <1>2 DEF VM
<1>4. Handles(m, {"tag"}, id)
  BY <1>1 DEF Tags, Handles
<1>5. id \notin reused => vms[id].owner = m
  BY <1>4, HandlesOwn
<1> QED
  BY <1>3, <1>5 DEF Safe, Marked

\* Every step keeps the VM of a machine that is provisioned or up.
LEMMA UpNext ==
  ASSUME NamesDistinct, Base, UpInv, [Next]_vars
  PROVE  UpInv'
<1>0. StepOK /\ reused \subseteq reused' /\ ProcessTypeOK'
  BY BaseNext, ReusedGrows DEF Base, TypeInv, ProcessInv
<1> SUFFICES ASSUME NEW m \in Machines PROVE Provisioned(m)'
  BY DEF UpInv
<1>1. Provisioned(m)
  BY DEF UpInv
<1>2. CASE Still(m)
  <2>1. CASE pc[m] \in ProvisionSteps
    <3>1. PICK id \in VMIDs, runs \in BOOLEAN :
            id = hnd[m].vmid /\ runs = (pc[m] = "waitip")
      BY <1>1, <2>1 DEF Provisioned
    <3>2. Safe(m, id, runs)
      BY <1>1, <2>1, <3>1 DEF Provisioned
    <3>3. Safe(m, id, runs)'
      BY <1>0, <1>2, <2>1, <3>2, SafeStays DEF Still, ProvisionSteps
    <3>4. /\ pc'[m] = pc[m] /\ drv'[m] = hnd'[m] /\ hnd'[m].vmid = id
          /\ runs = (pc'[m] = "waitip") /\ pc'[m] # "up"
      BY <1>1, <1>2, <2>1, <3>1 DEF Still, Provisioned, ProvisionSteps
    <3> QED
      BY <3>3, <3>4 DEF Provisioned, Safe, Marked
  <2>2. CASE pc[m] = "up"
    <3>1. PICK id \in VMIDs : id = cfg[m].vmid
      BY <1>1, <2>2 DEF Provisioned
    <3>2. Safe(m, id, TRUE)
      BY <1>1, <2>2, <3>1 DEF Provisioned
    <3>3. Safe(m, id, TRUE)'
      BY <1>0, <1>2, <2>2, <3>2, SafeStays DEF Still
    <3>4. pc'[m] = "up" /\ cfg'[m].vmid = id
      BY <1>2, <2>2, <3>1 DEF Still
    <3> QED
      BY <3>3, <3>4 DEF Provisioned, Safe, Marked, ProvisionSteps
  <2>3. CASE pc[m] \notin ProvisionSteps \cup {"up"}
    BY <1>2, <2>3 DEF Still, Provisioned
  <2> QED
    BY <2>1, <2>2, <2>3
<1>3. CASE Tags(m)
  <2>1. PICK id \in VMIDs : id = hnd[m].vmid
    BY <1>3 DEF Tags
  <2>2. Safe(m, id, FALSE)'
    BY <1>0, <1>3, <2>1, TagsSafe
  <2>3. pc'[m] = "config" /\ drv'[m] = hnd'[m] /\ hnd'[m].vmid = id
    BY <1>3, <2>1 DEF Tags
  <2> QED
    BY <2>2, <2>3 DEF Provisioned, Safe, Marked
<1>4. CASE Provisions(m)
  <2>1. /\ drv[m] = hnd[m] /\ hnd[m].vmid \in VMIDs
        /\ Safe(m, hnd[m].vmid, pc[m] = "waitip")
    BY <1>1, <1>4 DEF Provisions, Provisioned, ProvisionSteps
  <2>2. PICK id \in VMIDs : id = hnd[m].vmid
    BY <2>1
  <2>3. Safe(m, id, FALSE)
    BY <2>1, <2>2 DEF Safe
  <2>4. Safe(m, id, FALSE)'
    BY <1>0, <1>4, <2>3, SafeStays DEF Provisions
  <2>5. /\ drv'[m] = hnd'[m] /\ hnd'[m].vmid = id /\ pc'[m] # "up"
        /\ pc'[m] = "waitip" => vms'[id].power = "running"
    BY <1>4, <2>1, <2>2 DEF Provisions, Recorded
  <2> QED
    BY <2>4, <2>5 DEF Provisioned, Safe, Marked
<1>5. CASE ComesUp(m)
  <2>1. /\ drv[m] = hnd[m] /\ hnd[m].vmid \in VMIDs
        /\ Safe(m, hnd[m].vmid, pc[m] = "waitip") /\ pc[m] = "waitip"
    BY <1>1, <1>5 DEF ComesUp, Provisioned, ProvisionSteps
  <2>2. PICK id \in VMIDs : id = hnd[m].vmid
    BY <2>1
  <2>3. Safe(m, id, TRUE)
    BY <2>1, <2>2 DEF Safe
  <2>4. Safe(m, id, TRUE)'
    BY <1>0, <2>1, <2>3, SafeStays
  <2>5. pc'[m] = "up" /\ cfg'[m].vmid = id
    BY <1>5, <2>1, <2>2 DEF ComesUp
  <2> QED
    BY <2>4, <2>5 DEF Provisioned, Safe, Marked, ProvisionSteps
<1>6. CASE MoveOf(m) /\ ~Tags(m) /\ ~Provisions(m) /\ ~ComesUp(m)
  <2>1. pc'[m] \notin ProvisionSteps \cup {"up"}
    BY <1>6 DEF MoveOf, Begins, Clones, Abandons, CreateEnds, EntersRemove,
                RemoveGoesOn, Searches, Finds, Destroys, RemoveFails,
                RemoveSucceeds, Forgets, Dies, Cloning, Discards, CloneSteps,
                CleanSteps, HoldSteps, ProvisionSteps
  <2> QED
    BY <2>1 DEF Provisioned
<1> QED
  BY <1>0, <1>2, <1>3, <1>4, <1>5, <1>6, StillOrMoves

\* No machine is up before the first job.
LEMMA UpInit == Init => UpInv
BY DEF Init, ProcessInit, UpInv, Provisioned, ProvisionSteps

\* create.go: the VM of a machine that came up stays what Create made of it
\* until the machine is removed, whatever the other machines' jobs do, unless
\* its VMID is reused or people delete or stop VMs by hand.
THEOREM UpHasItsVM ==
  ASSUME NamesDistinct
  PROVE  Spec => []UpMachineHasItsVM
<1>1. UpInv => UpMachineHasItsVM
  BY DEF UpInv, Provisioned, Safe, Marked, UpMachineHasItsVM
<1>2. Base /\ UpInv /\ [Next]_vars => Base' /\ UpInv'
  BY BaseNext, UpNext
<1> QED
  BY <1>1, <1>2, BaseInit, UpInit, PTL DEF Spec

-----------------------------------------------------------------------------
(* RemovedLeavesNoTaggedVM.  Without name server failures, migrations and  *)
(* reused VMIDs, each way in which lookupVM or the deletion comes to its   *)
(* conclusion is right: the VM recorded is the only one that can have the  *)
(* tag, it is on the node it was cloned to, and a search by name has still *)
(* to look at it.                                                          *)

\* A VM that does not exist has no owner; one being cloned has no tag yet.
Blank == \A id \in VMIDs :
  /\ vms[id].st \in {"free", "cloning"} => ~vms[id].tagged
  /\ vms[id].st = "free" => vms[id].owner = NoOne

\* VMs stay on the node they were cloned to, if nobody migrates them.
InPlace ==
  "migrate" \notin Faults =>
    \A id \in VMIDs :
      vms[id].owner \in Machines => vms[id].node = NodeOf[vms[id].owner]

PlaceInv == Blank /\ InPlace

Searching(m) ==
  /\ pc[m] \in {"list", "fetch"} => drv[m].vmid # NoVMID
  /\ pc[m] = "fetch" => hnd[m].vmid = drv[m].vmid /\ hnd[m].node = NodeOf[m]
  /\ pc[m] = "scan" =>
       \A id \in VMIDs : Marked(m, id) => RefOf(id) \in rows[m]

Holding(m) ==
  /\ pc[m] \in HoldSteps => \A id \in VMIDs : Marked(m, id) => id = hnd[m].vmid
  /\ pc[m] = "deleteWait" =>
       /\ task[m].exit = "running" => task[m].vmid = hnd[m].vmid
       /\ task[m].exit = "nil" => \A id \in VMIDs : ~Marked(m, id)

Removed(m) ==
  pc[m] \in {"removed", "gone"} => \A id \in VMIDs : ~Marked(m, id)

Precise == reused = {} /\ Faults \cap {"dns", "migrate"} = {}

RemoveInv ==
  Precise => \A m \in Machines : Searching(m) /\ Holding(m) /\ Removed(m)

\* VMs appear in place and without a tag, and stay so.
LEMMA PlaceNext ==
  ASSUME Base, PlaceInv, StepOK
  PROVE  PlaceInv'
<1>1. ASSUME NEW id \in VMIDs
      PROVE  /\ vms'[id].st \in {"free", "cloning"} => ~vms'[id].tagged
             /\ vms'[id].st = "free" => vms'[id].owner = NoOne
             /\ "migrate" \notin Faults /\ vms'[id].owner \in Machines
                  => vms'[id].node = NodeOf[vms'[id].owner]
  <2>1. CASE Freed(id)
    BY <2>1, SentinelAssumption DEF Freed, FreeVM
  <2>2. CASE Appears(id)
    BY <2>2, SentinelAssumption DEF Appears
  <2>3. CASE Stays(id)
    BY <2>3 DEF Stays, PlaceInv, Blank, InPlace
  <2> QED
    BY <2>1, <2>2, <2>3 DEF StepOK, Evolves
<1> QED
  BY <1>1 DEF PlaceInv, Blank, InPlace

\* A tagged VM that stays, stays where it is.
LEMMA MarkedStays ==
  ASSUME Base, StepOK, Precise, NEW m \in Machines, pc[m] # "tag",
         NEW id \in VMIDs, Marked(m, id)'
  PROVE  Marked(m, id) /\ vms'[id].node = vms[id].node
<1>1. Marked(m, id)
  BY MarkedGrows DEF Precise
<1>2. Stays(id)
  BY SentinelAssumption DEF StepOK, Evolves, Freed, FreeVM, Appears, Marked
<1> QED
  BY <1>1, <1>2 DEF Stays, Precise

\* The VM lookupVM found with the tag is m's.
LEMMA FindsOwn ==
  ASSUME Base, Precise, NEW m \in Machines, NEW ref, LookupRef(m, ref), At(ref),
         HasTag(ref)
  PROVE  ref.vmid \in VMIDs /\ Marked(m, ref.vmid)
<1>0. ref.vmid \in VMIDs /\ vms[ref.vmid].st # "free"
  BY DEF At
<1>1. Hand(m) /\ VMOwn(ref.vmid)
  BY <1>0 DEF Base, Own, HandOwn, ClusterOwn
<1>2. Owned(m, ref.vmid)
  <2>1. CASE pc[m] = "scan" /\ ref \in rows[m]
    BY <2>1, TaggedRowOwn DEF Base, TypeInv, ProcessInv, Own
  <2>2. CASE ref \in {drv[m], hnd[m]} /\ pc[m] # "post"
    BY <1>0, <1>1, <2>2, SentinelAssumption DEF Hand
  <2> QED
    BY <2>1, <2>2 DEF LookupRef
<1> QED
  BY <1>0, <1>1, <1>2 DEF VMOwn, Owned, Precise, Marked, HasTag

\* When lookupVM or the deletion concludes that nothing is left, it is right.
LEMMA NothingLeftRight ==
  ASSUME Base, PlaceInv, TagInv, Precise, NEW m \in Machines,
         Searching(m), Holding(m), NothingLeft(m), NEW id \in VMIDs
  PROVE  ~Marked(m, id)
<1> SUFFICES ASSUME Marked(m, id) PROVE FALSE
  OBVIOUS
<1>1. vms[id].st # "free" /\ vms[id].node = NodeOf[m]
  BY DEF PlaceInv, Blank, InPlace, Marked, Precise
<1>2. drv[m].vmid # NoVMID => id = drv[m].vmid
  BY DEF TagInv, RecordOnly, Precise
<1>3. CASE pc[m] = "list" /\ drv[m].vmid \notin Rows
  BY <1>1, <1>2, <1>3 DEF Searching, Rows
<1>4. CASE pc[m] = "fetch" /\ (~At(hnd[m]) \/ "dns" \in Faults)
  BY <1>1, <1>2, <1>4 DEF Searching, At, Precise
<1>5. CASE pc[m] = "scan" /\ rows[m] = {}
  BY <1>5 DEF Searching
<1>6. CASE pc[m] = "deleteWait" /\ task[m].exit = "nil"
  BY <1>6 DEF Holding
<1> QED
  BY <1>3, <1>4, <1>5, <1>6 DEF NothingLeft

\* While m's process waits or rests, what it knows of its VM stays true.
LEMMA StillRemove ==
  ASSUME Base, PlaceInv, StepOK, Precise, NEW m \in Machines,
         Searching(m), Holding(m), Removed(m), Still(m), TaskStill(m)
  PROVE  Searching(m)' /\ Holding(m)' /\ Removed(m)'
<1>1. CASE pc[m] = "tag"
  BY <1>1 DEF Still, Searching, Holding, Removed, HoldSteps
<1>2. CASE pc[m] # "tag"
  <2>1. \A id \in VMIDs : Marked(m, id)' => Marked(m, id) /\ vms'[id].node = vms[id].node
    BY <1>2, MarkedStays
  <2>2. Searching(m)'
    BY <2>1 DEF Still, Searching, RefOf
  <2>3. Removed(m)'
    BY <2>1 DEF Still, Removed
  <2>4. ASSUME pc[m] \in HoldSteps, NEW id \in VMIDs, Marked(m, id)'
        PROVE  id = hnd'[m].vmid
    BY <2>1, <2>4 DEF Still, Holding
  <2>5. ASSUME pc[m] = "deleteWait"
        PROVE  /\ task'[m].exit = "running" => task'[m].vmid = hnd'[m].vmid
               /\ task'[m].exit = "nil" => \A id \in VMIDs : ~Marked(m, id)'
    <3>1. CASE task'[m] = task[m]
      BY <2>1, <2>5, <3>1 DEF Still, Holding
    <3>2. CASE task'[m] # task[m]
      <4>1. /\ task[m].exit = "running" /\ task'[m].exit # "running"
            /\ task[m].vmid \in VMIDs /\ task[m].vmid = hnd[m].vmid
            /\ \/ task'[m].exit \in ExitErrs
               \/ vms[task[m].vmid].st = "cloning"
               \/ vms'[task[m].vmid] = FreeVM
        BY <2>5, <3>2 DEF TaskStill, Holding
      <4>2. PICK t \in VMIDs : t = task[m].vmid
        BY <4>1
      <4>3. task'[m].exit = "nil" => ~Marked(m, t)'
        BY <2>1, <4>1, <4>2 DEF ExitErrs, PlaceInv, Blank, Marked, FreeVM
      <4>4. \A id \in VMIDs : Marked(m, id)' => id = t
        BY <2>4, <2>5, <4>1, <4>2 DEF Still, HoldSteps
      <4> QED
        BY <4>1, <4>3, <4>4
    <3> QED
      BY <3>1, <3>2
  <2>6. Holding(m)'
    BY <2>4, <2>5 DEF Still, Holding
  <2> QED
    BY <2>2, <2>3, <2>6
<1> QED
  BY <1>1, <1>2

\* lookupVM's steps keep it true.
LEMMA SearchesRemove ==
  ASSUME Base, PlaceInv, StepOK, Precise, NEW m \in Machines,
         Searching(m), Searches(m), Recorded(m)
  PROVE  Searching(m)' /\ Holding(m)' /\ Removed(m)'
<1>1. /\ pc'[m] \in {"list", "fetch", "scan"} /\ vms' = vms
      /\ drv'[m] = drv[m]
  BY DEF Searches, Recorded
<1>2. Holding(m)' /\ Removed(m)'
  BY <1>1 DEF Holding, Removed, HoldSteps
<1>3. CASE pc[m] = "lookup" /\ pc'[m] = "list" /\ drv[m].vmid # NoVMID
  BY <1>1, <1>2, <1>3 DEF Searching
<1>4. CASE /\ pc[m] = "list" /\ pc'[m] = "fetch"
           /\ drv[m].vmid \in Rows /\ hnd'[m] = RefOf(drv[m].vmid)
  <2>1. PICK id \in VMIDs : id = drv[m].vmid /\ vms[id].st # "free"
    BY <1>4 DEF Rows
  <2>2. Hand(m) /\ VMOwn(id) /\ id # NoVMID
    BY SentinelAssumption DEF Base, Own, HandOwn, ClusterOwn
  <2>3. vms[id].owner = m
    BY <2>1, <2>2 DEF Hand, VMOwn, Owned, Precise
  <2>4. hnd'[m].vmid = id /\ hnd'[m].node = NodeOf[m]
    BY <1>4, <2>1, <2>3 DEF RefOf, PlaceInv, InPlace, Precise
  <2> QED
    BY <1>1, <1>2, <1>4, <2>1, <2>2, <2>4 DEF Searching
<1>5. CASE /\ pc[m] = "lookup" /\ pc'[m] = "scan"
           /\ rows'[m] = FindVMByName(m)
  <2>1. ASSUME NEW id \in VMIDs, Marked(m, id) PROVE RefOf(id) \in FindVMByName(m)
    <3>1. vms[id].st # "free" /\ vms[id].name = NameOf[m]
      BY <2>1 DEF PlaceInv, Blank, Marked, Base, Own, ClusterOwn, VMOwn
    <3> QED
      BY <3>1 DEF FindVMByName, Rows
  <2> QED
    BY <1>1, <1>2, <1>5, <2>1 DEF Searching, Marked, RefOf
<1>6. CASE /\ pc[m] = "scan" /\ pc'[m] = "scan"
           /\ \E ref \in rows[m] :
                /\ rows'[m] = rows[m] \ {ref}
                /\ ~(At(ref) /\ HasTag(ref)) \/ "dns" \in Faults
  <2>1. PICK ref \in rows[m] :
          /\ rows'[m] = rows[m] \ {ref}
          /\ ~(At(ref) /\ HasTag(ref))
    BY <1>6 DEF Precise
  <2>2. ASSUME NEW id \in VMIDs, Marked(m, id) PROVE RefOf(id) \in rows'[m]
    <3>1. At(RefOf(id)) /\ HasTag(RefOf(id))
      BY <2>2 DEF At, RefOf, HasTag, Marked, PlaceInv, Blank
    <3> QED
      BY <1>6, <2>1, <2>2, <3>1 DEF Searching
  <2> QED
    BY <1>1, <1>2, <1>6, <2>2 DEF Searching, Marked, RefOf
<1> QED
  BY <1>3, <1>4, <1>5, <1>6 DEF Searches

\* Every step of m's own keeps it true.
LEMMA MoveRemove ==
  ASSUME Base, PlaceInv, TagInv, StepOK, Precise, NEW m \in Machines,
         Searching(m), Holding(m), Removed(m), MoveOf(m)
  PROVE  Searching(m)' /\ Holding(m)' /\ Removed(m)'
<1>1. CASE RemoveGoesOn(m) /\ Searches(m)
  BY <1>1, SearchesRemove DEF RemoveGoesOn
<1>2. CASE RemoveGoesOn(m) /\ Finds(m)
  <2>1. hnd'[m].vmid \in VMIDs /\ Marked(m, hnd'[m].vmid)
    BY <1>2, FindsOwn DEF Finds
  <2>2. \A id \in VMIDs : Marked(m, id) => id = hnd'[m].vmid
    BY <2>1 DEF TagInv, OneMarked, Precise
  <2>3. pc'[m] \in {"shutdown", "delete"} /\ vms' = vms
    BY <1>2 DEF Finds
  <2> QED
    BY <2>2, <2>3 DEF Searching, Holding, Removed, Marked
<1>3. CASE RemoveGoesOn(m) /\ Destroys(m)
  <2>1. pc[m] \in HoldSteps /\ pc'[m] \in HoldSteps /\ hnd'[m] = hnd[m]
    BY <1>3 DEF Destroys
  <2>2. \A id \in VMIDs : Marked(m, id)' => id = hnd'[m].vmid
    BY <2>1, MarkedStays DEF Holding, HoldSteps
  <2>3. pc'[m] = "deleteWait" =>
          task'[m].exit = "running" /\ task'[m].vmid = hnd'[m].vmid
    BY <1>3 DEF Destroys
  <2> QED
    BY <2>1, <2>2, <2>3 DEF Searching, Holding, Removed, HoldSteps
<1>4. CASE RemoveSucceeds(m)
  <2>1. \A id \in VMIDs : ~Marked(m, id)
    BY <1>4, NothingLeftRight DEF RemoveSucceeds
  <2> QED
    BY <1>4, <2>1 DEF RemoveSucceeds, Searching, Holding, Removed, Marked, HoldSteps
<1>5. CASE Forgets(m)
  <2>1. \A id \in VMIDs : ~Marked(m, id)'
    BY <1>5, MarkedStays DEF Forgets, Removed
  <2> QED
    BY <1>5, <2>1 DEF Forgets, Searching, Holding, Removed, HoldSteps
<1>6. CASE ~RemoveGoesOn(m) /\ ~RemoveSucceeds(m) /\ ~Forgets(m)
  <2>1. pc'[m] \notin {"list", "fetch", "scan", "removed", "gone"} \cup HoldSteps
    BY <1>6 DEF MoveOf, Begins, Clones, Abandons, Tags, Provisions, ComesUp,
                CreateEnds, EntersRemove, RemoveFails, Dies, Cloning, Discards,
                CloneSteps, CleanSteps, HoldSteps
  <2> QED
    BY <2>1 DEF Searching, Holding, Removed, HoldSteps
<1> QED
  BY <1>1, <1>2, <1>3, <1>4, <1>5, <1>6 DEF RemoveGoesOn

\* The invariants of this module together.
TagsInv == Base /\ TagInv /\ UpInv /\ PlaceInv /\ RemoveInv

\* Every step preserves them.
LEMMA TagsNext ==
  ASSUME NamesDistinct, TagsInv, [Next]_vars
  PROVE  TagsInv' /\ StepOK /\ reused \subseteq reused'
<1>0. Base' /\ StepOK /\ reused \subseteq reused' /\ TagInv' /\ UpInv'
  BY BaseNext, ReusedGrows, TagNext, UpNext DEF TagsInv
<1>1. PlaceInv'
  BY <1>0, PlaceNext DEF TagsInv
<1>2. ASSUME Precise', NEW m \in Machines
      PROVE  Searching(m)' /\ Holding(m)' /\ Removed(m)'
  <2>1. Precise
    BY <1>0, <1>2 DEF Precise
  <2>2. Searching(m) /\ Holding(m) /\ Removed(m)
    BY <2>1 DEF TagsInv, RemoveInv
  <2> QED
    BY <1>0, <2>1, <2>2, StillOrMoves, StillRemove, MoveRemove DEF TagsInv
<1>3. RemoveInv'
  BY <1>2 DEF RemoveInv
<1> QED
  BY <1>0, <1>1, <1>3 DEF TagsInv

\* They hold before the first job.
LEMMA TagsInit == Init => TagsInv
<1>1. Init => PlaceInv
  BY SentinelAssumption DEF Init, ClusterInit, PlaceInv, Blank, InPlace, FreeVM
<1>2. Init => RemoveInv
  BY DEF Init, ProcessInit, RemoveInv, Searching, Holding, Removed, HoldSteps
<1> QED
  BY <1>1, <1>2, BaseInit, TagInit, UpInit DEF TagsInv

\* remove.go, driver.go: a Remove that reports success leaves no tagged VM of
\* the machine behind, by whichever of its lookups, searches and retries it
\* came to that result and whatever failed or died before.
THEOREM RemovedLeavesNothing ==
  ASSUME NamesDistinct
  PROVE  Spec => []RemovedLeavesNoTaggedVM
<1>1. TagsInv => RemovedLeavesNoTaggedVM
  BY DEF TagsInv, RemoveInv, Precise, Removed, Marked, RemovedLeavesNoTaggedVM
<1>2. TagsInv /\ [Next]_vars => TagsInv'
  BY TagsNext
<1> QED
  BY <1>1, <1>2, TagsInit, PTL DEF Spec

-----------------------------------------------------------------------------
(* FailedCreateCleansUp. Create's clean-up is best effort: a second fault  *)
(* may hit it, so the claim is for one. By the time a step of Create fails *)
(* nothing is left of the machine (it is Bare), or the one fault has       *)
(* happened and the clean-up runs without any. What has to be known at     *)
(* every point is therefore where the VM is that could be left, and that   *)
(* the next request of the clean-up reaches it. Kinds of faults of which   *)
(* one is enough to leave a VM are excluded: after "net", "dns", "poll"    *)
(* and "timeout" the wait for a clone ends while the clone goes on; after  *)
(* "lost" Create does not know of its clone; after "migrate"               *)
(* bestEffortDelete looks for it on the wrong node; and PVE does not       *)
(* delete a VM that is running or paused ("power").                        *)

\* No fault has happened yet.
Fresh == budget = MaxFaults
\* At most one has.
OneFault == MaxFaults <= budget + 1

\* Only kinds of faults of which a single one leaves Create able to clean up.
Benign ==
  Faults \cap {"net", "dns", "poll", "timeout", "lost", "migrate", "power"} = {}

\* The VMs that m has made and that still exist, under ids of its own.
Left(m) == {id \in VMIDs \ reused : vms[id].owner = m}
\* There is none.
Bare(m) == Left(m) = {}

\* If there is one, it is where ref says, unlocked, and its power is known.
InHand(m, ref, powers) ==
  \A id \in Left(m) :
    /\ id = ref.vmid /\ vms[id].node = ref.node
    /\ vms[id].st = "idle" /\ vms[id].power \in powers

\* If there is one, the delete task that m waits for is at work on it.
Dying(m) ==
  \A id \in Left(m) :
    /\ id = hnd[m].vmid /\ vms[id].st = "deleting"
    /\ task[m] = [vmid |-> id, exit |-> "running"]

\* If there is one, it is the clone that m waits for; a clone task that has
\* failed left one only if that was the fault.
Awaiting(m) ==
  /\ task[m].vmid = hnd[m].vmid
  /\ \A id \in Left(m) :
       /\ id = hnd[m].vmid /\ vms[id].node = hnd[m].node /\ vms[id].power = "stopped"
       /\ vms[id].st = "idle" \/ task[m].exit = "running"
  /\ task[m].exit \notin {"running", "nil"} /\ Fresh => Bare(m)

\* Create and CloneFromTemplate: from the clone on, the handle leads to what
\* is left; once a step has failed there is nothing left, or its failure was
\* the one fault and every request of the clean-up will succeed.
CreateLeft(m) ==
  /\ pc[m] \in {"new", "pick", "post", "retry", "failed"} => Bare(m)
  /\ pc[m] = "post" => hnd[m].node = NodeOf[m]
  /\ pc[m] = "await" => Awaiting(m)
  /\ pc[m] \in {"read", "tag", "cleanRead", "cleanDelete", "config", "resize", "start"}
       => InHand(m, hnd[m], {"stopped"})
  /\ pc[m] \in CleanSteps => (Fresh => Bare(m))
  /\ pc[m] = "cleanWait" => Dying(m)
  /\ pc[m] = "waitip" => InHand(m, hnd[m], {"running"})
  /\ pc[m] \in ProvisionSteps => drv[m] = hnd[m]

\* The same for the Remove that Create calls.
RemoveLeft(m) ==
  pc[m] \in RemoveSteps /\ ret[m] = "create" =>
  /\ Fresh => Bare(m)
  /\ pc[m] = "lookup" => InHand(m, drv[m], {"running", "stopped"})
  /\ pc[m] \in {"list", "fetch", "scan", "deleteRetry"} => Bare(m)
  /\ pc[m] \in {"shutdown", "stop"} => InHand(m, hnd[m], {"running", "stopped"})
  /\ pc[m] = "delete" => InHand(m, hnd[m], {"stopped"})
  /\ pc[m] = "deleteWait" => Dying(m)

CleanInv ==
  OneFault => \A m \in Machines \ KeepOnFailure : CreateLeft(m) /\ RemoveLeft(m)

-----------------------------------------------------------------------------

\* The first fault occurs in this step.
Strikes == Fresh /\ ~Fresh'

\* While at most one fault has happened, a step with a fault is the first.
LEMMA FirstFault ==
  ASSUME ClusterTypeOK, OneFault', Faulty
  PROVE  Strikes
BY FaultAssumption DEF Strikes, ClusterTypeOK, OneFault, Fresh, Faulty

\* A fault is of one of the kinds considered and costs one.
LEMMA InjectFaulty ==
  ASSUME NEW f, Inject(f)
  PROVE  Faulty /\ f \in Faults
BY DEF Inject, Faulty

\* A step has one fault or none: no request injects two.
LEMMA BudgetFalls ==
  ASSUME [Next]_vars
  PROVE  budget' = budget \/ Faulty
<1>1. ASSUME NEW f, Inject(f) PROVE Faulty
  BY <1>1, InjectFaulty
<1>2. ASSUME NEW m, NEW id, NEW e, Reply(m, id, e) PROVE budget' = budget \/ Faulty
  BY <1>1, <1>2 DEF Reply
<1>3. ASSUME NEW m \in Machines, ProcessStep(m) PROVE budget' = budget \/ Faulty
  <2>1. CASE CloneStep(m)
    BY <1>1, <1>2, <2>1
       DEF CloneStep, RandomFreeVMID, CloneRequest, AwaitClone, CloneRetry,
           CleanUpRead, CleanUpDelete, CleanUpWait, ReadClone, TagClone,
           ListVMs, GetVM, Clone, WaitTask, Delete, Modify, Fails, clusterVars
  <2>2. CASE ProvisionStep(m)
    BY <1>1, <2>2 DEF ProvisionStep, ConfigureVM, ResizeVMDisk, StartVM, WaitForIP, Provision,
                Modify, Fails, clusterVars
  <2>3. CASE RemoveStep(m)
    BY <1>1, <1>2, <2>3
       DEF RemoveStep, LookupRecorded, LookupList, LookupFetch, FindList,
           FindFetch, FindNothing, Shutdown, Stop, DeleteRequest, DeleteWait,
           DeleteRetry, ListVMs, GetVM, WaitTask, Delete, Modify, Fails,
           clusterVars
  <2>4. CASE Forget(m)
    BY <2>4 DEF Forget, clusterVars
  <2> QED
    BY <1>3, <2>1, <2>2, <2>3, <2>4 DEF ProcessStep
<1>4. CASE ClusterStep
  BY <1>1, <1>4
     DEF ClusterStep, TaskEnds, CloneTaskSucceeds, CloneTaskFails,
         DeleteTaskSucceeds, DeleteTaskFails, Migrate, ForeignCreate,
         ForeignDelete, Power
<1>5. CASE \E m \in Machines : StartCreate(m) \/ StartRemove(m) \/ Crash(m)
  BY <1>1, <1>5 DEF StartCreate, StartRemove, Crash, ListVMs, Fails, clusterVars
<1> QED
  BY <1>3, <1>4, <1>5 DEF Next, Finished, vars, clusterVars

\* Faults are not taken back.
LEMMA FreshBefore ==
  ASSUME ClusterTypeOK, [Next]_vars
  PROVE  (OneFault' => OneFault) /\ (OneFault' /\ Fresh' => Fresh)
<1>1. budget' = budget \/ Faulty
  BY BudgetFalls
<1>2. CASE budget' = budget
  BY <1>2 DEF OneFault, Fresh
<1>3. CASE Faulty
  BY <1>3, FaultAssumption DEF ClusterTypeOK, OneFault, Fresh, Faulty
<1> QED
  BY <1>1, <1>2, <1>3

-----------------------------------------------------------------------------
\* Nothing happens to the VMs.
SameVMs == vms' = vms /\ reused' = reused

\* resources.go, GetVM: it fails only if the VM is not there or by the fault.
LEMMA GetVMOutcome ==
  ASSUME ClusterTypeOK, OneFault', NEW ref, NEW e, GetVM(ref, e)
  PROVE  /\ SameVMs
         /\ e = "nil" => At(ref)
         /\ e # "nil" => ~At(ref) \/ Strikes
<1>1. CASE e = (IF At(ref) THEN "nil" ELSE "notfound") /\ UNCHANGED clusterVars
  BY <1>1 DEF SameVMs, clusterVars
<1>2. CASE Fails(ReadErrs, e)
  <2>1. Strikes
    BY <1>2, InjectFaulty, FirstFault DEF Fails
  <2> QED
    BY <1>2, <2>1 DEF Fails, ReadErrs, SameVMs
<1> QED
  BY <1>1, <1>2 DEF GetVM

\* resources.go, ListVMs reads.
LEMMA ListVMsOutcome ==
  ASSUME NEW e, ListVMs(e)
  PROVE  SameVMs
BY DEF ListVMs, Fails, SameVMs, clusterVars

\* vmops.go, ApplyConfig and the power requests: without lost replies and
\* timeouts one that fails has no effect, and it fails only on a VM that is
\* not there or is locked, or by the fault.
LEMMA ModifyOutcome ==
  ASSUME ClusterTypeOK, OneFault', Benign, NEW ref, NEW vm, NEW e, Modify(ref, vm, e)
  PROVE  /\ reused' = reused
         /\ \/ /\ e = "nil" /\ ref.vmid \in VMIDs /\ vms[ref.vmid].st = "idle"
               /\ vms' = [vms EXCEPT ![ref.vmid] = vm]
            \/ /\ e # "nil" /\ vms' = vms
               /\ \/ ~(At(ref) /\ vms[ref.vmid].st = "idle")
                  \/ Strikes
<1>1. "lost" \notin Faults /\ "timeout" \notin Faults
  BY DEF Benign
<1>2. CASE Fails(PostErrs, e)
  <2>1. Strikes
    BY <1>2, InjectFaulty, FirstFault DEF Fails
  <2> QED
    BY <1>2, <2>1 DEF Fails, PostErrs
<1>3. CASE /\ ~(At(ref) /\ vms[ref.vmid].st = "idle")
           /\ e = IF At(ref) THEN "vmlocked" ELSE "notfound"
           /\ UNCHANGED clusterVars
  BY <1>3 DEF clusterVars
<1>4. CASE /\ At(ref) /\ vms[ref.vmid].st = "idle"
           /\ vms' = [vms EXCEPT ![ref.vmid] = vm]
           /\ e = "nil" /\ reused' = reused
  BY <1>4 DEF At
<1> QED
  BY <1>1, <1>2, <1>3, <1>4, InjectFaulty DEF Modify

\* vmops.go, DeleteVM: the same for the delete request.
LEMMA DeleteRefused ==
  ASSUME ClusterTypeOK, OneFault', Benign, NEW m, NEW ref, NEW e,
         Delete(m, ref, e), e # "nil"
  PROVE  SameVMs /\ (~Deletable(ref) \/ Strikes)
<1>1. "lost" \notin Faults
  BY DEF Benign
<1>2. CASE Fails(PostErrs, e)
  BY <1>2, InjectFaulty, FirstFault DEF Fails, SameVMs
<1>3. CASE ~Deletable(ref) /\ UNCHANGED clusterVars
  BY <1>3 DEF clusterVars, SameVMs
<1>4. ~Reply(m, ref.vmid, e)
  BY <1>1, InjectFaulty DEF Reply
<1> QED
  BY <1>2, <1>3, <1>4 DEF Delete

\* One that succeeds locks the VM and starts the task that is waited for.
LEMMA DeleteStarts ==
  ASSUME ClusterTypeOK, NEW m \in Machines, NEW ref, Delete(m, ref, "nil")
  PROVE  /\ Deletable(ref) /\ reused' = reused
         /\ vms' = [vms EXCEPT ![ref.vmid].st = "deleting", ![ref.vmid].by = m]
         /\ task'[m] = [vmid |-> ref.vmid, exit |-> "running"]
<1>1. ~Fails(PostErrs, "nil") /\ DeleteRefusal(ref) # "nil"
  BY DEF Fails, PostErrs, DeleteRefusal
<1> QED
  BY <1>1 DEF Delete, Reply, ClusterTypeOK

\* task.go, WaitTask: with none of the excluded faults it returns only when
\* the task has ended, with its exit status.
LEMMA WaitTaskOutcome ==
  ASSUME Benign, NEW m \in Machines, NEW e, WaitTask(m, e)
  PROVE  SameVMs /\ budget' = budget /\ task[m].exit # "running" /\ e = task[m].exit
<1>1. Faults \cap {"timeout", "net", "dns", "poll"} = {}
  BY DEF Benign
<1> QED
  BY <1>1, InjectFaulty DEF WaitTask, SameVMs

-----------------------------------------------------------------------------

\* What all others and the cluster do to what m has left: a task ends. Nobody
\* else holds it, and operators neither move nor power it.
LEMMA LeftStays ==
  ASSUME Base, StepOK, Benign, reused \subseteq reused',
         NEW m \in Machines, Still(m), NEW id \in VMIDs \ reused',
         vms'[id].owner = m
  PROVE  /\ id \notin reused /\ vms[id].owner = m
         /\ vms'[id].node = vms[id].node /\ vms'[id].power = vms[id].power
         /\ \/ vms'[id].st = vms[id].st
            \/ vms[id].st = "cloning" /\ vms'[id].st = "idle"
            \/ vms[id].st = "deleting" /\ vms'[id].st = "idle" /\ Faulty
<1>1. ~Freed(id) /\ ~Appears(id)
  BY SentinelAssumption DEF Freed, FreeVM, Appears, Still
<1>2. Stays(id)
  BY <1>1 DEF StepOK, Evolves
<1>3. id \notin reused /\ vms[id].owner = m
  BY <1>2 DEF Stays
<1>4. ASSUME NEW k \in Machines, NEW steps, "post" \notin steps,
             Handles(k, steps, id)
      PROVE  FALSE
  <2>1. k = m
    BY <1>3, <1>4, HandlesOwn
  <2> QED
    BY <1>4, <2>1 DEF Handles, Still
<1>5. /\ \A k \in Machines : ~Handles(k, {"cleanDelete", "delete"}, id)
      /\ \A k \in Machines : ~Handles(k, {"start", "shutdown", "stop"}, id)
  BY <1>4
<1> QED
  BY <1>2, <1>3, <1>5 DEF Stays, Benign

\* So what is in m's hand stays there, and nothing is added.
LEMMA LeftBefore ==
  ASSUME Base, StepOK, Benign, reused \subseteq reused',
         NEW m \in Machines, Still(m)
  PROVE  /\ Bare(m) => Bare(m)'
         /\ \A ref, powers : InHand(m, ref, powers) =>
              \A id \in VMIDs \ reused' : vms'[id].owner = m =>
                 /\ id = ref.vmid /\ vms'[id].node = ref.node
                 /\ vms'[id].st = "idle" /\ vms'[id].power \in powers
<1>1. ASSUME NEW id \in VMIDs \ reused', vms'[id].owner = m
      PROVE  /\ id \in Left(m)
             /\ vms'[id].node = vms[id].node /\ vms'[id].power = vms[id].power
             /\ vms[id].st = "idle" => vms'[id].st = "idle"
  BY <1>1, LeftStays DEF Left
<1> QED
  BY <1>1 DEF Bare, Left, InHand

\* A delete task that runs after the fault ends well, and frees the VM.
LEMMA DyingStays ==
  ASSUME Base, StepOK, Benign, reused \subseteq reused', OneFault',
         NEW m \in Machines, Still(m), TaskStill(m),
         Dying(m), Fresh => Bare(m)
  PROVE  Dying(m)'
<1> SUFFICES ASSUME NEW id \in VMIDs \ reused', vms'[id].owner = m
             PROVE  /\ id = hnd'[m].vmid /\ vms'[id].st = "deleting"
                    /\ task'[m] = [vmid |-> id, exit |-> "running"]
  BY DEF Dying, Left
<1>1. /\ id \in Left(m)
      /\ \/ vms'[id].st = vms[id].st
         \/ vms[id].st = "cloning"
         \/ Faulty
  BY LeftStays DEF Left
<1>2. /\ id = hnd[m].vmid /\ vms[id].st = "deleting"
      /\ task[m] = [vmid |-> id, exit |-> "running"]
  BY <1>1 DEF Dying
<1>3. ~Faulty
  BY <1>1, FirstFault DEF Bare, Strikes, Base, TypeInv
<1>4. vms'[id].st = "deleting"
  BY <1>1, <1>2, <1>3
<1>5. task'[m] = task[m]
  BY <1>2, <1>3, <1>4 DEF TaskStill
<1> QED
  BY <1>2, <1>4, <1>5 DEF Still

\* The clone that m waits for becomes idle, or is gone, as its task ends.
LEMMA AwaitingStays ==
  ASSUME Base, StepOK, Benign, reused \subseteq reused', OneFault',
         PlaceInv', NEW m \in Machines, Still(m), TaskStill(m), Fresh' => Fresh,
         Awaiting(m)
  PROVE  Awaiting(m)'
<1>1. task'[m].vmid = hnd'[m].vmid
  BY DEF Awaiting, TaskStill, Still
<1>2. ASSUME NEW id \in VMIDs \ reused', vms'[id].owner = m
      PROVE  /\ id = hnd'[m].vmid /\ vms'[id].node = hnd'[m].node
             /\ vms'[id].power = "stopped"
             /\ vms'[id].st = "idle" \/ task'[m].exit = "running"
  <2>1. /\ id \in Left(m)
        /\ vms'[id].node = vms[id].node /\ vms'[id].power = vms[id].power
        /\ vms[id].st = "idle" => vms'[id].st = "idle"
    BY <1>2, LeftStays DEF Left
  <2>2. vms'[id].st # "free"
    BY <1>2, SentinelAssumption DEF PlaceInv, Blank
  <2> QED
    BY <2>1, <2>2 DEF Awaiting, Still, TaskStill
<1>3. ASSUME task'[m].exit \notin {"running", "nil"}, Fresh'
      PROVE  Bare(m)'
  <2>1. Fresh /\ ~Faulty
    BY <1>3, FirstFault DEF Strikes, Base, TypeInv
  <2>2. task'[m] = task[m]
    BY <1>3, <2>1 DEF TaskStill
  <2>3. Bare(m)
    BY <1>3, <2>1, <2>2 DEF Awaiting
  <2> QED
    BY <2>3, LeftBefore
<1> QED
  BY <1>1, <1>2, <1>3 DEF Awaiting, Left

\* A step of others preserves the invariant for m.
LEMMA StillLeft ==
  ASSUME Base, StepOK, Benign, reused \subseteq reused', OneFault', PlaceInv',
         NEW m \in Machines, Still(m), TaskStill(m), Fresh' => Fresh,
         CreateLeft(m), RemoveLeft(m)
  PROVE  CreateLeft(m)' /\ RemoveLeft(m)'
<1>1. Bare(m) => Bare(m)'
  BY LeftBefore
<1>2. ASSUME NEW powers, InHand(m, hnd[m], powers)
      PROVE  InHand(m, hnd[m], powers)'
  BY <1>2, LeftBefore DEF InHand, Left, Still
<1>3. ASSUME NEW powers, InHand(m, drv[m], powers)
      PROVE  InHand(m, drv[m], powers)'
  BY <1>3, LeftBefore DEF InHand, Left, Still
<1>4. Awaiting(m) => Awaiting(m)'
  BY AwaitingStays
<1>5. Dying(m) /\ (Fresh => Bare(m)) => Dying(m)'
  BY DyingStays
<1>6. CreateLeft(m)'
  BY <1>1, <1>2, <1>4, <1>5 DEF CreateLeft, Still, CleanSteps
<1>7. RemoveLeft(m)'
  BY <1>1, <1>2, <1>3, <1>5 DEF RemoveLeft, Still
<1> QED
  BY <1>6, <1>7

-----------------------------------------------------------------------------

\* A step of a job changes nothing of the other machines' processes and tasks.
LEMMA OthersStill ==
  ASSUME TypeInv, NEW k \in Machines, NEW m \in Machines \ {k},
         StartCreate(k) \/ ProcessStep(k) \/ StartRemove(k) \/ Crash(k)
  PROVE  Still(m) /\ task'[m] = task[m]
<1>0. ClusterTypeOK /\ ProcessTypeOK
  BY DEF TypeInv, ProcessInv
<1>1. ASSUME NEW rest, NEW saved, Exit(k, rest, saved) PROVE Still(m)
  BY <1>0, <1>1, ExitMove DEF Alone
<1>2. CreateFails(k) => Still(m)
  BY <1>1 DEF CreateFails
<1>3. ASSUME NEW ok, RemoveReturns(k, ok) PROVE Still(m)
  BY <1>1, <1>2, <1>3 DEF RemoveReturns
<1>4. ASSUME NEW step, Goto(k, step), UNCHANGED <<cfg>>,
             \A j \in Machines \ {k} :
               /\ drv'[j] = drv[j] /\ hnd'[j] = hnd[j] /\ ret'[j] = ret[j]
               /\ rows'[j] = rows[j]
      PROVE  Still(m)
  BY <1>0, <1>4 DEF Goto, Still, ProcessTypeOK
<1>5. ASSUME NEW ref, Found(k, ref) PROVE Still(m)
  BY <1>0, <1>3, <1>4, <1>5 DEF Found, ProcessTypeOK
<1>6. CASE CloneStep(k)
  <2>1. ASSUME NEW e, AttemptFails(k, e) PROVE Still(m)
    BY <1>0, <1>4, <2>1 DEF AttemptFails, locals, ProcessTypeOK
  <2>2. ASSUME NEW e, NEW caller, CleanUp(k, e, caller) PROVE Still(m)
    BY <1>0, <1>4, <2>2 DEF CleanUp, locals, ProcessTypeOK
  <2>3. CleanUpReturns(k) => Still(m)
    BY <1>2, <1>4 DEF CleanUpReturns, locals
  <2>4. Still(m)
    <3>1. CASE RandomFreeVMID(k) \/ CloneRequest(k) \/ AwaitClone(k) \/ CloneRetry(k)
      BY <1>0, <1>2, <1>4, <2>1, <2>2, <3>1
         DEF RandomFreeVMID, CloneRequest, AwaitClone, CloneRetry, locals, ProcessTypeOK
    <3>2. CASE CleanUpRead(k) \/ CleanUpDelete(k) \/ CleanUpWait(k)
      BY <1>4, <2>3, <3>2 DEF CleanUpRead, CleanUpDelete, CleanUpWait, locals
    <3>3. CASE ReadClone(k) \/ TagClone(k)
      BY <1>0, <1>4, <2>2, <3>3 DEF ReadClone, TagClone, locals, ProcessTypeOK
    <3> QED
      BY <1>6, <3>1, <3>2, <3>3 DEF CloneStep
  <2>5. TaskAlone(k)
    BY <1>0, <1>6, CallTasks
       DEF CloneStep, RandomFreeVMID, CloneRequest, AwaitClone, CloneRetry,
           CleanUpRead, CleanUpDelete, CleanUpWait, ReadClone, TagClone,
           ListVMs, GetVM, Fails, clusterVars, TaskAlone
  <2> QED
    BY <2>4, <2>5 DEF TaskAlone
<1>7. CASE ProvisionStep(k)
  <2>1. ProvisionFails(k) => Still(m)
    BY <1>0, <1>2, <1>4 DEF ProvisionFails, ProcessTypeOK
  <2>2. Still(m)
    BY <1>1, <1>4, <1>7, <2>1
       DEF ProvisionStep, ConfigureVM, ResizeVMDisk, StartVM, WaitForIP, Provision, locals
  <2>3. task' = task
    BY <1>7 DEF ProvisionStep, ConfigureVM, ResizeVMDisk, StartVM, WaitForIP, Provision,
                Modify, Fails, clusterVars
  <2> QED
    BY <2>2, <2>3
<1>8. CASE RemoveStep(k)
  <2>1. Still(m)
    <3>1. CASE LookupRecorded(k) \/ LookupList(k) \/ LookupFetch(k)
      BY <1>0, <1>3, <1>4, <1>5, <3>1
         DEF LookupRecorded, LookupList, LookupFetch, Gone, ProcessTypeOK
    <3>2. CASE FindList(k) \/ FindFetch(k) \/ FindNothing(k)
      <4>1. ASSUME NEW R, rows' = [rows EXCEPT ![k] = R],
                   UNCHANGED <<pc, drv, cfg, hnd, tries, err, ret>>
            PROVE  Still(m)
        BY <1>0, <4>1 DEF Still, ProcessTypeOK
      <4> QED
        BY <1>0, <1>3, <1>4, <1>5, <3>2, <4>1
           DEF FindList, FindFetch, FindNothing, Gone, ProcessTypeOK
    <3>3. CASE Shutdown(k) \/ Stop(k) \/ DeleteRequest(k) \/ DeleteWait(k)
               \/ DeleteRetry(k)
      BY <1>3, <1>4, <3>3
         DEF Shutdown, Stop, DeleteRequest, DeleteWait, DeleteRetry, DeleteFails
    <3> QED
      BY <1>8, <3>1, <3>2, <3>3 DEF RemoveStep
  <2>2. TaskAlone(k)
    BY <1>0, <1>8, CallTasks
       DEF RemoveStep, LookupRecorded, LookupList, LookupFetch, FindList,
           FindFetch, FindNothing, Shutdown, Stop, DeleteRequest, DeleteWait,
           DeleteRetry, ListVMs, GetVM, Fails, clusterVars, TaskAlone
  <2> QED
    BY <2>1, <2>2 DEF TaskAlone
<1>9. CASE StartCreate(k) \/ Forget(k) \/ StartRemove(k) \/ Crash(k)
  <2>1. Still(m)
    BY <1>0, <1>1, <1>2, <1>4, <1>9
       DEF StartCreate, Forget, StartRemove, Crash, locals, ProcessTypeOK
  <2>2. task'[m] = task[m]
    BY <1>0, <1>9 DEF StartCreate, Forget, StartRemove, Crash, ListVMs, Fails,
                      clusterVars, ClusterTypeOK
  <2> QED
    BY <2>1, <2>2
<1> QED
  BY <1>6, <1>7, <1>8, <1>9 DEF ProcessStep

-----------------------------------------------------------------------------

\* A VM that should be in hand and is not where it was is gone: the clean-up
\* may end there.
LEMMA NotInHand ==
  ASSUME NEW m, NEW ref, NEW powers, InHand(m, ref, powers),
         \/ ~At(ref)
         \/ vms[ref.vmid].st # "idle"
         \/ vms[ref.vmid].power \notin powers
         \/ powers = {"stopped"} /\ ~Deletable(ref)
  PROVE  Bare(m)
BY DEF InHand, Left, At, Deletable, Bare

\* A step that leaves the VMs alone hands over what it holds.
LEMMA SameHand ==
  ASSUME SameVMs, NEW m
  PROVE  /\ Bare(m) => Bare(m)'
         /\ \A powers :
              /\ InHand(m, hnd[m], powers) /\ hnd'[m] = hnd[m]
                   => InHand(m, hnd[m], powers)'
              /\ InHand(m, hnd[m], powers) /\ drv'[m] = hnd[m]
                   => InHand(m, drv[m], powers)'
              /\ InHand(m, drv[m], powers) /\ hnd'[m] = drv[m]
                   => InHand(m, hnd[m], powers)'
BY DEF SameVMs, Bare, InHand, Left

\* With nothing left, any point but those of provision will do.
LEMMA BareReaches ==
  ASSUME NEW m \in Machines, Bare(m)',
         pc'[m] \notin ProvisionSteps \cup {"post", "await"}
  PROVE  CreateLeft(m)' /\ RemoveLeft(m)'
<1>1. /\ InHand(m, hnd[m], {"stopped"})'
      /\ InHand(m, hnd[m], {"running", "stopped"})'
      /\ InHand(m, drv[m], {"running", "stopped"})'
  BY DEF Bare, InHand
<1>2. Dying(m)'
  BY DEF Bare, Dying
<1> QED
  BY <1>1, <1>2 DEF CreateLeft, RemoveLeft, ProvisionSteps

\* create.go and clone.go up to the clone request: nothing is left so far, and
\* a request that was accepted is waited for.
LEMMA CloneLeft ==
  ASSUME Base, Benign, OneFault', NEW m \in Machines, CreateLeft(m),
         RandomFreeVMID(m) \/ CloneRequest(m) \/ CloneRetry(m) \/ StartCreate(m)
  PROVE  CreateLeft(m)' /\ RemoveLeft(m)'
<1>0. ClusterTypeOK /\ ProcessTypeOK
  BY DEF Base, TypeInv, ProcessInv
<1>1. pc[m] \in {"new", "pick", "post", "retry"} /\ Bare(m)
  BY DEF RandomFreeVMID, CloneRequest, CloneRetry, StartCreate, CreateLeft
<1>2. ASSUME NEW e, AttemptFails(m, e) PROVE pc'[m] = "retry"
  BY <1>0, <1>2 DEF AttemptFails, Goto, ProcessTypeOK
<1>3. CreateFails(m) => pc'[m] = "failed"
  BY <1>0, ExitMove DEF CreateFails
<1>4. CASE RandomFreeVMID(m)
  <2>1. Bare(m)'
    BY <1>1, <1>4, ListVMsOutcome, SameHand DEF RandomFreeVMID
  <2>2. CASE \E e : AttemptFails(m, e)
    BY <1>2, <2>1, <2>2, BareReaches DEF ProvisionSteps
  <2>3. CASE /\ \E id \in FreeVMIDs :
                  hnd' = [hnd EXCEPT ![m] = [vmid |-> id, node |-> NodeOf[m]]]
             /\ Goto(m, "post")
    <3>1. pc'[m] = "post" /\ hnd'[m].node = NodeOf[m]
      BY <1>0, <2>3 DEF Goto, ProcessTypeOK
    <3> QED
      BY <2>1, <3>1 DEF CreateLeft, RemoveLeft, CleanSteps, ProvisionSteps, RemoveSteps
  <2> QED
    BY <1>4, <2>2, <2>3 DEF RandomFreeVMID
<1>5. CASE CloneRequest(m)
  <2> DEFINE id == hnd[m].vmid
             vm == [st |-> "cloning", owner |-> m, name |-> NameOf[m],
                    tagged |-> FALSE, power |-> "stopped",
                    node |-> NodeOf[m], by |-> m]
  <2>1. id \in VMIDs /\ hnd[m].node = NodeOf[m]
    BY <1>5 DEF CloneRequest, Base, TypeInv, ProcessInv, PickedVMID, CreateLeft
  <2>2. PICK e \in ErrClass :
          /\ Clone(m, id, e)
          /\ \/ e # "nil" /\ AttemptFails(m, e)
             \/ e = "nil" /\ Goto(m, "await") /\ UNCHANGED <<hnd, tries, err, ret, locals>>
    BY <1>5 DEF CloneRequest
  <2>3. CASE e # "nil"
    <3>1. SameVMs
      <4>1. "lost" \notin Faults
        BY DEF Benign
      <4> QED
        BY <2>2, <2>3, <4>1 DEF Clone, Reply, Inject, Fails, clusterVars, SameVMs
    <3> QED
      BY <1>1, <1>2, <2>2, <2>3, <3>1, SameHand, BareReaches DEF ProvisionSteps
  <2>4. CASE e = "nil"
    <3>1. /\ Claim(id, m, vm)
          /\ task' = [task EXCEPT ![m] = [vmid |-> id, exit |-> "running"]]
      BY <2>2, <2>4 DEF Clone, Reply, Fails, PostErrs
    <3>2. vms' = [vms EXCEPT ![id] = vm] /\ reused \subseteq reused'
      BY <3>1 DEF Claim
    <3>3. /\ vm.node = NodeOf[m] /\ vm.power = "stopped"
      OBVIOUS
    <3> HIDE DEF vm
    <3>4. task'[m].vmid = id /\ task'[m].exit = "running"
      BY <1>0, <3>1 DEF ClusterTypeOK
    <3>5. pc'[m] = "await" /\ hnd'[m] = hnd[m]
      BY <1>0, <2>2, <2>4 DEF Goto, ProcessTypeOK
    <3>6. ASSUME NEW i \in VMIDs \ reused', vms'[i].owner = m
          PROVE  i = id /\ vms'[i].node = NodeOf[m] /\ vms'[i].power = "stopped"
      BY <1>0, <1>1, <3>2, <3>3, <3>6 DEF ClusterTypeOK, Bare, Left
    <3>7. Awaiting(m)'
      BY <2>1, <3>4, <3>5, <3>6 DEF Awaiting, Left
    <3> QED
      BY <3>5, <3>7 DEF CreateLeft, RemoveLeft, CleanSteps, ProvisionSteps, RemoveSteps
  <2> QED
    BY <2>3, <2>4
<1>6. CASE CloneRetry(m) \/ StartCreate(m)
  <2>1. Bare(m)'
    BY <1>1, <1>6, ListVMsOutcome, SameHand
       DEF CloneRetry, StartCreate, SameVMs, clusterVars
  <2>2. pc'[m] \in {"failed", "pick"}
    BY <1>0, <1>3, <1>6 DEF CloneRetry, StartCreate, Goto, ProcessTypeOK
  <2> QED
    BY <2>1, <2>2, BareReaches DEF ProvisionSteps
<1> QED
  BY <1>4, <1>5, <1>6

\* The points at which the handle leads to a stopped VM.
LEMMA HeldReaches ==
  ASSUME NEW m \in Machines, InHand(m, hnd[m], {"stopped"})',
         \/ pc'[m] \in {"read", "tag"}
         \/ pc'[m] \in {"config", "resize", "start"} /\ drv'[m] = hnd'[m]
         \/ /\ pc'[m] \in {"cleanRead", "cleanDelete"} \/ pc'[m] = "delete"
            /\ Fresh' => Bare(m)'
  PROVE  CreateLeft(m)' /\ RemoveLeft(m)'
BY DEF CreateLeft, RemoveLeft, CleanSteps, ProvisionSteps, RemoveSteps

\* clone.go: the wait for the clone and the read after it.
LEMMA AwaitLeft ==
  ASSUME Base, Benign, OneFault', NEW m \in Machines, CreateLeft(m),
         Fresh' => Fresh, AwaitClone(m) \/ ReadClone(m)
  PROVE  CreateLeft(m)' /\ RemoveLeft(m)'
<1>0. ClusterTypeOK /\ ProcessTypeOK
  BY DEF Base, TypeInv, ProcessInv
<1>1. ASSUME NEW e, NEW caller, CleanUp(m, e, caller)
      PROVE  pc'[m] = "cleanRead" /\ hnd'[m] = hnd[m]
  BY <1>0, <1>1, CleanUpMove DEF CleanUp
<1>2. CASE AwaitClone(m)
  <2>1. PICK e \in ErrClass :
          /\ WaitTask(m, e)
          /\ \/ e # "nil" /\ CleanUp(m, e, "retry")
             \/ e = "nil" /\ Goto(m, "read") /\ UNCHANGED <<hnd, tries, err, ret, locals>>
    BY <1>2 DEF AwaitClone
  <2>2. SameVMs /\ task[m].exit # "running" /\ e = task[m].exit
    BY <2>1, WaitTaskOutcome
  <2>3. Awaiting(m)
    BY <1>2 DEF AwaitClone, CreateLeft
  <2>4. InHand(m, hnd[m], {"stopped"})
    BY <2>2, <2>3 DEF Awaiting, InHand
  <2>5. hnd'[m] = hnd[m] /\ pc'[m] = IF e = "nil" THEN "read" ELSE "cleanRead"
    BY <1>0, <1>1, <2>1 DEF Goto, ProcessTypeOK
  <2>6. InHand(m, hnd[m], {"stopped"})'
    BY <2>2, <2>4, <2>5, SameHand
  <2>7. e # "nil" => (Fresh' => Bare(m)')
    BY <2>2, <2>3, SameHand DEF Awaiting
  <2> QED
    BY <2>5, <2>6, <2>7, HeldReaches
<1>3. CASE ReadClone(m)
  <2>1. PICK e \in ErrClass :
          /\ GetVM(hnd[m], e)
          /\ \/ e # "nil" /\ CleanUp(m, e, "create")
             \/ e = "nil" /\ Goto(m, "tag") /\ UNCHANGED <<hnd, tries, err, ret, locals>>
    BY <1>3 DEF ReadClone
  <2>2. SameVMs /\ (e # "nil" => ~At(hnd[m]) \/ Strikes)
    BY <1>0, <2>1, GetVMOutcome
  <2>3. InHand(m, hnd[m], {"stopped"})
    BY <1>3 DEF ReadClone, CreateLeft
  <2>4. hnd'[m] = hnd[m] /\ pc'[m] = IF e = "nil" THEN "tag" ELSE "cleanRead"
    BY <1>0, <1>1, <2>1 DEF Goto, ProcessTypeOK
  <2>5. InHand(m, hnd[m], {"stopped"})'
    BY <2>2, <2>3, <2>4, SameHand
  <2>6. e # "nil" => (Fresh' => Bare(m)')
    BY <2>2, <2>3, SameHand, NotInHand DEF Strikes
  <2> QED
    BY <2>4, <2>5, <2>6, HeldReaches
<1> QED
  BY <1>2, <1>3

\* clone.go: writing the tag, after which the VMID is recorded.
LEMMA TagLeftOver ==
  ASSUME Base, Benign, OneFault', NEW m \in Machines, CreateLeft(m), TagClone(m)
  PROVE  CreateLeft(m)' /\ RemoveLeft(m)'
<1> DEFINE vm == [vms[hnd[m].vmid] EXCEPT !.tagged = TRUE]
<1>0. ClusterTypeOK /\ ProcessTypeOK
  BY DEF Base, TypeInv, ProcessInv
<1>1. InHand(m, hnd[m], {"stopped"})
  BY DEF TagClone, CreateLeft
<1>2. PICK e \in ErrClass :
        /\ Modify(hnd[m], vm, e)
        /\ \/ e # "nil" /\ CleanUp(m, e, "create")
           \/ /\ e = "nil" /\ Goto(m, "config")
              /\ drv' = [drv EXCEPT ![m] = hnd[m]]
              /\ UNCHANGED <<cfg, hnd, tries, err, ret, rows>>
  BY DEF TagClone
<1>3. CASE e # "nil"
  <2>1. /\ SameVMs
        /\ ~(At(hnd[m]) /\ vms[hnd[m].vmid].st = "idle") \/ Strikes
    BY <1>0, <1>2, <1>3, ModifyOutcome DEF SameVMs
  <2>2. pc'[m] = "cleanRead" /\ hnd'[m] = hnd[m]
    BY <1>0, <1>2, <1>3, CleanUpMove DEF CleanUp
  <2>3. InHand(m, hnd[m], {"stopped"})'
    BY <1>1, <2>1, <2>2, SameHand
  <2>4. Fresh' => Bare(m)'
    BY <1>1, <2>1, SameHand, NotInHand DEF Strikes
  <2> QED
    BY <2>2, <2>3, <2>4, HeldReaches
<1>4. CASE e = "nil"
  <2>1. /\ reused' = reused /\ hnd[m].vmid \in VMIDs
        /\ vms' = [vms EXCEPT ![hnd[m].vmid] = vm]
    BY <1>0, <1>2, <1>4, ModifyOutcome
  <2>2. vms[hnd[m].vmid] \in VM
    BY <1>0, <2>1 DEF ClusterTypeOK
  <2>3. vm.owner = vms[hnd[m].vmid].owner /\ vm.node = vms[hnd[m].vmid].node
        /\ vm.st = vms[hnd[m].vmid].st /\ vm.power = vms[hnd[m].vmid].power
    BY <2>2 DEF VM
  <2>4. pc'[m] = "config" /\ hnd'[m] = hnd[m] /\ drv'[m] = hnd[m]
    BY <1>0, <1>2, <1>4 DEF Goto, ProcessTypeOK
  <2> HIDE DEF vm
  <2>5. InHand(m, hnd[m], {"stopped"})'
    BY <1>0, <1>1, <2>1, <2>3, <2>4 DEF InHand, Left, ClusterTypeOK
  <2> QED
    BY <2>4, <2>5, HeldReaches
<1> QED
  BY <1>3, <1>4

\* A delete request that was accepted for the VM in hand.
LEMMA AcceptedDying ==
  ASSUME ClusterTypeOK, NEW m \in Machines, InHand(m, hnd[m], {"stopped"}),
         Deletable(hnd[m]), reused' = reused, hnd'[m] = hnd[m],
         vms' = [vms EXCEPT ![hnd[m].vmid].st = "deleting", ![hnd[m].vmid].by = m],
         task'[m] = [vmid |-> hnd[m].vmid, exit |-> "running"]
  PROVE  Dying(m)' /\ (Bare(m) => Bare(m)')
<1>1. hnd[m].vmid \in VMIDs
  BY DEF Deletable, At
<1>2. vms[hnd[m].vmid] \in VM
  BY <1>1 DEF ClusterTypeOK
<1>3. /\ vms'[hnd[m].vmid].st = "deleting"
      /\ vms'[hnd[m].vmid].owner = vms[hnd[m].vmid].owner
      /\ \A i \in VMIDs : i # hnd[m].vmid => vms'[i] = vms[i]
  BY <1>1, <1>2 DEF ClusterTypeOK, VM
<1>4. ASSUME NEW i \in VMIDs \ reused', vms'[i].owner = m
      PROVE  i \in Left(m)
  BY <1>3, <1>4 DEF Left
<1>5. ASSUME NEW i \in VMIDs \ reused', vms'[i].owner = m
      PROVE  i = hnd[m].vmid
  BY <1>4, <1>5 DEF InHand
<1> QED
  BY <1>3, <1>4, <1>5 DEF Dying, Left, Bare

\* When the delete task has ended nothing is left.
LEMMA DyingEnds ==
  ASSUME NEW m, Dying(m), task[m].exit # "running"
  PROVE  Bare(m)
<1> SUFFICES ASSUME NEW id \in Left(m) PROVE FALSE
  BY DEF Bare
<1>1. task[m] = [vmid |-> id, exit |-> "running"]
  BY DEF Dying
<1> QED
  BY <1>1

\* clone.go, bestEffortDelete: it gives up only when nothing is left.
LEMMA CleanUpLeft ==
  ASSUME Base, Benign, OneFault', NEW m \in Machines, CreateLeft(m),
         Fresh' => Fresh,
         CleanUpRead(m) \/ CleanUpDelete(m) \/ CleanUpWait(m)
  PROVE  CreateLeft(m)' /\ RemoveLeft(m)'
<1>0. ClusterTypeOK /\ ProcessTypeOK
  BY DEF Base, TypeInv, ProcessInv
<1>1. pc[m] \in CleanSteps /\ (Fresh => Bare(m))
  BY DEF CleanUpRead, CleanUpDelete, CleanUpWait, CreateLeft, CleanSteps
<1>2. CleanUpReturns(m) => pc'[m] \in {"retry", "failed"}
  BY <1>0, ExitMove DEF CleanUpReturns, CreateFails, Goto, ProcessTypeOK
<1>3. CASE CleanUpRead(m)
  <2>1. PICK e \in ErrClass :
          /\ GetVM(hnd[m], e)
          /\ \/ e # "nil" /\ CleanUpReturns(m)
             \/ e = "nil" /\ Goto(m, "cleanDelete") /\ UNCHANGED <<hnd, tries, err, ret, locals>>
    BY <1>3 DEF CleanUpRead
  <2>2. SameVMs /\ (e # "nil" => ~At(hnd[m]) \/ Strikes)
    BY <1>0, <2>1, GetVMOutcome
  <2>3. InHand(m, hnd[m], {"stopped"})
    BY <1>3 DEF CleanUpRead, CreateLeft
  <2>4. CASE e # "nil"
    <3>1. Bare(m)'
      BY <1>1, <2>2, <2>3, <2>4, SameHand, NotInHand DEF Strikes
    <3> QED
      BY <1>2, <2>1, <2>4, <3>1, BareReaches DEF ProvisionSteps
  <2>5. CASE e = "nil"
    <3>1. pc'[m] = "cleanDelete" /\ hnd'[m] = hnd[m]
      BY <1>0, <2>1, <2>5 DEF Goto, ProcessTypeOK
    <3>2. InHand(m, hnd[m], {"stopped"})' /\ (Fresh' => Bare(m)')
      BY <1>1, <2>2, <2>3, <3>1, SameHand
    <3> QED
      BY <3>1, <3>2, HeldReaches
  <2> QED
    BY <2>4, <2>5
<1>4. CASE CleanUpDelete(m)
  <2>1. PICK e \in ErrClass :
          /\ Delete(m, hnd[m], e)
          /\ \/ e # "nil" /\ CleanUpReturns(m)
             \/ e = "nil" /\ Goto(m, "cleanWait") /\ UNCHANGED <<hnd, tries, err, ret, locals>>
    BY <1>4 DEF CleanUpDelete
  <2>2. InHand(m, hnd[m], {"stopped"})
    BY <1>4 DEF CleanUpDelete, CreateLeft
  <2>3. CASE e # "nil"
    <3>1. SameVMs /\ (~Deletable(hnd[m]) \/ Strikes)
      BY <1>0, <2>1, <2>3, DeleteRefused
    <3>2. Bare(m)'
      BY <1>1, <2>2, <3>1, SameHand, NotInHand DEF Strikes
    <3> QED
      BY <1>2, <2>1, <2>3, <3>2, BareReaches DEF ProvisionSteps
  <2>4. CASE e = "nil"
    <3>1. pc'[m] = "cleanWait" /\ hnd'[m] = hnd[m]
      BY <1>0, <2>1, <2>4 DEF Goto, ProcessTypeOK
    <3>2. Dying(m)' /\ (Bare(m) => Bare(m)')
      BY <1>0, <2>1, <2>2, <2>4, <3>1, DeleteStarts, AcceptedDying
    <3> QED
      BY <1>1, <3>1, <3>2 DEF CreateLeft, RemoveLeft, CleanSteps, ProvisionSteps, RemoveSteps
  <2> QED
    BY <2>3, <2>4
<1>5. CASE CleanUpWait(m)
  <2>1. SameVMs /\ task[m].exit # "running" /\ CleanUpReturns(m)
    BY <1>5, WaitTaskOutcome DEF CleanUpWait
  <2>2. Dying(m)
    BY <1>5 DEF CleanUpWait, CreateLeft
  <2>3. Bare(m)
    BY <2>1, <2>2, DyingEnds
  <2>4. Bare(m)'
    BY <2>1, <2>3, SameHand
  <2> QED
    BY <1>2, <2>1, <2>4, BareReaches DEF ProvisionSteps
<1> QED
  BY <1>3, <1>4, <1>5

\* Create calls Remove with the recorded VM as what is left.
LEMMA LookupReaches ==
  ASSUME NEW m \in Machines, pc'[m] = "lookup",
         InHand(m, drv[m], {"running", "stopped"})', Fresh' => Bare(m)'
  PROVE  CreateLeft(m)' /\ RemoveLeft(m)'
BY DEF CreateLeft, RemoveLeft, CleanSteps, ProvisionSteps

\* Remove takes a VM whether it runs or not.
LEMMA WiderHand ==
  ASSUME NEW m, NEW ref, NEW powers \in SUBSET {"running", "stopped"},
         InHand(m, ref, powers)
  PROVE  InHand(m, ref, {"running", "stopped"})
BY DEF InHand

\* create.go: a step of provision has failed.
LEMMA ProvisionFailsLeft ==
  ASSUME ProcessTypeOK, NEW m \in Machines \ KeepOnFailure, ProvisionFails(m),
         drv[m] = hnd[m], SameVMs,
         NEW powers \in SUBSET {"running", "stopped"}, InHand(m, hnd[m], powers),
         Fresh' => Bare(m)
  PROVE  CreateLeft(m)' /\ RemoveLeft(m)'
<1>1. pc'[m] = "lookup" /\ drv'[m] = hnd[m]
  BY DEF ProvisionFails, Goto, ProcessTypeOK
<1>2. InHand(m, drv[m], {"running", "stopped"})'
  BY <1>1, WiderHand, SameHand
<1> QED
  BY <1>1, <1>2, SameHand, LookupReaches

\* create.go, provision: configuring, starting, waiting for the address.
LEMMA ProvisionLeft ==
  ASSUME Base, Benign, OneFault', NEW m \in Machines \ KeepOnFailure,
         CreateLeft(m), ProvisionStep(m)
  PROVE  CreateLeft(m)' /\ RemoveLeft(m)'
<1>0. ClusterTypeOK /\ ProcessTypeOK
  BY DEF Base, TypeInv, ProcessInv
<1>1. drv[m] = hnd[m]
  BY DEF ProvisionStep, ConfigureVM, ResizeVMDisk, StartVM, WaitForIP, CreateLeft, ProvisionSteps
<1>2. ASSUME NEW vm, NEW step, Provision(m, vm, step), InHand(m, hnd[m], {"stopped"})
      PROVE  \/ CreateLeft(m)' /\ RemoveLeft(m)'
             \/ /\ pc'[m] = step /\ hnd'[m] = hnd[m] /\ drv'[m] = hnd'[m]
                /\ reused' = reused /\ hnd[m].vmid \in VMIDs
                /\ vms' = [vms EXCEPT ![hnd[m].vmid] = vm]
  <2>1. PICK e \in ErrClass :
          /\ Modify(hnd[m], vm, e)
          /\ \/ e # "nil" /\ ProvisionFails(m)
             \/ e = "nil" /\ Goto(m, step) /\ UNCHANGED <<hnd, tries, err, ret, locals>>
    BY <1>2 DEF Provision
  <2>2. CASE e # "nil"
    <3>1. /\ SameVMs
          /\ ~(At(hnd[m]) /\ vms[hnd[m].vmid].st = "idle") \/ Strikes
      BY <1>0, <2>1, <2>2, ModifyOutcome DEF SameVMs
    <3>2. Fresh' => Bare(m)
      BY <1>2, <3>1, NotInHand DEF Strikes
    <3> QED
      BY <1>0, <1>1, <1>2, <2>1, <2>2, <3>1, <3>2, ProvisionFailsLeft
  <2>3. CASE e = "nil"
    <3>1. /\ reused' = reused /\ hnd[m].vmid \in VMIDs
          /\ vms' = [vms EXCEPT ![hnd[m].vmid] = vm]
      BY <1>0, <2>1, <2>3, ModifyOutcome
    <3>2. pc'[m] = step /\ hnd'[m] = hnd[m] /\ drv'[m] = hnd'[m]
      BY <1>0, <1>1, <2>1, <2>3 DEF Goto, ProcessTypeOK, locals
    <3> QED
      BY <3>1, <3>2
  <2> QED
    BY <2>2, <2>3
<1>3. CASE ConfigureVM(m) \/ ResizeVMDisk(m)
  <2>1. PICK step \in {"resize", "start"} :
          InHand(m, hnd[m], {"stopped"}) /\ Provision(m, vms[hnd[m].vmid], step)
    BY <1>3 DEF ConfigureVM, ResizeVMDisk, CreateLeft
  <2>2. CASE /\ pc'[m] = step /\ hnd'[m] = hnd[m] /\ drv'[m] = hnd'[m]
             /\ reused' = reused /\ hnd[m].vmid \in VMIDs
             /\ vms' = [vms EXCEPT ![hnd[m].vmid] = vms[hnd[m].vmid]]
    <3>1. SameVMs
      BY <1>0, <2>2 DEF ClusterTypeOK, SameVMs
    <3> QED
      BY <2>1, <2>2, <3>1, SameHand, HeldReaches
  <2> QED
    BY <1>2, <2>1, <2>2
<1>4. CASE StartVM(m)
  <2> DEFINE vm == [vms[hnd[m].vmid] EXCEPT !.power = "running"]
  <2>1. InHand(m, hnd[m], {"stopped"}) /\ Provision(m, vm, "waitip")
    BY <1>4 DEF StartVM, CreateLeft
  <2>2. CASE /\ pc'[m] = "waitip" /\ hnd'[m] = hnd[m] /\ drv'[m] = hnd'[m]
             /\ reused' = reused /\ hnd[m].vmid \in VMIDs
             /\ vms' = [vms EXCEPT ![hnd[m].vmid] = vm]
    <3>1. vms[hnd[m].vmid] \in VM
      BY <1>0, <2>2 DEF ClusterTypeOK
    <3>2. vm.owner = vms[hnd[m].vmid].owner /\ vm.node = vms[hnd[m].vmid].node
          /\ vm.st = vms[hnd[m].vmid].st /\ vm.power = "running"
      BY <3>1 DEF VM
    <3> HIDE DEF vm
    <3>3. InHand(m, hnd[m], {"running"})'
      BY <1>0, <2>1, <2>2, <3>2 DEF InHand, Left, ClusterTypeOK
    <3> QED
      BY <2>2, <3>3 DEF CreateLeft, RemoveLeft, CleanSteps, RemoveSteps
  <2> HIDE DEF vm
  <2> QED
    BY <1>2, <2>1, <2>2
<1>5. CASE WaitForIP(m)
  <2>1. InHand(m, hnd[m], {"running"})
    BY <1>5 DEF WaitForIP, CreateLeft
  <2>2. CASE Exit(m, "up", drv[m])
    <3>1. pc'[m] = "up"
      BY <1>0, <2>2, ExitMove
    <3> QED
      BY <3>1 DEF CreateLeft, RemoveLeft, CleanSteps, ProvisionSteps, RemoveSteps
  <2>3. CASE /\ ~(At(hnd[m]) /\ IsRunning(hnd[m]))
             /\ UNCHANGED clusterVars
             /\ ProvisionFails(m)
    <3>1. Bare(m) /\ SameVMs
      BY <2>1, <2>3, NotInHand DEF IsRunning, SameVMs, clusterVars
    <3> QED
      BY <1>0, <1>1, <2>1, <2>3, <3>1, ProvisionFailsLeft
  <2>4. CASE /\ \E e \in ReadErrs \cup {"noip"} : Inject(e)
             /\ UNCHANGED <<vms, task, first, reused>>
             /\ ProvisionFails(m)
    <3>1. Strikes /\ SameVMs
      BY <1>0, <2>4, InjectFaulty, FirstFault DEF SameVMs
    <3> QED
      BY <1>0, <1>1, <2>1, <2>4, <3>1, ProvisionFailsLeft DEF Strikes
  <2> QED
    BY <1>5, <2>2, <2>3, <2>4 DEF WaitForIP
<1> QED
  BY <1>3, <1>4, <1>5 DEF ProvisionStep

\* Where nothing is left, only a clone request of m changes that.
LEMMA BareStays ==
  ASSUME StepOK, reused \subseteq reused', NEW m \in Machines, pc[m] # "post", Bare(m)
  PROVE  Bare(m)'
<1> SUFFICES ASSUME NEW id \in VMIDs \ reused', vms'[id].owner = m PROVE FALSE
  BY DEF Bare, Left
<1>1. ~Freed(id) /\ ~Appears(id)
  BY SentinelAssumption DEF Freed, FreeVM, Appears
<1>2. vms[id].owner = m
  BY <1>1 DEF StepOK, Evolves, Stays
<1> QED
  BY <1>2 DEF Bare, Left

\* Where a step of Remove leads.
LEMMA RemoveMoves ==
  ASSUME NEW m \in Machines, Still(m) \/ MoveOf(m), pc[m] \in RemoveSteps
  PROVE  \/ pc'[m] \in RemoveSteps /\ ret'[m] = ret[m]
         \/ pc'[m] = "failed" /\ ret[m] = "create"
         \/ pc'[m] \in {"rmfailed", "removed", "crashed"}
<1>1. /\ pc[m] \notin {"new", "retry", "tag", "waitip", "removed"} \cup CloneSteps
      /\ pc[m] \notin {"up", "failed", "crashed", "rmfailed"} \cup ProvisionSteps
  BY DEF RemoveSteps, CloneSteps, ProvisionSteps
<1>2. ~Cloning(m) /\ ~Discards(m)
  BY <1>1 DEF Cloning, Discards, CloneSteps, CleanSteps
<1>3. CASE RemoveGoesOn(m)
  BY <1>3 DEF RemoveGoesOn, Searches, Finds, Destroys, HoldSteps, RemoveSteps
<1>4. CASE CreateEnds(m)
  BY <1>1, <1>2, <1>4 DEF CreateEnds
<1>5. ~(Begins(m) \/ Clones(m) \/ Abandons(m) \/ Tags(m) \/ Provisions(m)
        \/ ComesUp(m) \/ EntersRemove(m) \/ Forgets(m))
  BY <1>1, <1>2 DEF Begins, Clones, Abandons, Tags, Provisions, ComesUp,
                    EntersRemove, Forgets, ProvisionSteps
<1> QED
  BY <1>3, <1>4, <1>5 DEF MoveOf, Still, RemoveFails, RemoveSucceeds, Dies

\* Which step of Remove is taken at which point.
LEMMA RemoveStepAt ==
  ASSUME NEW m \in Machines, RemoveStep(m)
  PROVE  /\ pc[m] \in RemoveSteps
         /\ pc[m] = "lookup" /\ drv[m].vmid # NoVMID => LookupRecorded(m)
         /\ pc[m] \in {"shutdown", "stop"} => Shutdown(m) \/ Stop(m)
         /\ pc[m] = "delete" => DeleteRequest(m)
         /\ pc[m] = "deleteWait" => DeleteWait(m)
<1>1. /\ LookupRecorded(m) \/ FindList(m) => pc[m] = "lookup"
      /\ FindList(m) => drv[m].vmid = NoVMID
      /\ LookupList(m) => pc[m] = "list"
      /\ LookupFetch(m) => pc[m] = "fetch"
      /\ FindFetch(m) \/ FindNothing(m) => pc[m] = "scan"
  BY DEF LookupRecorded, LookupList, LookupFetch, FindList, FindFetch, FindNothing
<1>2. /\ Shutdown(m) => pc[m] = "shutdown"
      /\ Stop(m) => pc[m] = "stop"
      /\ DeleteRequest(m) => pc[m] = "delete"
      /\ DeleteWait(m) => pc[m] = "deleteWait"
      /\ DeleteRetry(m) => pc[m] = "deleteRetry"
  BY DEF Shutdown, Stop, DeleteRequest, DeleteWait, DeleteRetry
<1> QED
  BY <1>1, <1>2 DEF RemoveStep, RemoveSteps

\* remove.go: as long as something is left, the fault has happened, so that
\* the lookup finds it, the shutdown stops it and the delete is accepted.
LEMMA RemoveStepLeft ==
  ASSUME Base, Benign, StepOK, reused \subseteq reused', OneFault', Fresh' => Fresh,
         NEW m \in Machines, RemoveLeft(m), RemoveStep(m)
  PROVE  CreateLeft(m)' /\ RemoveLeft(m)'
<1>0. ClusterTypeOK /\ ProcessTypeOK
  BY DEF Base, TypeInv, ProcessInv
<1>1. pc[m] \in RemoveSteps
  BY RemoveStepAt
<1>2. \/ pc'[m] \in RemoveSteps /\ ret'[m] = ret[m]
      \/ pc'[m] = "failed" /\ ret[m] = "create"
      \/ pc'[m] \in {"rmfailed", "removed", "crashed"}
  BY <1>1, StillOrMoves, RemoveMoves
<1>3. CASE ret[m] # "create"
  BY <1>2, <1>3 DEF CreateLeft, RemoveLeft, RemoveSteps, CleanSteps, ProvisionSteps
<1>4. CASE ret[m] = "create" /\ Bare(m)
  <2>1. Bare(m)'
    BY <1>1, <1>4, BareStays DEF RemoveSteps
  <2> QED
    BY <1>2, <2>1, BareReaches DEF RemoveSteps, ProvisionSteps
<1>5. CASE ret[m] = "create" /\ ~Bare(m)
  <2>1. ~Fresh /\ ~Strikes /\ ~Fresh'
    BY <1>1, <1>5 DEF RemoveLeft, Strikes
  <2>2. pc[m] \in {"lookup", "shutdown", "stop", "delete", "deleteWait"}
    BY <1>1, <1>5 DEF RemoveLeft, RemoveSteps
  <2>3. PICK id \in Left(m) : TRUE
    BY <1>5 DEF Bare
  <2>4. CASE pc[m] = "lookup"
    <3>1. InHand(m, drv[m], {"running", "stopped"})
      BY <1>1, <1>5, <2>4 DEF RemoveLeft
    <3>2. id = drv[m].vmid /\ id # NoVMID /\ vms[id].owner = m
      BY <2>3, <3>1, SentinelAssumption DEF InHand, Left
    <3>3. HasTag(drv[m])
      BY <3>2 DEF HasTag, Base, RecordInv, RecordTagged
    <3>4. PICK e \in ErrClass :
            /\ GetVM(drv[m], e)
            /\ \/ e = "nil" /\ Found(m, drv[m])
               \/ e # "nil"
      <4>1. LookupRecorded(m)
        BY <2>4, <3>2, RemoveStepAt
      <4> QED
        BY <4>1 DEF LookupRecorded, IsNotFoundErr
    <3>5. SameVMs /\ Found(m, drv[m])
      BY <1>0, <1>5, <2>1, <3>1, <3>4, GetVMOutcome, NotInHand
    <3>6. /\ pc'[m] = IF IsRunning(drv[m]) THEN "shutdown" ELSE "delete"
          /\ hnd'[m] = drv[m]
      BY <1>0, <3>3, <3>5 DEF Found, Goto, ProcessTypeOK
    <3>7. CASE IsRunning(drv[m])
      BY <2>1, <3>1, <3>5, <3>6, <3>7, SameHand
         DEF CreateLeft, RemoveLeft, CleanSteps, ProvisionSteps
    <3>8. CASE ~IsRunning(drv[m])
      <4>1. InHand(m, drv[m], {"stopped"})
        BY <3>1, <3>8 DEF InHand, IsRunning
      <4> QED
        BY <2>1, <3>5, <3>6, <3>8, <4>1, SameHand, HeldReaches
    <3> QED
      BY <3>7, <3>8
  <2>5. CASE pc[m] \in {"shutdown", "stop"}
    <3> DEFINE vm == PoweredOff(hnd[m])
    <3>1. InHand(m, hnd[m], {"running", "stopped"})
      BY <1>1, <1>5, <2>5 DEF RemoveLeft
    <3>2. PICK e \in ErrClass :
            /\ Modify(hnd[m], vm, e)
            /\ e = "nil" => Goto(m, "delete") /\ UNCHANGED hnd
      BY <2>5, RemoveStepAt DEF Shutdown, Stop
    <3>3. e = "nil"
      BY <1>0, <1>5, <2>1, <3>1, <3>2, ModifyOutcome, NotInHand
    <3>4. /\ reused' = reused /\ hnd[m].vmid \in VMIDs
          /\ vms' = [vms EXCEPT ![hnd[m].vmid] = vm]
      BY <1>0, <3>2, <3>3, ModifyOutcome
    <3>5. vms[hnd[m].vmid] \in VM
      BY <1>0, <3>4 DEF ClusterTypeOK
    <3>6. vm.owner = vms[hnd[m].vmid].owner /\ vm.node = vms[hnd[m].vmid].node
          /\ vm.st = vms[hnd[m].vmid].st /\ vm.power = "stopped"
      BY <3>5 DEF VM, PoweredOff
    <3>7. pc'[m] = "delete" /\ hnd'[m] = hnd[m]
      BY <1>0, <3>2, <3>3 DEF Goto, ProcessTypeOK
    <3> HIDE DEF vm
    <3>8. InHand(m, hnd[m], {"stopped"})'
      BY <1>0, <3>1, <3>4, <3>6, <3>7 DEF InHand, Left, ClusterTypeOK
    <3> QED
      BY <2>1, <3>7, <3>8, HeldReaches
  <2>6. CASE pc[m] = "delete"
    <3>1. InHand(m, hnd[m], {"stopped"})
      BY <1>1, <1>5, <2>6 DEF RemoveLeft
    <3>2. PICK e \in ErrClass :
            /\ Delete(m, hnd[m], e)
            /\ e = "nil" => Goto(m, "deleteWait") /\ UNCHANGED hnd
      BY <2>6, RemoveStepAt DEF DeleteRequest
    <3>3. e = "nil"
      BY <1>0, <1>5, <2>1, <3>1, <3>2, DeleteRefused, NotInHand
    <3>4. pc'[m] = "deleteWait" /\ hnd'[m] = hnd[m]
      BY <1>0, <3>2, <3>3 DEF Goto, ProcessTypeOK
    <3>5. Dying(m)'
      BY <1>0, <3>1, <3>2, <3>3, <3>4, DeleteStarts, AcceptedDying
    <3> QED
      BY <2>1, <3>4, <3>5 DEF CreateLeft, RemoveLeft, CleanSteps, ProvisionSteps
  <2>7. CASE pc[m] = "deleteWait"
    <3>1. \E e \in ErrClass : WaitTask(m, e)
      BY <2>7, RemoveStepAt DEF DeleteWait
    <3>2. Dying(m) /\ task[m].exit # "running"
      BY <1>1, <1>5, <2>7, <3>1, WaitTaskOutcome DEF RemoveLeft
    <3> QED
      BY <1>5, <3>2, DyingEnds
  <2> QED
    BY <2>2, <2>4, <2>5, <2>6, <2>7
<1> QED
  BY <1>3, <1>4, <1>5

\* The rm jobs, Rancher's forgetting and a crash end Create's promise.
LEMMA RancherLeft ==
  ASSUME Base, NEW m \in Machines, StartRemove(m) \/ Forget(m) \/ Crash(m)
  PROVE  CreateLeft(m)' /\ RemoveLeft(m)'
<1>0. ProcessTypeOK
  BY DEF Base, TypeInv, ProcessInv
<1>1. CASE StartRemove(m)
  <2>1. pc'[m] = "lookup" /\ ret'[m] = "rancher"
    BY <1>0, <1>1 DEF StartRemove, Goto, ProcessTypeOK
  <2> QED
    BY <2>1 DEF CreateLeft, RemoveLeft, CleanSteps, ProvisionSteps
<1>2. CASE Forget(m) \/ Crash(m)
  <2>1. pc'[m] \in {"gone", "crashed"}
    BY <1>0, <1>2, ExitMove DEF Forget, Crash
  <2> QED
    BY <2>1 DEF CreateLeft, RemoveLeft, CleanSteps, ProvisionSteps, RemoveSteps
<1> QED
  BY <1>1, <1>2

\* Every step preserves the invariant.
LEMMA CleanNext ==
  ASSUME NamesDistinct, Benign, TagsInv, CleanInv, [Next]_vars
  PROVE  CleanInv'
<1> SUFFICES ASSUME OneFault', NEW m \in Machines \ KeepOnFailure
             PROVE  CreateLeft(m)' /\ RemoveLeft(m)'
  BY DEF CleanInv
<1>1. Base /\ PlaceInv' /\ StepOK /\ reused \subseteq reused'
  BY TagsNext DEF TagsInv
<1>2. OneFault /\ (Fresh' => Fresh)
  BY <1>1, FreshBefore DEF Base, TypeInv
<1>3. CreateLeft(m) /\ RemoveLeft(m)
  BY <1>2 DEF CleanInv
<1>4. SUFFICES ASSUME ~(Still(m) /\ TaskStill(m)) PROVE CreateLeft(m)' /\ RemoveLeft(m)'
  BY <1>1, <1>2, <1>3, StillLeft
<1>5. ~UNCHANGED vars
  BY <1>4 DEF vars, clusterVars, procVars, Still, TaskStill
<1>6. ~(ClusterStep /\ UNCHANGED procVars)
  BY <1>1, <1>4, ClusterTasks DEF procVars, Still, Base
<1>7. PICK k \in Machines :
        StartCreate(k) \/ ProcessStep(k) \/ StartRemove(k) \/ Crash(k)
  BY <1>5, <1>6 DEF Next, Finished
<1>8. k = m
  BY <1>1, <1>4, <1>7, OthersStill DEF TaskStill, Base
<1>9. CASE StartCreate(m) \/ StartRemove(m) \/ Crash(m) \/ Forget(m)
  BY <1>1, <1>3, <1>9, CloneLeft, RancherLeft
<1>10. CASE CloneStep(m)
  BY <1>1, <1>2, <1>3, <1>10, CloneLeft, AwaitLeft, CleanUpLeft, TagLeftOver
     DEF CloneStep
<1>11. CASE ProvisionStep(m)
  BY <1>1, <1>3, <1>11, ProvisionLeft
<1>12. CASE RemoveStep(m)
  BY <1>1, <1>2, <1>3, <1>12, RemoveStepLeft
<1> QED
  BY <1>7, <1>8, <1>9, <1>10, <1>11, <1>12 DEF ProcessStep

\* It holds before the first job.
LEMMA CleanInit == Init => CleanInv
<1> SUFFICES ASSUME Init, NEW m \in Machines PROVE CreateLeft(m) /\ RemoveLeft(m)
  BY DEF CleanInv
<1>1. pc[m] = "new" /\ \A id \in VMIDs : vms[id].owner = NoOne
  BY DEF Init, ClusterInit, ProcessInit, FreeVM
<1>2. Bare(m)
  BY <1>1, SentinelAssumption DEF Bare, Left
<1> QED
  BY <1>1, <1>2 DEF CreateLeft, RemoveLeft, CleanSteps, ProvisionSteps, RemoveSteps

\* create.go, clone.go: a Create that failed without keep-on-failure has left
\* no VM of the machine, be the one thing that went wrong a refused request, a
\* failed task, a silent guest, a dead process or a VM that somebody else made
\* or deleted: for any number of machines, VMIDs, nodes and attempts, at every
\* moment at which at most one fault has happened.
THEOREM FailedCreateClean ==
  ASSUME NamesDistinct, Benign
  PROVE  Spec => [](OneFault => FailedCreateCleansUp)
<1>1. CleanInv => (OneFault => FailedCreateCleansUp)
  BY DEF CleanInv, CreateLeft, Bare, Left, FailedCreateCleansUp
<1>2. TagsInv /\ CleanInv /\ [Next]_vars => TagsInv' /\ CleanInv'
  BY TagsNext, CleanNext
<1> QED
  BY <1>1, <1>2, TagsInit, CleanInit, PTL DEF Spec

=============================================================================
