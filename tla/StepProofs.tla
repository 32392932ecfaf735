----------------------------- MODULE StepProofs -----------------------------
(***************************************************************************)
(* What one step of NodeDriver can do: to the VM of one VMID (Evolves) and *)
(* to one machine (MoveOf).  The two say what the actions have in common,  *)
(* whatever error a call returned, and are what the invariants about tags, *)
(* removal and the refinement rest on.                                     *)
(***************************************************************************)
EXTENDS NodeDriverProofs

-----------------------------------------------------------------------------
(* What a step does to the VM of one VMID.                                 *)

\* It is destroyed: a clone or delete task removes it, or somebody by hand.
Freed(id) ==
  /\ vms'[id] = FreeVM
  /\ vms[id].st \in {"cloning", "deleting"} \/ "purge" \in Faults

\* It appears, without the tag: a machine's clone or somebody else's VM.
Appears(id) ==
  /\ vms[id].st = "free"
  /\ vms'[id].st \in {"cloning", "idle"} /\ ~vms'[id].tagged
  /\ \/ vms'[id].owner = Foreign
     \/ \E m \in Machines :
          /\ pc[m] = "post" /\ pc'[m] # "post"
          /\ vms'[id].owner = m /\ vms'[id].node = NodeOf[m]

\* m's process leaves one of the given steps and had this VM in its hand.
Handles(m, steps, id) ==
  /\ pc[m] \in steps /\ pc'[m] # pc[m]
  /\ hnd[m].vmid = id /\ vms[id].st = "idle"

\* The step is a fault.
Faulty == budget' = budget - 1

\* It goes on existing, or not existing; a delete task that fails is a fault.
Stays(id) ==
  /\ vms'[id].owner = vms[id].owner
  /\ \/ vms'[id].st = vms[id].st /\ vms'[id].by = vms[id].by
     \/ vms[id].st = "cloning" /\ vms'[id].st = "idle"
     \/ vms[id].st = "deleting" /\ vms'[id].st = "idle" /\ Faulty
     \/ /\ vms'[id].st = "deleting"
        /\ \E m \in Machines : Handles(m, {"cleanDelete", "delete"}, id)
  /\ \/ vms'[id].tagged = vms[id].tagged
     \/ /\ vms'[id].tagged /\ vms'[id].st = "idle"
        /\ \E m \in Machines : Handles(m, {"tag"}, id)
  /\ vms'[id].node = vms[id].node \/ "migrate" \in Faults
  /\ \/ vms'[id].power = vms[id].power
     \/ "power" \in Faults
     \/ \E m \in Machines : Handles(m, {"start", "shutdown", "stop"}, id)

Evolves(id) == Freed(id) \/ Appears(id) \/ Stays(id)

-----------------------------------------------------------------------------
(* What a step of m's own does to m.                                       *)

CleanSteps == {"cleanRead", "cleanDelete", "cleanWait"}

\* m's process is in CloneFromTemplate and may clone again.
Cloning(m) ==
  \/ pc[m] \in CloneSteps \ CleanSteps
  \/ pc[m] \in CleanSteps /\ ret[m] = "retry"

\* m's process cleans up a clone after which Create will fail.
Discards(m) == pc[m] \in CleanSteps /\ ret[m] = "create"

\* What m has recorded is left alone.
Recorded(m) == drv'[m] = drv[m] /\ cfg'[m] = cfg[m]

Begins(m) == pc[m] = "new" /\ Cloning(m)' /\ Recorded(m) /\ vms' = vms

Clones(m) == Cloning(m) /\ pc[m] # "tag" /\ Cloning(m)' /\ Recorded(m)

\* The tag could not be written, or it is not known whether it was.
Abandons(m) == (Cloning(m) \/ Discards(m)) /\ Discards(m)' /\ Recorded(m)

Tags(m) ==
  /\ pc[m] = "tag" /\ pc'[m] = "config"
  /\ drv'[m] = hnd[m] /\ hnd'[m] = hnd[m] /\ cfg'[m] = cfg[m]
  /\ hnd[m].vmid \in VMIDs
  /\ vms[hnd[m].vmid].st = "idle"
  /\ vms'[hnd[m].vmid] = [vms[hnd[m].vmid] EXCEPT !.tagged = TRUE]

Provisions(m) ==
  /\ pc[m] \in {"config", "resize", "start"} /\ pc'[m] \in {"resize", "start", "waitip"}
  /\ pc[m] # pc'[m]
  /\ hnd'[m] = hnd[m] /\ Recorded(m)
  /\ pc'[m] = "waitip" => vms'[hnd[m].vmid].power = "running"

ComesUp(m) ==
  /\ pc[m] = "waitip" /\ pc'[m] = "up"
  /\ drv'[m] = NoRef /\ cfg'[m] = drv[m]
  /\ vms' = vms

\* Create returns an error.
CreateEnds(m) ==
  /\ \/ pc[m] \in {"new", "retry"} \/ Discards(m) \/ pc[m] \in ProvisionSteps
     \/ pc[m] \in RemoveSteps /\ ret[m] = "create"
  /\ pc'[m] = "failed"
  /\ drv'[m] = NoRef /\ cfg'[m] \in {cfg[m], drv[m]}

\* Create calls Remove, or Rancher's rm job does.
EntersRemove(m) ==
  /\ pc'[m] = "lookup" /\ cfg'[m] = cfg[m]
  /\ \/ pc[m] \in ProvisionSteps /\ drv'[m] = drv[m] /\ ret'[m] = "create"
     \/ /\ pc[m] \in {"up", "failed", "crashed", "rmfailed"}
        /\ drv'[m] = cfg[m] /\ ret'[m] = "rancher"

\* The handle lookupVM returns is the recorded one or from a list.
LookupRef(m, ref) ==
  \/ pc[m] = "lookup" /\ ref = drv[m]
  \/ pc[m] = "fetch" /\ ref = hnd[m]
  \/ pc[m] = "scan" /\ ref \in rows[m]

\* The lookup goes on.
Searches(m) ==
  /\ vms' = vms
  /\ \/ pc[m] = "lookup" /\ pc'[m] = "list" /\ drv[m].vmid # NoVMID
     \/ /\ pc[m] = "list" /\ pc'[m] = "fetch"
        /\ drv[m].vmid \in Rows /\ hnd'[m] = RefOf(drv[m].vmid)
     \/ /\ pc[m] = "lookup" /\ pc'[m] = "scan"
        /\ rows'[m] = FindVMByName(m)
     \/ /\ pc[m] = "scan" /\ pc'[m] = "scan"
        /\ \E ref \in rows[m] :
             /\ rows'[m] = rows[m] \ {ref}
             /\ ~(At(ref) /\ HasTag(ref)) \/ "dns" \in Faults

\* It found a VM with the tag.
Finds(m) ==
  /\ vms' = vms
  /\ pc'[m] \in {"shutdown", "delete"}
  /\ LookupRef(m, hnd'[m]) /\ At(hnd'[m]) /\ HasTag(hnd'[m])

HoldSteps == {"shutdown", "stop", "delete", "deleteWait", "deleteRetry"}

\* The VM found is shut down and deleted.
Destroys(m) ==
  /\ pc[m] \in HoldSteps /\ pc'[m] \in HoldSteps
  /\ hnd'[m] = hnd[m]
  /\ pc'[m] = "deleteWait" =>
       /\ hnd[m].vmid \in VMIDs
       /\ task'[m] = [vmid |-> hnd[m].vmid, exit |-> "running"]

RemoveGoesOn(m) ==
  /\ pc[m] \in RemoveSteps /\ Recorded(m) /\ ret'[m] = ret[m]
  /\ Searches(m) \/ Finds(m) \/ Destroys(m)

RemoveFails(m) ==
  /\ pc[m] \in RemoveSteps /\ ret[m] = "rancher"
  /\ pc'[m] = "rmfailed" /\ drv'[m] = NoRef /\ cfg'[m] = cfg[m]

\* Remove has a reason to say that there is no VM any more.
NothingLeft(m) ==
  \/ pc[m] = "list" /\ drv[m].vmid \notin Rows
  \/ pc[m] = "fetch" /\ (~At(hnd[m]) \/ "dns" \in Faults)
  \/ pc[m] = "scan" /\ rows[m] = {}
  \/ pc[m] = "deleteWait" /\ task[m].exit = "nil"

RemoveSucceeds(m) ==
  /\ ret[m] = "rancher" /\ NothingLeft(m) /\ vms' = vms
  /\ pc'[m] = "removed" /\ drv'[m] = NoRef /\ cfg'[m] = cfg[m]

Forgets(m) ==
  /\ pc[m] = "removed" /\ pc'[m] = "gone"
  /\ drv'[m] = NoRef /\ cfg'[m] = NoRef

Dies(m) ==
  /\ pc[m] \in LiveSteps \cup {"removed"} /\ pc'[m] = "crashed" /\ vms' = vms
  /\ drv'[m] = NoRef /\ cfg'[m] = cfg[m]

MoveOf(m) ==
  \/ Begins(m) \/ Clones(m) \/ Abandons(m) \/ Tags(m) \/ Provisions(m)
  \/ ComesUp(m) \/ CreateEnds(m)
  \/ EntersRemove(m) \/ RemoveGoesOn(m) \/ RemoveFails(m) \/ RemoveSucceeds(m)
  \/ Forgets(m) \/ Dies(m)

\* Nothing of k's own changes.
Still(k) ==
  /\ pc'[k] = pc[k] /\ drv'[k] = drv[k] /\ cfg'[k] = cfg[k]
  /\ hnd'[k] = hnd[k] /\ ret'[k] = ret[k] /\ rows'[k] = rows[k]

\* A task that ends unlocks its VM and leaves its exit status with the process
\* waiting for it; "nil" if and only if it did what it was to do.
TaskStill(k) ==
  \/ task'[k] = task[k]
  \/ /\ task[k].exit = "running" /\ task'[k].exit # "running"
     /\ task[k].vmid \in VMIDs /\ task'[k].vmid = task[k].vmid
     /\ vms'[task[k].vmid].st \in {"free", "idle"}
     /\ \/ task'[k].exit \in ExitErrs /\ Faulty
        \/ /\ task'[k].exit = "nil"
           /\ \/ vms[task[k].vmid].st = "cloning"
              \/ vms'[task[k].vmid] = FreeVM

\* One machine's process moves, or the cluster, or nothing.
StepOf(m) ==
  /\ MoveOf(m)
  /\ \A k \in Machines \ {m} : Still(k) /\ task'[k] = task[k]

ClusterOnly ==
  \A k \in Machines : Still(k) /\ TaskStill(k)

StepOK ==
  /\ \A id \in VMIDs : Evolves(id)
  /\ (\E m \in Machines : StepOf(m)) \/ ClusterOnly

-----------------------------------------------------------------------------
(* Evolves, call by call.                                                  *)

\* A step that leaves the VMs alone.
LEMMA IdleEvolves ==
  ASSUME vms' = vms
  PROVE  \A id \in VMIDs : Evolves(id)
BY DEF Evolves, Stays

\* A step that leaves all VMs but one alone.
LEMMA OneEvolves ==
  ASSUME ClusterTypeOK, NEW id \in VMIDs, NEW vm, vms' = [vms EXCEPT ![id] = vm],
         Evolves(id)
  PROVE  \A i \in VMIDs : Evolves(i)
<1> TAKE i \in VMIDs
<1>1. i # id => vms'[i] = vms[i]
  BY DEF ClusterTypeOK
<1>2. i # id => Stays(i)
  BY <1>1 DEF Stays
<1> QED
  BY <1>2 DEF Evolves

\* The clone request (clone.go) makes an untagged VM of the machine's own.
LEMMA CloneEvolves ==
  ASSUME ClusterTypeOK, NEW m \in Machines, NEW id \in VMIDs, NEW e,
         Clone(m, id, e), pc[m] = "post", pc'[m] # "post"
  PROVE  \A i \in VMIDs : Evolves(i)
<1> DEFINE vm == [st |-> "cloning", owner |-> m, name |-> NameOf[m],
                  tagged |-> FALSE, power |-> "stopped",
                  node |-> NodeOf[m], by |-> m]
<1>1. CASE Claim(id, m, vm)
  <2>1. vms' = [vms EXCEPT ![id] = vm] /\ vms'[id] = vm /\ vms[id].st = "free"
    BY <1>1 DEF Claim, ClusterTypeOK
  <2>2. Evolves(id)
    BY <2>1 DEF Evolves, Appears
  <2> HIDE DEF vm
  <2> QED
    BY <2>1, <2>2, OneEvolves
<1>2. CASE vms' = vms
  BY <1>2, IdleEvolves
<1> QED
  BY <1>1, <1>2 DEF Clone, Fails, clusterVars

\* The delete request only starts the deletion, and only of an unlocked VM.
LEMMA DeleteEvolves ==
  ASSUME ClusterTypeOK, NEW m \in Machines, NEW e, Delete(m, hnd[m], e),
         pc[m] \in {"cleanDelete", "delete"}, pc'[m] # pc[m]
  PROVE  \A i \in VMIDs : Evolves(i)
<1>1. CASE /\ Deletable(hnd[m])
           /\ vms' = [vms EXCEPT ![hnd[m].vmid].st = "deleting", ![hnd[m].vmid].by = m]
  <2> DEFINE id == hnd[m].vmid
             vm == [vms[id] EXCEPT !.st = "deleting", !.by = m]
  <2>1. id \in VMIDs /\ vms[id].st = "idle"
    BY <1>1 DEF Deletable, At
  <2>2. vms[id] \in VM
    BY <2>1 DEF ClusterTypeOK
  <2>3. vm.st = "deleting" /\ vm.owner = vms[id].owner /\ vm.node = vms[id].node
        /\ vm.tagged = vms[id].tagged /\ vm.power = vms[id].power
    BY <2>2 DEF VM
  <2>4. vms' = [vms EXCEPT ![id] = vm] /\ vms'[id] = vm
    BY <1>1, <2>1, <2>2 DEF ClusterTypeOK, VM
  <2>5. Handles(m, {"cleanDelete", "delete"}, id)
    BY <2>1 DEF Handles
  <2> HIDE DEF vm, id
  <2>6. Evolves(id)
    BY <2>3, <2>4, <2>5 DEF Evolves, Stays
  <2> QED
    BY <2>1, <2>4, <2>6, OneEvolves
<1>2. CASE vms' = vms
  BY <1>2, IdleEvolves
<1> QED
  BY <1>1, <1>2 DEF Delete, Fails, clusterVars

\* A configuration or power task (vm.go) changes the tag or the power state.
LEMMA ModifyEvolves ==
  ASSUME ClusterTypeOK, NEW m \in Machines, NEW vm, NEW e, Modify(hnd[m], vm, e),
         pc'[m] # pc[m],
         At(hnd[m]) =>
           /\ vm.st = vms[hnd[m].vmid].st
           /\ vm.by = vms[hnd[m].vmid].by
           /\ vm.owner = vms[hnd[m].vmid].owner
           /\ vm.node = vms[hnd[m].vmid].node
           /\ \/ vm.tagged = vms[hnd[m].vmid].tagged
              \/ vm.tagged /\ pc[m] = "tag"
           /\ \/ vm.power = vms[hnd[m].vmid].power
              \/ pc[m] \in {"start", "shutdown", "stop"}
  PROVE  \A i \in VMIDs : Evolves(i)
<1>1. CASE /\ At(hnd[m]) /\ vms[hnd[m].vmid].st = "idle"
           /\ vms' = [vms EXCEPT ![hnd[m].vmid] = vm]
  <2> DEFINE id == hnd[m].vmid
  <2>1. id \in VMIDs
    BY <1>1 DEF At
  <2>2. vms'[id] = vm
    BY <1>1, <2>1 DEF ClusterTypeOK
  <2>3. pc[m] \in {"tag"} => Handles(m, {"tag"}, id)
    BY <1>1 DEF Handles
  <2>4. pc[m] \in {"start", "shutdown", "stop"}
          => Handles(m, {"start", "shutdown", "stop"}, id)
    BY <1>1 DEF Handles
  <2>5. Stays(id)
    BY <1>1, <2>2, <2>3, <2>4 DEF Stays
  <2>6. Evolves(id)
    BY <2>5 DEF Evolves
  <2> QED
    BY <1>1, <2>1, <2>6, OneEvolves
<1>2. CASE vms' = vms
  BY <1>2, IdleEvolves
<1> QED
  BY <1>1, <1>2 DEF Modify, Fails, clusterVars

\* The cluster's own steps.
LEMMA ClusterEvolves ==
  ASSUME ClusterTypeOK, ClusterStep
  PROVE  \A i \in VMIDs : Evolves(i)
<1>1. PICK id \in VMIDs :
         \/ TaskEnds(id)
         \/ \E n \in Nodes : Migrate(id, n)
         \/ \E n \in Nodes, name \in Names : ForeignCreate(id, name, n)
         \/ ForeignDelete(id)
         \/ \E p \in Powers : Power(id, p)
  BY DEF ClusterStep
<1>2. vms[id] \in VM
  BY DEF ClusterTypeOK
<1>3. /\ Unlocked(vms[id]).st = "idle"
      /\ Unlocked(vms[id]).owner = vms[id].owner
      /\ Unlocked(vms[id]).tagged = vms[id].tagged
      /\ Unlocked(vms[id]).node = vms[id].node
      /\ Unlocked(vms[id]).power = vms[id].power
  BY <1>2 DEF VM, Unlocked
<1>4. CASE TaskEnds(id) \/ ForeignDelete(id)
  <2>1. \/ /\ vms[id].st \in {"cloning", "deleting"} \/ "purge" \in Faults
           /\ vms' = [vms EXCEPT ![id] = FreeVM]
        \/ /\ vms[id].st = "cloning" \/ (vms[id].st = "deleting" /\ Faulty)
           /\ vms' = [vms EXCEPT ![id] = Unlocked(vms[id])]
    BY <1>4 DEF TaskEnds, ForeignDelete, CloneTaskSucceeds, CloneTaskFails,
                DeleteTaskSucceeds, DeleteTaskFails, Inject, Faulty
  <2>2. vms'[id] = FreeVM \/ vms'[id] = Unlocked(vms[id])
    BY <2>1 DEF ClusterTypeOK
  <2>3. Evolves(id)
    BY <1>3, <2>1, <2>2 DEF ClusterTypeOK, Evolves, Freed, Stays
  <2> QED
    BY <2>1, <2>3, OneEvolves
<1>5. CASE \E n \in Nodes : Migrate(id, n)
  <2>1. PICK n \in Nodes : Migrate(id, n)
    BY <1>5
  <2> DEFINE vm == [vms[id] EXCEPT !.node = n]
  <2>2. vm.owner = vms[id].owner /\ vm.tagged = vms[id].tagged
        /\ vm.st = vms[id].st /\ vm.by = vms[id].by /\ vm.power = vms[id].power
    BY <1>2 DEF VM
  <2>3. vms' = [vms EXCEPT ![id] = vm] /\ vms'[id] = vm /\ "migrate" \in Faults
    BY <2>1 DEF Migrate, Inject, ClusterTypeOK
  <2> HIDE DEF vm
  <2>4. Evolves(id)
    BY <2>2, <2>3 DEF Evolves, Stays
  <2> QED
    BY <2>3, <2>4, OneEvolves
<1>6. CASE \E n \in Nodes, name \in Names : ForeignCreate(id, name, n)
  <2>1. PICK n \in Nodes, name \in Names : ForeignCreate(id, name, n)
    BY <1>6
  <2> DEFINE vm == [st |-> "idle", owner |-> Foreign, name |-> name,
                    tagged |-> FALSE, power |-> "stopped",
                    node |-> n, by |-> NoOne]
  <2>2. vms' = [vms EXCEPT ![id] = vm] /\ vms'[id] = vm /\ vms[id].st = "free"
    BY <2>1 DEF ForeignCreate, Claim, ClusterTypeOK
  <2>3. vm.owner = Foreign /\ ~vm.tagged /\ vm.st = "idle"
    OBVIOUS
  <2> HIDE DEF vm
  <2>4. Evolves(id)
    BY <2>2, <2>3 DEF Evolves, Appears
  <2> QED
    BY <2>2, <2>4, OneEvolves
<1>7. CASE \E p \in Powers : Power(id, p)
  <2>1. PICK p \in Powers : Power(id, p)
    BY <1>7
  <2> DEFINE vm == [vms[id] EXCEPT !.power = p]
  <2>2. vm.owner = vms[id].owner /\ vm.tagged = vms[id].tagged
        /\ vm.st = vms[id].st /\ vm.by = vms[id].by /\ vm.node = vms[id].node
    BY <1>2 DEF VM
  <2>3. vms' = [vms EXCEPT ![id] = vm] /\ vms'[id] = vm /\ "power" \in Faults
    BY <2>1 DEF Power, Inject, ClusterTypeOK
  <2> HIDE DEF vm
  <2>4. Evolves(id)
    BY <2>2, <2>3 DEF Evolves, Stays
  <2> QED
    BY <2>3, <2>4, OneEvolves
<1> QED
  BY <1>1, <1>4, <1>5, <1>6, <1>7

-----------------------------------------------------------------------------
(* MoveOf, action by action.                                               *)

\* Only m's process moves, and only m's task changes.
Alone(m) == \A k \in Machines \ {m} : Still(k)

TaskAlone(m) == \A k \in Machines \ {m} : task'[k] = task[k]

\* What an exit writes.
LEMMA ExitMove ==
  ASSUME ProcessTypeOK, NEW m \in Machines, NEW rest, NEW saved,
         Exit(m, rest, saved)
  PROVE  pc'[m] = rest /\ drv'[m] = NoRef /\ cfg'[m] = saved /\ Alone(m)
BY DEF ProcessTypeOK, Exit, Goto, Alone, Still

\* Create's error return.
LEMMA CreateFailsMove ==
  ASSUME ProcessTypeOK, NEW m \in Machines, CreateFails(m),
         \/ pc[m] \in {"new", "retry"} \/ Discards(m) \/ pc[m] \in ProvisionSteps
         \/ pc[m] \in RemoveSteps /\ ret[m] = "create"
  PROVE  CreateEnds(m) /\ Alone(m)
BY ExitMove DEF CreateFails, CreateEnds

\* Remove's error return, to Create or to Rancher.
LEMMA RemoveErrorMove ==
  ASSUME ProcessTypeOK, NEW m \in Machines, RemoveReturns(m, FALSE),
         pc[m] \in RemoveSteps
  PROVE  MoveOf(m) /\ Alone(m) /\ pc'[m] # pc[m]
<1>1. CASE ret[m] = "create" /\ CreateFails(m)
  BY <1>1, CreateFailsMove DEF CreateEnds, MoveOf, RemoveSteps
<1>2. CASE ret[m] = "rancher" /\ Exit(m, "rmfailed", cfg[m])
  BY <1>2, ExitMove DEF RemoveFails, MoveOf, RemoveSteps
<1> QED
  BY <1>1, <1>2 DEF RemoveReturns

\* Remove's success, for which it has a reason.
LEMMA RemoveDoneMove ==
  ASSUME ProcessTypeOK, NEW m \in Machines, RemoveReturns(m, TRUE),
         pc[m] \in RemoveSteps, NothingLeft(m), vms' = vms
  PROVE  MoveOf(m) /\ Alone(m)
<1>1. CASE ret[m] = "create" /\ CreateFails(m)
  BY <1>1, CreateFailsMove DEF MoveOf
<1>2. CASE ret[m] = "rancher" /\ Exit(m, "removed", cfg[m])
  BY <1>2, ExitMove DEF RemoveSucceeds, MoveOf
<1> QED
  BY <1>1, <1>2 DEF RemoveReturns

\* A move that changes at most the handle, tries, err and ret.
LEMMA GotoMove ==
  ASSUME ProcessTypeOK, NEW m \in Machines, NEW step, Goto(m, step),
         UNCHANGED <<drv, cfg, rows>>,
         \A k \in Machines \ {m} : hnd'[k] = hnd[k] /\ ret'[k] = ret[k]
  PROVE  pc'[m] = step /\ Recorded(m) /\ Alone(m)
BY DEF ProcessTypeOK, Goto, Recorded, Alone, Still

\* A failed attempt leads to Retry's decision.
LEMMA AttemptFailsMove ==
  ASSUME ProcessTypeOK, NEW m \in Machines, NEW e, AttemptFails(m, e),
         pc[m] \in {"pick", "post"}
  PROVE  Clones(m) /\ Alone(m) /\ pc'[m] = "retry"
<1>1. pc'[m] = "retry" /\ Recorded(m) /\ Alone(m)
  BY GotoMove DEF AttemptFails, locals, ProcessTypeOK
<1>2. Cloning(m) /\ Cloning(m)' /\ pc[m] # "tag"
  BY <1>1 DEF Cloning, CloneSteps, CleanSteps
<1> QED
  BY <1>1, <1>2 DEF Clones

\* bestEffortDelete is entered.
LEMMA CleanUpMove ==
  ASSUME ProcessTypeOK, NEW m \in Machines, NEW e, NEW caller, CleanUp(m, e, caller)
  PROVE  pc'[m] = "cleanRead" /\ ret'[m] = caller /\ Recorded(m) /\ Alone(m)
<1>1. ret'[m] = caller
  BY DEF CleanUp, ProcessTypeOK
<1> QED
  BY <1>1, GotoMove DEF CleanUp, locals, ProcessTypeOK

\* bestEffortDelete moves on or returns.
LEMMA CleanUpReturnsMove ==
  ASSUME ProcessTypeOK, NEW m \in Machines, pc[m] \in CleanSteps,
         CleanUpReturns(m)
  PROVE  MoveOf(m) /\ Alone(m) /\ pc'[m] \notin CleanSteps
<1>1. CASE /\ ret[m] = "retry" /\ Goto(m, "retry")
           /\ UNCHANGED <<hnd, tries, err, ret, locals>>
  <2>1. pc'[m] = "retry" /\ Recorded(m) /\ Alone(m)
    BY <1>1, GotoMove DEF locals
  <2> QED
    BY <1>1, <2>1 DEF MoveOf, Clones, Cloning, CloneSteps, CleanSteps
<1>2. CASE ret[m] = "create" /\ CreateFails(m)
  BY <1>2, CreateFailsMove DEF Discards, CreateEnds, MoveOf, CleanSteps
<1> QED
  BY <1>1, <1>2 DEF CleanUpReturns

\* A step within bestEffortDelete.
LEMMA CleanUpStepMove ==
  ASSUME ProcessTypeOK, NEW m \in Machines, pc[m] \in CleanSteps,
         ret[m] \in {"retry", "create"},
         NEW step \in CleanSteps, Goto(m, step),
         UNCHANGED <<hnd, tries, err, ret, locals>>
  PROVE  MoveOf(m) /\ Alone(m)
<1>1. pc'[m] = step /\ Recorded(m) /\ Alone(m) /\ ret'[m] = ret[m]
  BY GotoMove DEF locals
<1> QED
  BY <1>1 DEF MoveOf, Clones, Abandons, Cloning, Discards, CleanSteps

-----------------------------------------------------------------------------
\* bestEffortDelete was not called by Rancher.
CleanUpCaller == \A m \in Machines : pc[m] \in CleanSteps => ret[m] # "rancher"

\* A read changes no VM and no task.
LEMMA ReadStill ==
  ASSUME NEW ref, NEW e, GetVM(ref, e) \/ ListVMs(e) \/ UNCHANGED clusterVars
  PROVE  vms' = vms /\ task' = task
BY DEF GetVM, ListVMs, Fails, clusterVars

\* A GET without error found the VM.
LEMMA GetVMFound ==
  ASSUME NEW ref, GetVM(ref, "nil")
  PROVE  At(ref)
BY DEF GetVM, Fails, ReadErrs

\* A GET that says "not found" did not find the VM, or the name server failed.
LEMMA GetVMNotFound ==
  ASSUME NEW ref, NEW e, GetVM(ref, e), IsNotFoundErr(e)
  PROVE  ~At(ref) \/ "dns" \in Faults
BY DEF GetVM, Fails, ReadErrs, IsNotFoundErr, Inject

\* The requests change nobody else's task.
LEMMA CallTasks ==
  ASSUME ClusterTypeOK, NEW m \in Machines, NEW id, NEW ref, NEW vm, NEW e,
         Clone(m, id, e) \/ Delete(m, ref, e) \/ Modify(ref, vm, e)
         \/ WaitTask(m, e)
  PROVE  TaskAlone(m)
BY DEF Clone, Delete, Modify, WaitTask, Reply, Fails, clusterVars, TaskAlone,
       ClusterTypeOK

\* CloneFromTemplate before and after the clone task.
LEMMA CloneTaskMove ==
  ASSUME TypeInv, NEW m \in Machines,
         RandomFreeVMID(m) \/ CloneRequest(m) \/ AwaitClone(m) \/ CloneRetry(m)
         \/ ReadClone(m)
  PROVE  StepOK
<1>0. ClusterTypeOK /\ ProcessTypeOK
  BY DEF TypeInv, ProcessInv
<1>1. CASE RandomFreeVMID(m)
  <2>1. vms' = vms /\ task' = task
    BY <1>1, ReadStill DEF RandomFreeVMID
  <2>2. pc[m] = "pick"
    BY <1>1 DEF RandomFreeVMID
  <2>3. CASE \E e : AttemptFails(m, e)
    BY <1>0, <2>1, <2>2, <2>3, AttemptFailsMove, IdleEvolves
       DEF StepOK, StepOf, MoveOf, Alone
  <2>4. CASE /\ \E id \in FreeVMIDs :
                  hnd' = [hnd EXCEPT ![m] = [vmid |-> id, node |-> NodeOf[m]]]
             /\ Goto(m, "post")
             /\ UNCHANGED <<tries, err, ret, locals>>
    <3>1. pc'[m] = "post" /\ Recorded(m) /\ Alone(m)
      BY <1>0, <2>4, GotoMove DEF locals, ProcessTypeOK
    <3>2. Clones(m)
      BY <2>2, <3>1 DEF Clones, Cloning, CloneSteps, CleanSteps
    <3> QED
      BY <2>1, <3>1, <3>2, IdleEvolves DEF StepOK, StepOf, MoveOf, Alone
  <2> QED
    BY <1>1, <2>3, <2>4 DEF RandomFreeVMID
<1>2. CASE CloneRequest(m)
  <2>1. pc[m] = "post" /\ hnd[m].vmid \in VMIDs
    BY <1>2 DEF CloneRequest, TypeInv, ProcessInv, PickedVMID
  <2>2. PICK e \in ErrClass :
          /\ Clone(m, hnd[m].vmid, e)
          /\ \/ AttemptFails(m, e)
             \/ Goto(m, "await") /\ UNCHANGED <<hnd, tries, err, ret, locals>>
    BY <1>2 DEF CloneRequest
  <2>3. Clones(m) /\ Alone(m) /\ pc'[m] # "post"
    <3>1. CASE AttemptFails(m, e)
      BY <1>0, <2>1, <3>1, AttemptFailsMove
    <3>2. CASE Goto(m, "await") /\ UNCHANGED <<hnd, tries, err, ret, locals>>
      <4>1. pc'[m] = "await" /\ Recorded(m) /\ Alone(m)
        BY <1>0, <3>2, GotoMove DEF locals
      <4> QED
        BY <2>1, <4>1 DEF Clones, Cloning, CloneSteps, CleanSteps
    <3> QED
      BY <2>2, <3>1, <3>2
  <2>4. (\A i \in VMIDs : Evolves(i)) /\ TaskAlone(m)
    BY <1>0, <2>1, <2>2, <2>3, CloneEvolves, CallTasks
  <2> QED
    BY <2>3, <2>4 DEF StepOK, StepOf, MoveOf, Alone, TaskAlone
<1>3. CASE AwaitClone(m)
  <2>1. PICK e \in ErrClass :
          /\ WaitTask(m, e)
          /\ \/ CleanUp(m, e, "retry")
             \/ Goto(m, "read") /\ UNCHANGED <<hnd, tries, err, ret, locals>>
    BY <1>3 DEF AwaitClone
  <2>2. vms' = vms /\ TaskAlone(m) /\ pc[m] = "await"
    BY <1>0, <1>3, <2>1, CallTasks DEF WaitTask, AwaitClone
  <2>3. CASE CleanUp(m, e, "retry")
    <3>1. pc'[m] = "cleanRead" /\ ret'[m] = "retry" /\ Recorded(m) /\ Alone(m)
      BY <1>0, <2>3, CleanUpMove
    <3> QED
      BY <2>2, <3>1, IdleEvolves
         DEF Clones, Cloning, CloneSteps, CleanSteps, StepOK, StepOf, MoveOf,
             Alone, TaskAlone
  <2>4. CASE Goto(m, "read") /\ UNCHANGED <<hnd, tries, err, ret, locals>>
    <3>1. pc'[m] = "read" /\ Recorded(m) /\ Alone(m)
      BY <1>0, <2>4, GotoMove DEF locals
    <3> QED
      BY <2>2, <3>1, IdleEvolves
         DEF Clones, Cloning, CloneSteps, CleanSteps, StepOK, StepOf, MoveOf,
             Alone, TaskAlone
  <2> QED
    BY <2>1, <2>3, <2>4
<1>4. CASE CloneRetry(m)
  <2>1. vms' = vms /\ task' = task /\ pc[m] = "retry"
    BY <1>4 DEF CloneRetry, clusterVars
  <2>2. CASE CreateFails(m)
    BY <1>0, <2>1, <2>2, CreateFailsMove, IdleEvolves
       DEF StepOK, StepOf, MoveOf, Alone
  <2>3. CASE /\ Goto(m, "pick") /\ hnd' = [hnd EXCEPT ![m] = NoRef]
             /\ UNCHANGED <<err, ret, locals>>
    <3>1. pc'[m] = "pick" /\ Recorded(m) /\ Alone(m)
      BY <1>0, <2>3, GotoMove DEF locals, ProcessTypeOK
    <3> QED
      BY <2>1, <3>1, IdleEvolves
         DEF Clones, Cloning, CloneSteps, CleanSteps, StepOK, StepOf, MoveOf,
             Alone
  <2> QED
    BY <1>4, <2>2, <2>3 DEF CloneRetry
<1>5. CASE ReadClone(m)
  <2>1. vms' = vms /\ task' = task /\ pc[m] = "read"
    BY <1>5, ReadStill DEF ReadClone
  <2>2. CASE \E e : CleanUp(m, e, "create")
    <3>1. pc'[m] = "cleanRead" /\ ret'[m] = "create" /\ Recorded(m) /\ Alone(m)
      BY <1>0, <2>2, CleanUpMove
    <3> QED
      BY <2>1, <3>1, IdleEvolves
         DEF Abandons, Discards, Cloning, CloneSteps, CleanSteps, StepOK,
             StepOf, MoveOf, Alone
  <2>3. CASE Goto(m, "tag") /\ UNCHANGED <<hnd, tries, err, ret, locals>>
    <3>1. pc'[m] = "tag" /\ Recorded(m) /\ Alone(m)
      BY <1>0, <2>3, GotoMove DEF locals
    <3> QED
      BY <2>1, <3>1, IdleEvolves
         DEF Clones, Cloning, CloneSteps, CleanSteps, StepOK, StepOf, MoveOf,
             Alone
  <2> QED
    BY <1>5, <2>2, <2>3 DEF ReadClone
<1> QED
  BY <1>1, <1>2, <1>3, <1>4, <1>5

\* The steps of bestEffortDelete.
LEMMA CleanUpOK ==
  ASSUME TypeInv, CleanUpCaller, NEW m \in Machines,
         CleanUpRead(m) \/ CleanUpDelete(m) \/ CleanUpWait(m)
  PROVE  StepOK
<1>0. ClusterTypeOK /\ ProcessTypeOK
  BY DEF TypeInv, ProcessInv
<1>1. pc[m] \in CleanSteps /\ ret[m] \in {"retry", "create"}
  BY <1>0 DEF CleanUpRead, CleanUpDelete, CleanUpWait, CleanSteps, CleanUpCaller,
              ProcessTypeOK
<1>2. CASE CleanUpRead(m)
  <2>1. vms' = vms /\ task' = task
    BY <1>2, ReadStill DEF CleanUpRead
  <2>2. MoveOf(m) /\ Alone(m)
    BY <1>0, <1>1, <1>2, CleanUpReturnsMove, CleanUpStepMove
       DEF CleanUpRead, CleanSteps
  <2> QED
    BY <2>1, <2>2, IdleEvolves DEF StepOK, StepOf, Alone
<1>3. CASE CleanUpDelete(m)
  <2>1. PICK e \in ErrClass :
          /\ Delete(m, hnd[m], e)
          /\ \/ CleanUpReturns(m)
             \/ Goto(m, "cleanWait") /\ UNCHANGED <<hnd, tries, err, ret, locals>>
    BY <1>3 DEF CleanUpDelete
  <2>2. MoveOf(m) /\ Alone(m)
    BY <1>0, <1>1, <2>1, CleanUpReturnsMove, CleanUpStepMove DEF CleanSteps
  <2>3. pc[m] = "cleanDelete" /\ pc'[m] # pc[m]
    BY <1>0, <1>1, <1>3, <2>1, CleanUpReturnsMove
       DEF CleanUpDelete, Goto, ProcessTypeOK, CleanSteps
  <2>4. (\A i \in VMIDs : Evolves(i)) /\ TaskAlone(m)
    BY <1>0, <2>1, <2>3, DeleteEvolves, CallTasks
  <2> QED
    BY <2>2, <2>4 DEF StepOK, StepOf, Alone, TaskAlone
<1>4. CASE CleanUpWait(m)
  <2>1. vms' = vms /\ TaskAlone(m)
    BY <1>0, <1>4, CallTasks DEF CleanUpWait, WaitTask
  <2>2. MoveOf(m) /\ Alone(m)
    BY <1>0, <1>1, <1>4, CleanUpReturnsMove DEF CleanUpWait
  <2> QED
    BY <2>1, <2>2, IdleEvolves DEF StepOK, StepOf, Alone, TaskAlone
<1> QED
  BY <1>2, <1>3, <1>4

\* A configuration or power task that succeeded has changed the VM.
LEMMA ModifyDone ==
  ASSUME ClusterTypeOK, NEW ref, NEW vm, Modify(ref, vm, "nil")
  PROVE  /\ ref.vmid \in VMIDs /\ vms[ref.vmid].st = "idle"
         /\ vms'[ref.vmid] = vm
<1>1. At(ref) /\ vms[ref.vmid].st = "idle" /\ vms' = [vms EXCEPT ![ref.vmid] = vm]
  BY DEF Modify, Fails, PostErrs
<1> QED
  BY <1>1 DEF At, ClusterTypeOK

\* Writing the tag.
LEMMA TagCloneOK ==
  ASSUME TypeInv, NEW m \in Machines, TagClone(m)
  PROVE  StepOK
<1> DEFINE vm == [vms[hnd[m].vmid] EXCEPT !.tagged = TRUE]
<1>0. ClusterTypeOK /\ ProcessTypeOK /\ pc[m] = "tag"
  BY DEF TypeInv, ProcessInv, TagClone
<1>1. PICK e \in ErrClass :
        /\ Modify(hnd[m], vm, e)
        /\ \/ CleanUp(m, e, "create")
           \/ /\ e = "nil" /\ Goto(m, "config")
              /\ drv' = [drv EXCEPT ![m] = hnd[m]]
              /\ UNCHANGED <<cfg, hnd, tries, err, ret, rows>>
  BY DEF TagClone
<1>2. At(hnd[m]) =>
        /\ vm.st = vms[hnd[m].vmid].st
        /\ vm.by = vms[hnd[m].vmid].by
        /\ vm.owner = vms[hnd[m].vmid].owner
        /\ vm.node = vms[hnd[m].vmid].node
        /\ vm.power = vms[hnd[m].vmid].power
        /\ vm.tagged
  BY <1>0 DEF At, ClusterTypeOK, VM
<1>3. pc'[m] \in {"cleanRead", "config"}
  BY <1>0, <1>1 DEF CleanUp, Goto, ProcessTypeOK
<1>4. (\A i \in VMIDs : Evolves(i)) /\ TaskAlone(m)
  <2> HIDE DEF vm
  <2> QED
    BY <1>0, <1>1, <1>2, <1>3, ModifyEvolves, CallTasks
<1>5. CASE CleanUp(m, e, "create")
  <2>1. pc'[m] = "cleanRead" /\ ret'[m] = "create" /\ Recorded(m) /\ Alone(m)
    BY <1>0, <1>5, CleanUpMove
  <2> QED
    BY <1>0, <1>4, <2>1
       DEF Abandons, Discards, Cloning, CloneSteps, CleanSteps, StepOK, StepOf,
           MoveOf, Alone, TaskAlone
<1>6. CASE /\ e = "nil" /\ Goto(m, "config")
           /\ drv' = [drv EXCEPT ![m] = hnd[m]]
           /\ UNCHANGED <<cfg, hnd, tries, err, ret, rows>>
  <2>1. /\ hnd[m].vmid \in VMIDs /\ vms[hnd[m].vmid].st = "idle"
        /\ vms'[hnd[m].vmid] = vm
    <3> HIDE DEF vm
    <3> QED
      BY <1>0, <1>1, <1>6, ModifyDone
  <2>2. /\ pc'[m] = "config" /\ drv'[m] = hnd[m] /\ hnd'[m] = hnd[m]
        /\ cfg'[m] = cfg[m] /\ Alone(m)
    BY <1>0, <1>6 DEF ProcessTypeOK, Goto, Alone, Still
  <2>3. Tags(m)
    BY <1>0, <2>1, <2>2 DEF Tags
  <2> QED
    BY <1>4, <2>2, <2>3 DEF StepOK, StepOf, MoveOf, Alone, TaskAlone
<1> QED
  BY <1>1, <1>5, <1>6

\* provision's error return.
LEMMA ProvisionFailsMove ==
  ASSUME ProcessTypeOK, NEW m \in Machines, pc[m] \in ProvisionSteps,
         ProvisionFails(m)
  PROVE  MoveOf(m) /\ Alone(m) /\ pc'[m] \in {"failed", "lookup"}
<1>1. CASE CreateFails(m)
  BY <1>1, CreateFailsMove DEF MoveOf, CreateEnds
<1>2. CASE /\ Goto(m, "lookup")
           /\ ret' = [ret EXCEPT ![m] = "create"]
           /\ hnd' = [hnd EXCEPT ![m] = NoRef]
           /\ UNCHANGED <<drv, cfg, tries, err, rows>>
  <2>1. pc'[m] = "lookup" /\ Recorded(m) /\ Alone(m)
    BY <1>2, GotoMove DEF ProcessTypeOK
  <2>2. ret'[m] = "create"
    BY <1>2 DEF ProcessTypeOK
  <2> QED
    BY <2>1, <2>2 DEF EntersRemove, MoveOf, Recorded
<1> QED
  BY <1>1, <1>2 DEF ProvisionFails

\* A call of provision.
LEMMA ProvisionMove ==
  ASSUME TypeInv, NEW m \in Machines, NEW vm, NEW step \in {"resize", "start", "waitip"},
         pc[m] \in {"config", "resize", "start"}, pc[m] # step,
         step = "waitip" => pc[m] = "start",
         Provision(m, vm, step),
         At(hnd[m]) =>
           /\ vm.st = vms[hnd[m].vmid].st
           /\ vm.by = vms[hnd[m].vmid].by
           /\ vm.owner = vms[hnd[m].vmid].owner
           /\ vm.node = vms[hnd[m].vmid].node
           /\ vm.tagged = vms[hnd[m].vmid].tagged
           /\ step # "waitip" => vm.power = vms[hnd[m].vmid].power
           /\ step = "waitip" => vm.power = "running"
  PROVE  StepOK
<1>0. ClusterTypeOK /\ ProcessTypeOK /\ pc[m] \in ProvisionSteps
  BY DEF TypeInv, ProcessInv, ProvisionSteps
<1>1. PICK e \in ErrClass :
        /\ Modify(hnd[m], vm, e)
        /\ \/ ProvisionFails(m)
           \/ /\ e = "nil" /\ Goto(m, step)
              /\ UNCHANGED <<hnd, tries, err, ret, locals>>
  BY DEF Provision
<1>2. CASE ProvisionFails(m)
  <2>1. MoveOf(m) /\ Alone(m) /\ pc'[m] # pc[m]
    BY <1>0, <1>2, ProvisionFailsMove
  <2>2. (\A i \in VMIDs : Evolves(i)) /\ TaskAlone(m)
    BY <1>0, <1>1, <2>1, ModifyEvolves, CallTasks
  <2> QED
    BY <2>1, <2>2 DEF StepOK, StepOf, Alone, TaskAlone
<1>3. CASE /\ e = "nil" /\ Goto(m, step)
           /\ UNCHANGED <<hnd, tries, err, ret, locals>>
  <2>1. pc'[m] = step /\ Recorded(m) /\ Alone(m) /\ hnd'[m] = hnd[m]
    BY <1>0, <1>3, GotoMove DEF locals
  <2>2. (\A i \in VMIDs : Evolves(i)) /\ TaskAlone(m)
    BY <1>0, <1>1, <2>1, ModifyEvolves, CallTasks
  <2>3. step = "waitip" => vms'[hnd[m].vmid].power = "running"
    <3>1. At(hnd[m])
      BY <1>1, <1>3 DEF Modify, Fails, PostErrs
    <3> QED
      BY <1>0, <1>1, <1>3, <3>1, ModifyDone
  <2>4. Provisions(m)
    BY <2>1, <2>3 DEF Provisions
  <2> QED
    BY <2>1, <2>2, <2>4 DEF StepOK, StepOf, MoveOf, Alone, TaskAlone
<1> QED
  BY <1>1, <1>2, <1>3

\* The steps of provision.
LEMMA ProvisionOK ==
  ASSUME TypeInv, NEW m \in Machines, ProvisionStep(m)
  PROVE  StepOK
<1>0. ClusterTypeOK /\ ProcessTypeOK
  BY DEF TypeInv, ProcessInv
<1>1. At(hnd[m]) => vms[hnd[m].vmid] \in VM
  BY <1>0 DEF At, ClusterTypeOK
<1>2. CASE ConfigureVM(m) \/ ResizeVMDisk(m)
  <2> DEFINE vm == vms[hnd[m].vmid]
  <2>1. PICK step \in {"resize", "start"} :
          pc[m] \in {"config", "resize"} /\ pc[m] # step /\ Provision(m, vm, step)
    BY <1>2 DEF ConfigureVM, ResizeVMDisk
  <2> QED
    BY <2>1, ProvisionMove
<1>3. CASE StartVM(m)
  <2> DEFINE vm == [vms[hnd[m].vmid] EXCEPT !.power = "running"]
  <2>1. pc[m] = "start" /\ Provision(m, vm, "waitip")
    BY <1>3 DEF StartVM
  <2>2. At(hnd[m]) =>
          /\ vm.st = vms[hnd[m].vmid].st
          /\ vm.by = vms[hnd[m].vmid].by
          /\ vm.owner = vms[hnd[m].vmid].owner
          /\ vm.node = vms[hnd[m].vmid].node
          /\ vm.tagged = vms[hnd[m].vmid].tagged
          /\ vm.power = "running"
    BY <1>1 DEF VM
  <2> HIDE DEF vm
  <2> QED
    BY <2>1, <2>2, ProvisionMove
<1>4. CASE WaitForIP(m)
  <2>1. vms' = vms /\ task' = task /\ pc[m] = "waitip"
    BY <1>4 DEF WaitForIP, clusterVars
  <2>2. CASE Exit(m, "up", drv[m])
    BY <1>0, <2>1, <2>2, ExitMove, IdleEvolves
       DEF ComesUp, StepOK, StepOf, MoveOf, Alone
  <2>3. CASE ProvisionFails(m)
    BY <1>0, <2>1, <2>3, ProvisionFailsMove, IdleEvolves
       DEF StepOK, StepOf, Alone, ProvisionSteps
  <2> QED
    BY <1>4, <2>2, <2>3 DEF WaitForIP
<1> QED
  BY <1>2, <1>3, <1>4 DEF ProvisionStep

\* lookupVM's return with a VM.
LEMMA FoundMove ==
  ASSUME ProcessTypeOK, NEW m \in Machines, NEW ref, Found(m, ref),
         LookupRef(m, ref), At(ref), vms' = vms
  PROVE  MoveOf(m) /\ Alone(m)
<1>0. pc[m] \in RemoveSteps
  BY DEF LookupRef, RemoveSteps
<1>1. CASE RemoveReturns(m, FALSE)
  BY <1>0, <1>1, RemoveErrorMove
<1>2. CASE /\ HasTag(ref)
           /\ Goto(m, IF IsRunning(ref) THEN "shutdown" ELSE "delete")
           /\ hnd' = [hnd EXCEPT ![m] = ref]
           /\ rows' = [rows EXCEPT ![m] = {}]
           /\ UNCHANGED <<drv, cfg, err, ret>>
  <2>1. /\ pc'[m] \in {"shutdown", "delete"} /\ hnd'[m] = ref
        /\ Recorded(m) /\ ret'[m] = ret[m] /\ Alone(m)
    BY <1>2 DEF ProcessTypeOK, Goto, Recorded, Alone, Still
  <2>2. Finds(m)
    BY <1>2, <2>1 DEF Finds
  <2> QED
    BY <1>0, <2>1, <2>2 DEF RemoveGoesOn, MoveOf
<1> QED
  BY <1>1, <1>2 DEF Found

\* The steps of lookupVM.
LEMMA LookupOK ==
  ASSUME TypeInv, NEW m \in Machines,
         LookupRecorded(m) \/ LookupList(m) \/ LookupFetch(m)
         \/ FindList(m) \/ FindFetch(m) \/ FindNothing(m)
  PROVE  StepOK
<1>0. ClusterTypeOK /\ ProcessTypeOK
  BY DEF TypeInv, ProcessInv
<1>1. vms' = vms /\ task' = task
  BY DEF LookupRecorded, LookupList, LookupFetch, FindList, FindFetch,
         FindNothing, GetVM, ListVMs, Fails, clusterVars
<1>2. pc[m] \in RemoveSteps
  BY DEF LookupRecorded, LookupList, LookupFetch, FindList, FindFetch,
         FindNothing, RemoveSteps
<1>3. SUFFICES MoveOf(m) /\ Alone(m)
  BY <1>1, IdleEvolves DEF StepOK, StepOf, Alone
<1>4. CASE LookupRecorded(m)
  <2>1. PICK e \in ErrClass :
          /\ GetVM(drv[m], e)
          /\ \/ e = "nil" /\ Found(m, drv[m])
             \/ Goto(m, "list") /\ UNCHANGED <<drv, cfg, hnd, tries, err, ret, rows>>
             \/ RemoveReturns(m, FALSE)
    BY <1>4 DEF LookupRecorded
  <2>2. pc[m] = "lookup" /\ drv[m].vmid # NoVMID
    BY <1>4 DEF LookupRecorded
  <2>3. CASE e = "nil" /\ Found(m, drv[m])
    <3>1. At(drv[m]) /\ LookupRef(m, drv[m])
      BY <2>1, <2>2, <2>3, GetVMFound DEF LookupRef
    <3> QED
      BY <1>0, <1>1, <2>3, <3>1, FoundMove
  <2>4. CASE Goto(m, "list") /\ UNCHANGED <<drv, cfg, hnd, tries, err, ret, rows>>
    <3>1. pc'[m] = "list" /\ Recorded(m) /\ Alone(m) /\ ret'[m] = ret[m]
      BY <1>0, <2>4, GotoMove
    <3> QED
      BY <1>1, <1>2, <2>2, <3>1 DEF Searches, RemoveGoesOn, MoveOf
  <2> QED
    BY <1>0, <1>2, <2>1, <2>3, <2>4, RemoveErrorMove
<1>5. CASE LookupList(m)
  <2>1. pc[m] = "list"
    BY <1>5 DEF LookupList
  <2>2. CASE drv[m].vmid \notin Rows /\ Gone(m)
    BY <1>0, <1>1, <1>2, <2>1, <2>2, RemoveDoneMove DEF Gone, NothingLeft
  <2>3. CASE /\ drv[m].vmid \in Rows
             /\ Goto(m, "fetch")
             /\ hnd' = [hnd EXCEPT ![m] = RefOf(drv[m].vmid)]
             /\ UNCHANGED <<drv, cfg, tries, err, ret, rows>>
    <3>1. pc'[m] = "fetch" /\ Recorded(m) /\ Alone(m) /\ ret'[m] = ret[m]
      BY <1>0, <2>3, GotoMove DEF ProcessTypeOK
    <3>2. hnd'[m] = RefOf(drv[m].vmid)
      BY <1>0, <2>3 DEF ProcessTypeOK
    <3> QED
      BY <1>1, <1>2, <2>1, <2>3, <3>1, <3>2 DEF Searches, RemoveGoesOn, MoveOf
  <2> QED
    BY <1>0, <1>2, <1>5, <2>2, <2>3, RemoveErrorMove DEF LookupList
<1>6. CASE LookupFetch(m)
  <2>1. PICK e \in ErrClass :
          /\ GetVM(hnd[m], e)
          /\ \/ e = "nil" /\ Found(m, hnd[m])
             \/ IsNotFoundErr(e) /\ Gone(m)
             \/ RemoveReturns(m, FALSE)
    BY <1>6 DEF LookupFetch
  <2>2. pc[m] = "fetch"
    BY <1>6 DEF LookupFetch
  <2>3. CASE e = "nil" /\ Found(m, hnd[m])
    <3>1. At(hnd[m]) /\ LookupRef(m, hnd[m])
      BY <2>1, <2>2, <2>3, GetVMFound DEF LookupRef
    <3> QED
      BY <1>0, <1>1, <2>3, <3>1, FoundMove
  <2>4. CASE IsNotFoundErr(e) /\ Gone(m)
    <3>1. ~At(hnd[m]) \/ "dns" \in Faults
      BY <2>1, <2>4, GetVMNotFound
    <3> QED
      BY <1>0, <1>1, <1>2, <2>2, <2>4, <3>1, RemoveDoneMove DEF Gone, NothingLeft
  <2> QED
    BY <1>0, <1>2, <2>1, <2>3, <2>4, RemoveErrorMove
<1>7. CASE FindList(m)
  <2>1. CASE /\ Goto(m, "scan")
             /\ rows' = [rows EXCEPT ![m] = FindVMByName(m)]
             /\ UNCHANGED <<drv, cfg, hnd, tries, err, ret>>
    <3>1. /\ pc[m] = "lookup" /\ pc'[m] = "scan" /\ rows'[m] = FindVMByName(m)
          /\ Recorded(m) /\ Alone(m) /\ ret'[m] = ret[m]
      BY <1>0, <1>7, <2>1 DEF FindList, ProcessTypeOK, Goto, Recorded, Alone, Still
    <3> QED
      BY <1>1, <1>2, <3>1 DEF Searches, RemoveGoesOn, MoveOf
  <2> QED
    BY <1>0, <1>2, <1>7, <2>1, RemoveErrorMove DEF FindList
<1>8. CASE FindFetch(m)
  <2>1. PICK ref \in rows[m], e \in ErrClass :
          /\ GetVM(ref, e)
          /\ \/ e = "nil" /\ Found(m, ref)
             \/ /\ (e = "nil" /\ ~HasTag(ref)) \/ IsNotFoundErr(e)
                /\ rows' = [rows EXCEPT ![m] = @ \ {ref}]
                /\ UNCHANGED <<pc, drv, cfg, hnd, tries, err, ret>>
             \/ RemoveReturns(m, FALSE)
    BY <1>8 DEF FindFetch
  <2>2. pc[m] = "scan"
    BY <1>8 DEF FindFetch
  <2>3. CASE e = "nil" /\ Found(m, ref)
    <3>1. At(ref) /\ LookupRef(m, ref)
      BY <2>1, <2>2, <2>3, GetVMFound DEF LookupRef
    <3> QED
      BY <1>0, <1>1, <2>3, <3>1, FoundMove
  <2>4. CASE /\ (e = "nil" /\ ~HasTag(ref)) \/ IsNotFoundErr(e)
             /\ rows' = [rows EXCEPT ![m] = @ \ {ref}]
             /\ UNCHANGED <<pc, drv, cfg, hnd, tries, err, ret>>
    <3>1. ~(At(ref) /\ HasTag(ref)) \/ "dns" \in Faults
      BY <2>1, <2>4, GetVMNotFound
    <3>2. /\ pc'[m] = "scan" /\ rows'[m] = rows[m] \ {ref}
          /\ Recorded(m) /\ Alone(m) /\ ret'[m] = ret[m]
      BY <1>0, <2>2, <2>4 DEF ProcessTypeOK, Recorded, Alone, Still
    <3> QED
      BY <1>1, <1>2, <2>2, <3>1, <3>2 DEF Searches, RemoveGoesOn, MoveOf
  <2> QED
    BY <1>0, <1>2, <2>1, <2>3, <2>4, RemoveErrorMove
<1>9. CASE FindNothing(m)
  BY <1>0, <1>1, <1>2, <1>9, RemoveDoneMove DEF FindNothing, Gone, NothingLeft
<1> QED
  BY <1>4, <1>5, <1>6, <1>7, <1>8, <1>9

\* A DELETE that was accepted and answered has started a task that the
\* process can wait for.
LEMMA DeleteAccepted ==
  ASSUME ClusterTypeOK, NEW m \in Machines, NEW ref, Delete(m, ref, "nil")
  PROVE  /\ ref.vmid \in VMIDs
         /\ task'[m] = [vmid |-> ref.vmid, exit |-> "running"]
<1>1. Deletable(ref) /\ Reply(m, ref.vmid, "nil")
  BY DEF Delete, DeleteRefusal, Fails, PostErrs
<1> QED
  BY <1>1 DEF Deletable, At, Reply, ClusterTypeOK

\* A step of the deletion that does not start a task.
LEMMA DestroyMove ==
  ASSUME ProcessTypeOK, NEW m \in Machines, pc[m] \in HoldSteps,
         NEW step \in HoldSteps \ {"deleteWait"}, Goto(m, step),
         UNCHANGED <<drv, cfg, hnd, ret, rows>>
  PROVE  MoveOf(m) /\ Alone(m) /\ pc'[m] = step
<1>1. pc'[m] = step /\ Recorded(m) /\ Alone(m)
  BY GotoMove
<1>2. Destroys(m)
  BY <1>1 DEF Destroys
<1> QED
  BY <1>1, <1>2 DEF RemoveGoesOn, MoveOf, HoldSteps, RemoveSteps

\* Shutting down and deleting the VM that was found.
LEMMA DestroyOK ==
  ASSUME TypeInv, NEW m \in Machines,
         Shutdown(m) \/ Stop(m) \/ DeleteRequest(m) \/ DeleteWait(m) \/ DeleteRetry(m)
  PROVE  StepOK
<1>0. ClusterTypeOK /\ ProcessTypeOK /\ pc[m] \in HoldSteps /\ pc[m] \in RemoveSteps
  BY DEF TypeInv, ProcessInv, Shutdown, Stop, DeleteRequest, DeleteWait,
         DeleteRetry, HoldSteps, RemoveSteps
<1>1. At(hnd[m]) =>
        /\ PoweredOff(hnd[m]).st = vms[hnd[m].vmid].st
        /\ PoweredOff(hnd[m]).by = vms[hnd[m].vmid].by
        /\ PoweredOff(hnd[m]).owner = vms[hnd[m].vmid].owner
        /\ PoweredOff(hnd[m]).node = vms[hnd[m].vmid].node
        /\ PoweredOff(hnd[m]).tagged = vms[hnd[m].vmid].tagged
  BY <1>0 DEF At, ClusterTypeOK, VM, PoweredOff
<1>2. CASE Shutdown(m)
  <2>1. PICK e \in ErrClass :
          /\ Modify(hnd[m], PoweredOff(hnd[m]), e)
          /\ Goto(m, IF e = "nil" THEN "delete" ELSE "stop")
    BY <1>2 DEF Shutdown
  <2> DEFINE step == IF e = "nil" THEN "delete" ELSE "stop"
  <2>2. step \in HoldSteps \ {"deleteWait"} /\ Goto(m, step) /\ step # "shutdown"
    BY <2>1 DEF HoldSteps
  <2> HIDE DEF step
  <2>3. MoveOf(m) /\ Alone(m) /\ pc'[m] = step
    BY <1>0, <1>2, <2>2, DestroyMove DEF Shutdown
  <2>4. pc[m] = "shutdown" /\ pc'[m] # pc[m]
    BY <1>2, <2>2, <2>3 DEF Shutdown
  <2>5. (\A i \in VMIDs : Evolves(i)) /\ TaskAlone(m)
    BY <1>0, <1>1, <2>1, <2>4, ModifyEvolves, CallTasks
  <2> QED
    BY <2>3, <2>5 DEF StepOK, StepOf, Alone, TaskAlone
<1>3. CASE Stop(m)
  <2>1. PICK e \in ErrClass :
          /\ Modify(hnd[m], PoweredOff(hnd[m]), e)
          /\ \/ RemoveReturns(m, FALSE)
             \/ Goto(m, "delete") /\ UNCHANGED <<drv, cfg, hnd, tries, err, ret, rows>>
    BY <1>3 DEF Stop
  <2>2. pc[m] = "stop"
    BY <1>3 DEF Stop
  <2>3. MoveOf(m) /\ Alone(m) /\ pc'[m] # pc[m]
    <3>1. CASE RemoveReturns(m, FALSE)
      BY <1>0, <3>1, RemoveErrorMove
    <3>2. CASE Goto(m, "delete") /\ UNCHANGED <<drv, cfg, hnd, tries, err, ret, rows>>
      <4>1. "delete" \in HoldSteps \ {"deleteWait"}
        BY DEF HoldSteps
      <4> QED
        BY <1>0, <2>2, <3>2, <4>1, DestroyMove
    <3> QED
      BY <2>1, <3>1, <3>2
  <2>4. (\A i \in VMIDs : Evolves(i)) /\ TaskAlone(m)
    BY <1>0, <1>1, <2>1, <2>2, <2>3, ModifyEvolves, CallTasks
  <2> QED
    BY <2>3, <2>4 DEF StepOK, StepOf, Alone, TaskAlone
<1>4. CASE DeleteRequest(m)
  <2>1. PICK e \in ErrClass :
          /\ Delete(m, hnd[m], e)
          /\ \/ DeleteFails(m, e)
             \/ /\ e = "nil" /\ Goto(m, "deleteWait")
                /\ UNCHANGED <<drv, cfg, hnd, tries, err, ret, rows>>
    BY <1>4 DEF DeleteRequest
  <2>2. pc[m] = "delete"
    BY <1>4 DEF DeleteRequest
  <2>3. CASE DeleteFails(m, e)
    <3>1. MoveOf(m) /\ Alone(m) /\ pc'[m] # pc[m]
      BY <1>0, <2>2, <2>3, DestroyMove DEF DeleteFails, HoldSteps
    <3>2. (\A i \in VMIDs : Evolves(i)) /\ TaskAlone(m)
      BY <1>0, <2>1, <2>2, <3>1, DeleteEvolves, CallTasks
    <3> QED
      BY <3>1, <3>2 DEF StepOK, StepOf, Alone, TaskAlone
  <2>4. CASE /\ e = "nil" /\ Goto(m, "deleteWait")
             /\ UNCHANGED <<drv, cfg, hnd, tries, err, ret, rows>>
    <3>1. pc'[m] = "deleteWait" /\ Recorded(m) /\ Alone(m)
      BY <1>0, <2>4, GotoMove
    <3>2. (\A i \in VMIDs : Evolves(i)) /\ TaskAlone(m)
      BY <1>0, <2>1, <2>2, <3>1, DeleteEvolves, CallTasks
    <3>3. /\ hnd[m].vmid \in VMIDs
          /\ task'[m] = [vmid |-> hnd[m].vmid, exit |-> "running"]
      BY <1>0, <2>1, <2>4, DeleteAccepted
    <3>4. Destroys(m) /\ ret'[m] = ret[m]
      BY <1>0, <2>4, <3>1, <3>3 DEF Destroys, HoldSteps
    <3> QED
      BY <1>0, <3>1, <3>2, <3>4
         DEF RemoveGoesOn, MoveOf, StepOK, StepOf, Alone, TaskAlone
  <2> QED
    BY <2>1, <2>3, <2>4
<1>5. CASE DeleteWait(m)
  <2>1. PICK e \in ErrClass :
          /\ WaitTask(m, e)
          /\ \/ DeleteFails(m, e)
             \/ e = "nil" /\ RemoveReturns(m, TRUE)
    BY <1>5 DEF DeleteWait
  <2>2. vms' = vms /\ TaskAlone(m) /\ pc[m] = "deleteWait"
    BY <1>0, <1>5, <2>1, CallTasks DEF WaitTask, DeleteWait
  <2>3. CASE DeleteFails(m, e)
    BY <1>0, <2>2, <2>3, DestroyMove, IdleEvolves
       DEF DeleteFails, HoldSteps, StepOK, StepOf, Alone, TaskAlone
  <2>4. CASE e = "nil" /\ RemoveReturns(m, TRUE)
    <3>1. task[m].exit = "nil"
      BY <2>1, <2>4 DEF WaitTask
    <3> QED
      BY <1>0, <2>2, <2>4, <3>1, RemoveDoneMove, IdleEvolves
         DEF NothingLeft, StepOK, StepOf, Alone, TaskAlone
  <2> QED
    BY <2>1, <2>3, <2>4
<1>6. CASE DeleteRetry(m)
  <2>1. vms' = vms /\ task' = task
    BY <1>6 DEF DeleteRetry, clusterVars
  <2>2. MoveOf(m) /\ Alone(m)
    BY <1>0, <1>6, DestroyMove, RemoveErrorMove DEF DeleteRetry, HoldSteps
  <2> QED
    BY <2>1, <2>2, IdleEvolves DEF StepOK, StepOf, Alone
<1> QED
  BY <1>2, <1>3, <1>4, <1>5, <1>6

\* Rancher starts a job or forgets a machine; a process dies.
LEMMA RancherOK ==
  ASSUME TypeInv, NEW m \in Machines,
         StartCreate(m) \/ Forget(m) \/ StartRemove(m) \/ Crash(m)
  PROVE  StepOK
<1>0. ClusterTypeOK /\ ProcessTypeOK
  BY DEF TypeInv, ProcessInv
<1>1. vms' = vms /\ TaskAlone(m)
  BY <1>0 DEF StartCreate, Forget, StartRemove, Crash, ListVMs, Fails,
              clusterVars, TaskAlone, ClusterTypeOK
<1>2. SUFFICES MoveOf(m) /\ Alone(m)
  BY <1>1, IdleEvolves DEF StepOK, StepOf, Alone, TaskAlone
<1>3. CASE StartCreate(m)
  <2>1. pc[m] = "new"
    BY <1>3 DEF StartCreate
  <2>2. CASE CreateFails(m)
    BY <1>0, <2>1, <2>2, CreateFailsMove DEF MoveOf
  <2>3. CASE Goto(m, "pick") /\ UNCHANGED <<hnd, err, ret, locals>>
    <3>1. pc'[m] = "pick" /\ Recorded(m) /\ Alone(m)
      BY <1>0, <2>3, GotoMove DEF locals
    <3> QED
      BY <1>1, <2>1, <3>1 DEF MoveOf, Begins, Cloning, CloneSteps, CleanSteps
  <2> QED
    BY <1>3, <2>2, <2>3 DEF StartCreate
<1>4. CASE Forget(m)
  BY <1>0, <1>4, ExitMove DEF Forget, Forgets, MoveOf
<1>5. CASE StartRemove(m)
  <2>1. /\ pc'[m] = "lookup" /\ drv'[m] = cfg[m] /\ cfg'[m] = cfg[m]
        /\ ret'[m] = "rancher" /\ Alone(m)
    BY <1>0, <1>5 DEF StartRemove, ProcessTypeOK, Goto, Alone, Still
  <2> QED
    BY <1>5, <2>1 DEF StartRemove, EntersRemove, MoveOf
<1>6. CASE Crash(m)
  BY <1>0, <1>1, <1>6, ExitMove DEF Crash, Dies, MoveOf
<1> QED
  BY <1>3, <1>4, <1>5, <1>6

\* A task that ends tells the process that waits for it how.
LEMMA ClusterTasks ==
  ASSUME TypeInv, ClusterStep, NEW k \in Machines
  PROVE  TaskStill(k)
<1>0. ClusterTypeOK
  BY DEF TypeInv
<1>1. ASSUME NEW id \in VMIDs, NEW e \in ErrClass, Exits(id, e)
      PROVE  \/ task'[k] = task[k]
             \/ /\ task[k].exit = "running" /\ task[k].vmid = id
                /\ task'[k].exit = e /\ task'[k].vmid = id
  <2>1. task[k] \in Task
    BY <1>0 DEF ClusterTypeOK
  <2> QED
    BY <1>0, <1>1, <2>1 DEF Exits, ClusterTypeOK, Task
<1>2. PICK id \in VMIDs : TaskEnds(id) \/ task' = task
  BY DEF ClusterStep, Migrate, ForeignCreate, ForeignDelete, Power
<1>3. TaskEnds(id) => vms'[id].st \in {"free", "idle"}
  <2>1. vms[id] \in VM
    BY <1>0 DEF ClusterTypeOK
  <2>2. Unlocked(vms[id]).st = "idle" /\ FreeVM.st = "free"
    BY <2>1 DEF Unlocked, FreeVM, VM
  <2>3. TaskEnds(id) => \/ vms' = [vms EXCEPT ![id] = Unlocked(vms[id])]
                        \/ vms' = [vms EXCEPT ![id] = FreeVM]
    BY DEF TaskEnds, CloneTaskSucceeds, CloneTaskFails, DeleteTaskSucceeds,
           DeleteTaskFails
  <2> QED
    BY <1>0, <2>2, <2>3 DEF ClusterTypeOK
<1>4. CASE CloneTaskSucceeds(id)
  BY <1>1, <1>3, <1>4 DEF CloneTaskSucceeds, TaskStill, TaskEnds, ErrClass
<1>5. CASE DeleteTaskSucceeds(id)
  <2>1. vms'[id] = FreeVM
    BY <1>0, <1>5 DEF DeleteTaskSucceeds, ClusterTypeOK
  <2> QED
    BY <1>1, <1>3, <1>5, <2>1 DEF DeleteTaskSucceeds, TaskStill, TaskEnds, ErrClass
<1>6. CASE CloneTaskFails(id) \/ DeleteTaskFails(id)
  <2>1. PICK e \in ExitErrs : Inject(e) /\ Exits(id, e)
    BY <1>6 DEF CloneTaskFails, DeleteTaskFails
  <2>2. e \in ErrClass /\ e # "running" /\ Faulty
    BY <2>1 DEF Inject, Faulty, ErrClass, ExitErrs
  <2> QED
    BY <1>1, <1>3, <1>6, <2>1, <2>2 DEF TaskStill, TaskEnds
<1> QED
  BY <1>2, <1>4, <1>5, <1>6 DEF TaskEnds, TaskStill

\* A step of the cluster's own.
LEMMA ClusterOK ==
  ASSUME TypeInv, ClusterStep, UNCHANGED procVars
  PROVE  StepOK
<1>1. \A k \in Machines : Still(k)
  BY DEF procVars, Still
<1>2. \A k \in Machines : TaskStill(k)
  BY ClusterTasks
<1> QED
  BY <1>1, <1>2, ClusterEvolves DEF StepOK, ClusterOnly, TypeInv

\* Every step is one of the steps described here.
LEMMA NextOK ==
  ASSUME TypeInv, CleanUpCaller, [Next]_vars
  PROVE  StepOK
<1>1. CASE UNCHANGED vars
  <2>1. \A k \in Machines : Still(k) /\ TaskStill(k)
    BY <1>1 DEF vars, clusterVars, procVars, Still, TaskStill
  <2> QED
    BY <1>1, <2>1, IdleEvolves DEF vars, clusterVars, StepOK, ClusterOnly
<1>2. CASE ClusterStep /\ UNCHANGED procVars
  BY <1>2, ClusterOK
<1>3. ASSUME NEW m \in Machines,
             StartCreate(m) \/ ProcessStep(m) \/ StartRemove(m) \/ Crash(m)
      PROVE  StepOK
  BY <1>3, CloneTaskMove, CleanUpOK, TagCloneOK, ProvisionOK, LookupOK, DestroyOK,
     RancherOK
     DEF ProcessStep, CloneStep, RemoveStep
<1> QED
  BY <1>1, <1>2, <1>3 DEF Next, Finished

=============================================================================
