----------------------------- MODULE NodeDriver -----------------------------
(***************************************************************************)
(* The node driver as Rancher uses it: for every machine a create job      *)
(* (PreCreateCheck, Create) and, when the machine is deleted or its        *)
(* creation failed, rm jobs (Remove) until one succeeds.  The jobs of      *)
(* different machines run in parallel against one PVE cluster, may die at  *)
(* any point, and share nothing but the cluster and the ownership tag.     *)
(***************************************************************************)
EXTENDS CloneFromTemplate, RemoveVM

-----------------------------------------------------------------------------
(* Create (pkg/driver/create.go).                                          *)

\* Rancher has checked (PreCreateCheck) and saved the machine; Create
\* resolves the placement again and enters CloneFromTemplate, or gives up.
StartCreate(m) ==
  /\ pc[m] = "new"
  /\ \E e \in ErrClass :
       /\ ListVMs(e)
       /\ \/ e # "nil" /\ CreateFails(m)
          \/ /\ e = "nil"
             /\ Goto(m, "pick")
             /\ tries' = [tries EXCEPT ![m] = 1]
             /\ UNCHANGED <<hnd, err, ret, locals>>

\* provision returned an error: the VM is kept or Create calls Remove.
ProvisionFails(m) ==
  \/ m \in KeepOnFailure /\ CreateFails(m)
  \/ /\ m \notin KeepOnFailure
     /\ Goto(m, "lookup")
     /\ ret' = [ret EXCEPT ![m] = "create"]
     /\ hnd' = [hnd EXCEPT ![m] = NoRef]
     /\ UNCHANGED <<drv, cfg, tries, err, rows>>

\* A call of provision that turns the VM into vm; then comes step.
Provision(m, vm, step) ==
  \E e \in ErrClass :
    /\ Modify(hnd[m], vm, e)
    /\ \/ e # "nil" /\ ProvisionFails(m)
       \/ /\ e = "nil"
          /\ Goto(m, step)
          /\ UNCHANGED <<hnd, tries, err, ret, locals>>

\* ApplyConfig; a larger disk than the template's comes next.
ConfigureVM(m) ==
  /\ pc[m] = "config"
  /\ \E step \in {"resize", "start"} : Provision(m, vms[hnd[m].vmid], step)

ResizeVMDisk(m) == pc[m] = "resize" /\ Provision(m, vms[hnd[m].vmid], "start")

StartVM(m) ==
  /\ pc[m] = "start"
  /\ Provision(m, [vms[hnd[m].vmid] EXCEPT !.power = "running"], "waitip")

\* Ping and WaitForIP.  A VM that is gone or off has no agent to answer, so
\* the wait runs into its timeout.  On success Create returns and Rancher
\* saves the machine.
WaitForIP(m) ==
  /\ pc[m] = "waitip"
  /\ \/ /\ At(hnd[m]) /\ IsRunning(hnd[m])
        /\ UNCHANGED clusterVars
        /\ Exit(m, "up", drv[m])
     \/ /\ ~(At(hnd[m]) /\ IsRunning(hnd[m]))
        /\ UNCHANGED clusterVars
        /\ ProvisionFails(m)
     \/ /\ \E e \in ReadErrs \cup {"noip"} : Inject(e)
        /\ UNCHANGED <<vms, task, first, reused>>
        /\ ProvisionFails(m)

ProvisionStep(m) == ConfigureVM(m) \/ ResizeVMDisk(m) \/ StartVM(m) \/ WaitForIP(m)

-----------------------------------------------------------------------------
(* Rancher.                                                                *)

\* An rm job: a new process loads config.json and calls Remove.
StartRemove(m) ==
  /\ pc[m] \in {"up", "failed", "crashed", "rmfailed"}
  /\ Goto(m, "lookup")
  /\ drv' = [drv EXCEPT ![m] = cfg[m]]
  /\ ret' = [ret EXCEPT ![m] = "rancher"]
  /\ UNCHANGED <<clusterVars, cfg, hnd, tries, err, rows>>

\* Remove succeeded: the machine's directory, config.json with it, goes.
Forget(m) ==
  /\ pc[m] = "removed"
  /\ Exit(m, "gone", NoRef)
  /\ UNCHANGED clusterVars

\* The process dies; a request already sent takes effect nevertheless.
Crash(m) ==
  /\ pc[m] \in LiveSteps \cup {"removed"}
  /\ Inject("crash")
  /\ task' = [task EXCEPT ![m] = NoTask]
  /\ Exit(m, "crashed", cfg[m])
  /\ UNCHANGED <<vms, first, reused>>

ProcessStep(m) == CloneStep(m) \/ ProvisionStep(m) \/ RemoveStep(m) \/ Forget(m)

\* Every machine is gone and no task runs: nothing is left to do.
Finished ==
  /\ \A m \in Machines : pc[m] = "gone"
  /\ \A id \in VMIDs : vms[id].st \in {"free", "idle"}
  /\ UNCHANGED vars

-----------------------------------------------------------------------------
Init == ClusterInit /\ ProcessInit

Next ==
  \/ \E m \in Machines :
        StartCreate(m) \/ ProcessStep(m) \/ StartRemove(m) \/ Crash(m)
  \/ ClusterStep /\ UNCHANGED procVars
  \/ Finished

Spec == Init /\ [][Next]_vars

\* A process that can take a step does; a PVE task ends; Rancher runs rm again
\* until it succeeds.  Nobody has to delete a machine that is up.
Fairness ==
  /\ \A m \in Machines :
       /\ WF_vars(ProcessStep(m))
       /\ WF_vars(pc[m] # "up" /\ StartRemove(m))
  /\ \A id \in VMIDs : WF_vars(TaskEnds(id) /\ UNCHANGED procVars)

FairSpec == Spec /\ Fairness

-----------------------------------------------------------------------------
(* Properties.                                                             *)

TypeOK == ClusterTypeOK /\ ProcessTypeOK

NamesDistinct == \A a, b \in Machines : NameOf[a] = NameOf[b] => a = b

\* With distinct machine names no process destroys a VM that another machine
\* or somebody else made, as long as the VMID has had one owner only (README: "it never destroys a VM
\* it doesn't own"; remove.go, bestEffortDelete).
DeleteOnlyOwnUnlessReused ==
  \A id \in VMIDs :
    vms[id].st = "deleting" => vms[id].owner = vms[id].by \/ id \in reused

\* A VMID in config.json or in Driver.VMID never makes the machine's own VM
\* unremovable: if it still leads to it, that VM carries the tag (create.go
\* records the VMID after CloneFromTemplate has written the tag).
RecordedVMIsTagged ==
  \A m \in Machines : \A r \in {drv[m], cfg[m]} :
    r.vmid # NoVMID /\ vms[r.vmid].owner = m => vms[r.vmid].tagged

\* When Remove has reported success, no VM of that machine with the ownership
\* tag is left anywhere, unless VMIDs were reused, a name server hiccup was
\* taken for "not found" or a VM moved during the lookup.
RemovedLeavesNoTaggedVM ==
  Faults \cap {"dns", "migrate"} = {} =>
    \A m \in Machines, id \in VMIDs :
      pc[m] \in {"removed", "gone"} /\ vms[id].owner = m /\ vms[id].tagged
        => reused # {}

\* A machine Rancher believes to be up has its VM: tagged, running, not being
\* destroyed, whatever the other machines' processes did meanwhile, unless
\* its VMID was reused or somebody deleted or stopped VMs by hand.
UpMachineHasItsVM ==
  Faults \cap {"purge", "power"} = {} =>
    \A m \in Machines :
      pc[m] = "up" =>
        LET vm == vms[cfg[m].vmid]
        IN  \/ vm.owner = m /\ vm.tagged /\ vm.power = "running" /\ vm.st = "idle"
            \/ cfg[m].vmid \in reused

\* The machine never has two tagged VMs, so the first match of
\* FindVMByNameAndTag is the only one: a create that has written the tag never
\* clones again, even if the reply to the write was lost.
AtMostOneTaggedVM ==
  \A m \in Machines, i, j \in VMIDs :
    /\ vms[i].owner = m /\ vms[i].tagged
    /\ vms[j].owner = m /\ vms[j].tagged
    /\ reused = {}
    => i = j

\* After a failed Create without --pvenode-keep-on-failure no VM of the
\* machine is left, except under a VMID that two machines have used: Create's
\* and CloneFromTemplate's cleanups see to it, whichever step failed.
FailedCreateCleansUp ==
  \A m \in Machines \ KeepOnFailure, id \in VMIDs :
    pc[m] = "failed" => vms[id].owner # m \/ id \in reused

\* A create job ends: its retries, waits and cleanups are all bounded.
CreateReturns == \A m \in Machines : pc[m] = "pick" ~> pc[m] \in Resting

\* Rancher's rm jobs get rid of a machine whose create failed or died, and of
\* one whose removal failed, however often, also if its VM is started between
\* the lookup and the DELETE; a reused VMID may block them, and so does a paused
\* VM, which Remove does not stop and PVE does not delete.
EventuallyGone ==
  \A m \in Machines :
    pc[m] \in {"failed", "crashed", "rmfailed"}
      ~> \/ pc[m] = "gone"
         \/ reused # {}
         \/ \E id \in VMIDs : vms[id].owner = m /\ vms[id].power = "paused"

-----------------------------------------------------------------------------
(* What the documentation says and the code does not keep in every case.   *)

\* README: the driver "never destroys a VM it doesn't own, even if a name or
\* VMID collides".
NeverDestroysForeignVM ==
  \A id \in VMIDs : vms[id].st = "deleting" => vms[id].owner = vms[id].by

\* README: "a failed `Create` cleans up after itself".
FailedCreateLeavesNothing ==
  \A m \in Machines \ KeepOnFailure, id \in VMIDs :
    pc[m] = "failed" => vms[id].owner # m

\* driver.go: lookupVM "returns (nil, nil) when the VM is gone", and only
\* then Remove reports success without having deleted anything.
RemovedMeansGone ==
  \A m \in Machines, id \in VMIDs :
    pc[m] \in {"removed", "gone"} /\ reused = {}
      => ~(vms[id].owner = m /\ vms[id].tagged)

=============================================================================
