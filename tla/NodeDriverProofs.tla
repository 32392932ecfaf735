-------------------------- MODULE NodeDriverProofs --------------------------
(***************************************************************************)
(* Theorems about NodeDriver, for any number of machines, VMIDs, nodes and *)
(* faults, any attempts, and any names that are different for different    *)
(* machines.                                                               *)
(***************************************************************************)
EXTENDS NodeDriver, TLAPS

-----------------------------------------------------------------------------
(* Type correctness.  First the calls to the cluster.                      *)

\* A fault keeps the budget a natural number within its bound.
LEMMA InjectType ==
  ASSUME ClusterTypeOK, NEW f, Inject(f)
  PROVE  budget' \in 0..MaxFaults
BY FaultAssumption DEF ClusterTypeOK, Inject

\* The constant VM records are VMs.
LEMMA FreeVMType == FreeVM \in VM
BY DEF FreeVM, VM, Powers, Owners

\* A VM whose task ended is a VM.
LEMMA UnlockedType == ASSUME NEW vm \in VM PROVE Unlocked(vm) \in VM
BY DEF Unlocked, VM, Owners

\* A call that fails (any request of pkg/pve) keeps the cluster's types.
LEMMA FailsType ==
  ASSUME ClusterTypeOK, NEW errs, NEW e, Fails(errs, e)
  PROVE  ClusterTypeOK'
BY InjectType DEF ClusterTypeOK, Fails

\* Reading changes nothing but the fault budget.
LEMMA GetVMType ==
  ASSUME ClusterTypeOK, NEW ref, NEW e, GetVM(ref, e)
  PROVE  ClusterTypeOK'
BY FailsType DEF ClusterTypeOK, GetVM, clusterVars

\* ListVMs keeps the cluster's types.
LEMMA ListVMsType ==
  ASSUME ClusterTypeOK, NEW e, ListVMs(e)
  PROVE  ClusterTypeOK'
BY FailsType DEF ClusterTypeOK, ListVMs, clusterVars

\* WaitTask keeps the cluster's types.
LEMMA WaitTaskType ==
  ASSUME ClusterTypeOK, NEW m \in Machines, NEW e, WaitTask(m, e)
  PROVE  ClusterTypeOK'
<1>1. budget' \in 0..MaxFaults
  BY InjectType DEF WaitTask, ClusterTypeOK
<1>2. NoTask \in Task
  BY DEF NoTask, Task, ErrClass
<1> QED
  BY <1>1, <1>2 DEF WaitTask, ClusterTypeOK

\* The reply to a request that starts a task keeps task and budget typed.
LEMMA ReplyType ==
  ASSUME ClusterTypeOK, NEW m \in Machines, NEW id \in VMIDs, NEW e,
         Reply(m, id, e)
  PROVE  task' \in [Machines -> Task] /\ budget' \in 0..MaxFaults
<1>1. [vmid |-> id, exit |-> "running"] \in Task
  BY DEF Task
<1>2. budget' \in 0..MaxFaults
  BY InjectType DEF Reply, ClusterTypeOK
<1> QED
  BY <1>1, <1>2 DEF Reply, ClusterTypeOK

\* A VM that appears under a free VMID keeps vms, first and reused typed.
LEMMA ClaimType ==
  ASSUME ClusterTypeOK, NEW id \in VMIDs, NEW o \in Owners, NEW vm \in VM,
         Claim(id, o, vm)
  PROVE  /\ vms' \in [VMIDs -> VM]
         /\ first' \in [VMIDs -> Owners]
         /\ reused' \in SUBSET VMIDs
BY DEF Claim, ClusterTypeOK

\* The clone request keeps the cluster's types, whatever it returns.
LEMMA CloneType ==
  ASSUME ClusterTypeOK, NEW m \in Machines, NEW id \in VMIDs, NEW e,
         Clone(m, id, e)
  PROVE  ClusterTypeOK'
<1> DEFINE vm == [st |-> "cloning", owner |-> m, name |-> NameOf[m],
                  tagged |-> FALSE, power |-> "stopped",
                  node |-> NodeOf[m], by |-> m]
<1>1. CASE Claim(id, m, vm) /\ Reply(m, id, e)
  <2>1. vm \in VM /\ m \in Owners
    BY NameAssumption, NodeAssumption DEF VM, Powers, Owners
  <2> HIDE DEF vm
  <2> QED
    BY <1>1, <2>1, ClaimType, ReplyType DEF ClusterTypeOK
<1>2. CASE UNCHANGED clusterVars
  BY <1>2 DEF clusterVars, ClusterTypeOK
<1>3. CASE Fails(PostErrs, e)
  BY <1>3, FailsType
<1> QED
  BY <1>1, <1>2, <1>3 DEF Clone

\* The delete request keeps the cluster's types, whatever it returns.
LEMMA DeleteType ==
  ASSUME ClusterTypeOK, NEW m \in Machines, NEW ref \in Ref, NEW e,
         Delete(m, ref, e)
  PROVE  ClusterTypeOK'
<1>1. CASE /\ Deletable(ref)
           /\ vms' = [vms EXCEPT ![ref.vmid].st = "deleting", ![ref.vmid].by = m]
           /\ Reply(m, ref.vmid, e)
           /\ UNCHANGED <<first, reused>>
  <2>1. ref.vmid \in VMIDs
    BY <1>1 DEF Deletable, At
  <2>2. vms' \in [VMIDs -> VM]
    BY <1>1, <2>1 DEF ClusterTypeOK, VM, Owners
  <2> QED
    BY <1>1, <2>1, <2>2, ReplyType DEF ClusterTypeOK
<1>2. CASE UNCHANGED clusterVars
  BY <1>2 DEF clusterVars, ClusterTypeOK
<1>3. CASE Fails(PostErrs, e)
  BY <1>3, FailsType
<1> QED
  BY <1>1, <1>2, <1>3 DEF Delete

\* A configuration or power task keeps the cluster's types.
LEMMA ModifyType ==
  ASSUME ClusterTypeOK, NEW ref \in Ref, NEW vm, NEW e, Modify(ref, vm, e),
         ref.vmid \in VMIDs => vm \in VM
  PROVE  ClusterTypeOK'
<1>1. CASE UNCHANGED clusterVars
  BY <1>1 DEF clusterVars, ClusterTypeOK
<1>2. CASE Fails(PostErrs, e)
  BY <1>2, FailsType
<1>3. CASE /\ At(ref)
           /\ vms' = [vms EXCEPT ![ref.vmid] = vm]
           /\ \/ e = "nil" /\ UNCHANGED budget
              \/ e = "net" /\ Inject("lost")
              \/ e = "timeout" /\ Inject("timeout")
           /\ UNCHANGED <<task, first, reused>>
  BY <1>3, InjectType DEF ClusterTypeOK, At
<1> QED
  BY <1>1, <1>2, <1>3 DEF Modify

\* Whatever PVE does by itself keeps the types.
LEMMA ExitsType ==
  ASSUME ClusterTypeOK, NEW id \in VMIDs, NEW e \in ErrClass, Exits(id, e)
  PROVE  task' \in [Machines -> Task]
BY DEF Exits, ClusterTypeOK, Task

\* Every step of the cluster on its own keeps its types.
LEMMA ClusterStepType ==
  ASSUME ClusterTypeOK, ClusterStep
  PROVE  ClusterTypeOK'
<1> USE DEF ClusterTypeOK
<1>1. PICK id \in VMIDs :
         \/ TaskEnds(id)
         \/ \E n \in Nodes : Migrate(id, n)
         \/ \E n \in Nodes, name \in Names : ForeignCreate(id, name, n)
         \/ ForeignDelete(id)
         \/ \E p \in Powers : Power(id, p)
  BY DEF ClusterStep
<1>2. CASE CloneTaskSucceeds(id)
  <2>1. vms' \in [VMIDs -> VM]
    BY <1>2, UnlockedType DEF CloneTaskSucceeds
  <2>2. task' \in [Machines -> Task]
    BY <1>2, ExitsType DEF CloneTaskSucceeds, ErrClass
  <2> QED
    BY <1>2, <2>1, <2>2 DEF CloneTaskSucceeds
<1>3. CASE CloneTaskFails(id)
  <2>1. PICK e \in ExitErrs, left \in BOOLEAN :
          /\ Inject(e)
          /\ vms' = [vms EXCEPT ![id] =
                       IF left THEN Unlocked(@) ELSE FreeVM]
          /\ Exits(id, e)
    BY <1>3 DEF CloneTaskFails
  <2>2. vms' \in [VMIDs -> VM]
    BY <2>1, FreeVMType, UnlockedType
  <2>3. task' \in [Machines -> Task]
    BY <2>1, ExitsType DEF ExitErrs, ErrClass
  <2> QED
    BY <1>3, <2>1, <2>2, <2>3, InjectType DEF CloneTaskFails
<1>4. CASE DeleteTaskSucceeds(id)
  BY <1>4, ExitsType, FreeVMType DEF DeleteTaskSucceeds, ErrClass
<1>5. CASE DeleteTaskFails(id)
  <2>1. vms' \in [VMIDs -> VM]
    BY <1>5, UnlockedType DEF DeleteTaskFails
  <2>2. task' \in [Machines -> Task] /\ budget' \in 0..MaxFaults
    BY <1>5, ExitsType, InjectType DEF DeleteTaskFails, ExitErrs, ErrClass
  <2> QED
    BY <1>5, <2>1, <2>2 DEF DeleteTaskFails
<1>6. CASE \E n \in Nodes : Migrate(id, n)
  BY <1>6, InjectType DEF Migrate, VM
<1>7. CASE \E n \in Nodes, name \in Names : ForeignCreate(id, name, n)
  <2>1. PICK n \in Nodes, name \in Names : ForeignCreate(id, name, n)
    BY <1>7
  <2> DEFINE vm == [st |-> "idle", owner |-> Foreign, name |-> name,
                    tagged |-> FALSE, power |-> "stopped",
                    node |-> n, by |-> NoOne]
  <2>2. vm \in VM /\ Foreign \in Owners
    BY DEF VM, Powers, Owners
  <2>3. Claim(id, Foreign, vm) /\ Inject("foreign") /\ UNCHANGED task
    BY <2>1 DEF ForeignCreate
  <2> HIDE DEF vm
  <2> QED
    BY <2>2, <2>3, ClaimType, InjectType
<1>8. CASE ForeignDelete(id)
  BY <1>8, FreeVMType, InjectType DEF ForeignDelete
<1>9. CASE \E p \in Powers : Power(id, p)
  BY <1>9, InjectType DEF Power, VM
<1> QED
  BY <1>1, <1>2, <1>3, <1>4, <1>5, <1>6, <1>7, <1>8, <1>9 DEF TaskEnds

-----------------------------------------------------------------------------
(* The moves of a process.                                                 *)

Steps == LiveSteps \cup Resting

\* The control points that the actions name are the ones pc may have.
LEMMA StepNames ==
  /\ Resting \subseteq Steps
  /\ {"pick", "post", "await", "retry", "cleanRead", "cleanDelete",
      "cleanWait", "read", "tag", "config", "resize", "start", "waitip",
      "lookup", "list", "fetch", "scan", "shutdown", "stop", "delete", "deleteWait",
      "deleteRetry"} \subseteq Steps
BY DEF Steps, LiveSteps, Resting, CloneSteps, ProvisionSteps, RemoveSteps

\* A process that has picked a VMID has one in its hand.
PickedVMID == \A m \in Machines : pc[m] = "post" => hnd[m].vmid \in VMIDs

ProcessInv == ProcessTypeOK /\ PickedVMID

\* The zero values of Driver.VMID and Driver.PVENode are a handle.
LEMMA NoRefType == NoRef \in Ref
BY DEF NoRef, Ref

\* A process that ends leaves its variables typed.
LEMMA ExitType ==
  ASSUME ProcessInv, NEW m \in Machines, NEW rest \in Resting, NEW saved \in Ref,
         Exit(m, rest, saved)
  PROVE  ProcessInv'
<1>1. ProcessTypeOK'
  BY NoRefType, StepNames, AttemptsAssumption
     DEF ProcessInv, ProcessTypeOK, Exit, Goto, ErrClass, Steps, MaxAttempts
<1>2. PickedVMID'
  BY DEF ProcessInv, ProcessTypeOK, PickedVMID, Exit, Goto, Resting
<1> QED
  BY <1>1, <1>2 DEF ProcessInv

\* Create's error return keeps the process variables typed.
LEMMA CreateFailsType ==
  ASSUME ProcessInv, NEW m \in Machines, CreateFails(m)
  PROVE  ProcessInv'
<1>1. PICK saved \in {cfg[m], drv[m]} : Exit(m, "failed", saved)
  BY DEF CreateFails
<1>2. saved \in Ref
  BY DEF ProcessInv, ProcessTypeOK
<1> QED
  BY <1>1, <1>2, ExitType DEF Resting

\* Remove's return, to Create or to Rancher, keeps them typed.
LEMMA RemoveReturnsType ==
  ASSUME ProcessInv, NEW m \in Machines, NEW ok, RemoveReturns(m, ok)
  PROVE  ProcessInv'
<1>1. cfg[m] \in Ref
  BY DEF ProcessInv, ProcessTypeOK
<1>2. (IF ok THEN "removed" ELSE "rmfailed") \in Resting
  BY DEF Resting
<1> QED
  BY <1>1, <1>2, ExitType, CreateFailsType DEF RemoveReturns

\* A step that moves m's process to a live step other than "post" and keeps
\* the types of what it writes.
LEMMA MoveType ==
  ASSUME ProcessInv, NEW m \in Machines, NEW step \in Steps, step # "post",
         Goto(m, step),
         drv' \in [Machines -> Ref], cfg' \in [Machines -> Ref],
         hnd' \in [Machines -> Ref],
         \A k \in Machines : k # m => hnd'[k] = hnd[k],
         tries' \in [Machines -> 0..MaxAttempts],
         err' \in [Machines -> ErrClass],
         ret' \in [Machines -> {"retry", "create", "rancher"}],
         rows' \in [Machines -> SUBSET Row]
  PROVE  ProcessInv'
<1>1. pc' \in [Machines -> LiveSteps \cup Resting]
  BY DEF ProcessInv, ProcessTypeOK, Goto, Steps
<1>2. PickedVMID'
  BY DEF ProcessInv, ProcessTypeOK, PickedVMID, Goto
<1> QED
  BY <1>1, <1>2 DEF ProcessInv, ProcessTypeOK

\* The process only moves on.
LEMMA PlainMoveType ==
  ASSUME ProcessInv, NEW m \in Machines, NEW step \in Steps, step # "post",
         Goto(m, step), UNCHANGED <<drv, cfg, hnd, tries, err, ret, rows>>
  PROVE  ProcessInv'
BY MoveType DEF ProcessInv, ProcessTypeOK

\* A failed clone attempt keeps the process variables typed.
LEMMA AttemptFailsType ==
  ASSUME ProcessInv, NEW m \in Machines, NEW e \in ErrClass, AttemptFails(m, e)
  PROVE  ProcessInv'
BY MoveType, StepNames, NoRefType
   DEF ProcessInv, ProcessTypeOK, AttemptFails, locals

\* Entering bestEffortDelete keeps them typed.
LEMMA CleanUpType ==
  ASSUME ProcessInv, NEW m \in Machines, NEW e \in ErrClass,
         NEW caller \in {"retry", "create"}, CleanUp(m, e, caller)
  PROVE  ProcessInv'
BY MoveType, StepNames DEF ProcessInv, ProcessTypeOK, CleanUp, locals

\* Returning from bestEffortDelete keeps them typed.
LEMMA CleanUpReturnsType ==
  ASSUME ProcessInv, NEW m \in Machines, CleanUpReturns(m)
  PROVE  ProcessInv'
BY PlainMoveType, CreateFailsType, StepNames DEF CleanUpReturns, locals

\* lookupVM's successful return keeps them typed.
LEMMA FoundType ==
  ASSUME ProcessInv, NEW m \in Machines, NEW ref \in Ref, Found(m, ref)
  PROVE  ProcessInv'
<1>1. CASE RemoveReturns(m, FALSE)
  BY <1>1, RemoveReturnsType
<1>2. CASE /\ Goto(m, IF IsRunning(ref) THEN "shutdown" ELSE "delete")
           /\ hnd' = [hnd EXCEPT ![m] = ref]
           /\ tries' = [tries EXCEPT ![m] = 1]
           /\ rows' = [rows EXCEPT ![m] = {}]
           /\ UNCHANGED <<drv, cfg, err, ret>>
  <2>1. 1 \in 0..MaxAttempts
    BY AttemptsAssumption DEF MaxAttempts
  <2> DEFINE step == IF IsRunning(ref) THEN "shutdown" ELSE "delete"
  <2>2. step \in Steps /\ step # "post" /\ Goto(m, step)
    BY <1>2, StepNames
  <2> HIDE DEF step
  <2> QED
    BY <1>2, <2>1, <2>2, MoveType DEF ProcessInv, ProcessTypeOK
<1> QED
  BY <1>1, <1>2 DEF Found

-----------------------------------------------------------------------------
(* The actions of the specification.                                       *)

TypeInv == ClusterTypeOK /\ ProcessInv

\* One more attempt stays within the larger of the two limits.
LEMMA NextAttempt ==
  ASSUME ProcessTypeOK, NEW m \in Machines, NEW r,
         NEW n \in {CloneAttempts, DeleteAttempts}, RetryAgain(r, tries[m], n)
  PROVE  [tries EXCEPT ![m] = @ + 1] \in [Machines -> 0..MaxAttempts]
BY AttemptsAssumption DEF ProcessTypeOK, RetryAgain, MaxAttempts

\* Every step of CloneFromTemplate preserves the type invariant.
LEMMA CloneStepType ==
  ASSUME TypeInv, NEW m \in Machines, CloneStep(m)
  PROVE  TypeInv'
<1>0. ProcessInv /\ ClusterTypeOK /\ ProcessTypeOK /\ hnd[m] \in Ref
      /\ err[m] \in ErrClass
  BY DEF TypeInv, ProcessInv, ProcessTypeOK
<1>1. CASE RandomFreeVMID(m)
  <2>1. PICK e \in ErrClass :
          /\ ListVMs(e)
          /\ \/ e # "nil" /\ AttemptFails(m, e)
             \/ e = "nil" /\ FreeVMIDs = {} /\ AttemptFails(m, "fatal")
             \/ /\ e = "nil"
                /\ \E id \in FreeVMIDs :
                     hnd' = [hnd EXCEPT ![m] = [vmid |-> id, node |-> NodeOf[m]]]
                /\ Goto(m, "post")
                /\ UNCHANGED <<tries, err, ret, locals>>
    BY <1>1 DEF RandomFreeVMID
  <2>2. CASE AttemptFails(m, e) \/ AttemptFails(m, "fatal")
    BY <1>0, <2>1, <2>2, ListVMsType, AttemptFailsType DEF ErrClass, TypeInv
  <2>3. CASE /\ \E id \in FreeVMIDs :
                  hnd' = [hnd EXCEPT ![m] = [vmid |-> id, node |-> NodeOf[m]]]
             /\ Goto(m, "post")
             /\ UNCHANGED <<tries, err, ret, locals>>
    <3>1. PICK id \in FreeVMIDs :
            hnd' = [hnd EXCEPT ![m] = [vmid |-> id, node |-> NodeOf[m]]]
      BY <2>3
    <3>2. id \in VMIDs /\ [vmid |-> id, node |-> NodeOf[m]] \in Ref
      BY RangeAssumption, NodeAssumption DEF FreeVMIDs, Ref
    <3>3. ProcessTypeOK'
      BY <1>0, <2>3, <3>1, <3>2, StepNames
         DEF ProcessTypeOK, Goto, locals, Steps
    <3>4. PickedVMID'
      BY <1>0, <2>3, <3>1, <3>2
         DEF ProcessInv, ProcessTypeOK, PickedVMID, Goto
    <3> QED
      BY <1>0, <2>1, <3>3, <3>4, ListVMsType DEF TypeInv, ProcessInv
  <2> QED
    BY <2>1, <2>2, <2>3
<1>2. CASE CloneRequest(m)
  <2>1. hnd[m].vmid \in VMIDs
    BY <1>0, <1>2 DEF CloneRequest, ProcessInv, PickedVMID
  <2>2. PICK e \in ErrClass :
          /\ Clone(m, hnd[m].vmid, e)
          /\ \/ AttemptFails(m, e)
             \/ Goto(m, "await") /\ UNCHANGED <<hnd, tries, err, ret, locals>>
    BY <1>2 DEF CloneRequest
  <2> QED
    BY <1>0, <2>1, <2>2, CloneType, AttemptFailsType, PlainMoveType, StepNames
       DEF TypeInv, locals
<1>3. CASE AwaitClone(m)
  <2>1. PICK e \in ErrClass :
          /\ WaitTask(m, e)
          /\ \/ CleanUp(m, e, "retry")
             \/ Goto(m, "read") /\ UNCHANGED <<hnd, tries, err, ret, locals>>
    BY <1>3 DEF AwaitClone
  <2> QED
    BY <1>0, <2>1, WaitTaskType, CleanUpType, PlainMoveType, StepNames
       DEF TypeInv, locals
<1>4. CASE CloneRetry(m)
  <2>1. ClusterTypeOK'
    BY <1>0, <1>4 DEF CloneRetry, ClusterTypeOK, clusterVars
  <2>2. CASE CreateFails(m)
    BY <1>0, <2>1, <2>2, CreateFailsType DEF TypeInv
  <2>3. CASE /\ RetryAgain(CloneRetryable(err[m]), tries[m], CloneAttempts)
             /\ Goto(m, "pick")
             /\ tries' = [tries EXCEPT ![m] = @ + 1]
             /\ hnd' = [hnd EXCEPT ![m] = NoRef]
             /\ UNCHANGED <<err, ret, locals>>
    <3>1. tries' \in [Machines -> 0..MaxAttempts]
      BY <1>0, <2>3, NextAttempt
    <3>2. ProcessInv'
      BY <1>0, <2>3, <3>1, MoveType, StepNames, NoRefType
         DEF ProcessTypeOK, locals
    <3> QED
      BY <2>1, <3>2 DEF TypeInv
  <2> QED
    BY <1>4, <2>2, <2>3 DEF CloneRetry
<1>5. CASE CleanUpRead(m)
  <2>1. PICK e \in ErrClass :
          /\ GetVM(hnd[m], e)
          /\ \/ CleanUpReturns(m)
             \/ /\ Goto(m, "cleanDelete")
                /\ UNCHANGED <<hnd, tries, err, ret, locals>>
    BY <1>5 DEF CleanUpRead
  <2> QED
    BY <1>0, <2>1, GetVMType, CleanUpReturnsType, PlainMoveType, StepNames
       DEF TypeInv, locals
<1>6. CASE CleanUpDelete(m)
  <2>1. PICK e \in ErrClass :
          /\ Delete(m, hnd[m], e)
          /\ \/ CleanUpReturns(m)
             \/ /\ Goto(m, "cleanWait")
                /\ UNCHANGED <<hnd, tries, err, ret, locals>>
    BY <1>6 DEF CleanUpDelete
  <2> QED
    BY <1>0, <2>1, DeleteType, CleanUpReturnsType, PlainMoveType, StepNames
       DEF TypeInv, locals
<1>7. CASE CleanUpWait(m)
  BY <1>0, <1>7, WaitTaskType, CleanUpReturnsType DEF CleanUpWait, TypeInv
<1>8. CASE ReadClone(m)
  <2>1. PICK e \in ErrClass :
          /\ GetVM(hnd[m], e)
          /\ \/ CleanUp(m, e, "create")
             \/ Goto(m, "tag") /\ UNCHANGED <<hnd, tries, err, ret, locals>>
    BY <1>8 DEF ReadClone
  <2> QED
    BY <1>0, <2>1, GetVMType, CleanUpType, PlainMoveType, StepNames
       DEF TypeInv, locals
<1>9. CASE TagClone(m)
  <2> DEFINE vm == [vms[hnd[m].vmid] EXCEPT !.tagged = TRUE]
  <2>1. PICK e \in ErrClass :
          /\ Modify(hnd[m], vm, e)
          /\ \/ CleanUp(m, e, "create")
             \/ /\ Goto(m, "config")
                /\ drv' = [drv EXCEPT ![m] = hnd[m]]
                /\ UNCHANGED <<cfg, hnd, tries, err, ret, rows>>
    BY <1>9 DEF TagClone
  <2>2. hnd[m].vmid \in VMIDs => vm \in VM
    BY <1>0 DEF ClusterTypeOK, VM
  <2> HIDE DEF vm
  <2>3. ClusterTypeOK'
    BY <1>0, <2>1, <2>2, ModifyType
  <2>4. ProcessInv'
    BY <1>0, <2>1, CleanUpType, MoveType, StepNames DEF ProcessTypeOK
  <2> QED
    BY <2>3, <2>4 DEF TypeInv
<1> QED
  BY <1>1, <1>2, <1>3, <1>4, <1>5, <1>6, <1>7, <1>8, <1>9 DEF CloneStep

\* provision's error return keeps the process variables typed.
LEMMA ProvisionFailsType ==
  ASSUME ProcessInv, NEW m \in Machines, ProvisionFails(m)
  PROVE  ProcessInv'
BY CreateFailsType, MoveType, StepNames, NoRefType
   DEF ProvisionFails, ProcessInv, ProcessTypeOK

\* A configuration call of provision preserves the type invariant.
LEMMA ProvisionType ==
  ASSUME TypeInv, NEW m \in Machines, NEW vm, NEW step \in {"resize", "start", "waitip"},
         Provision(m, vm, step), hnd[m].vmid \in VMIDs => vm \in VM
  PROVE  TypeInv'
<1>1. PICK e \in ErrClass :
        /\ Modify(hnd[m], vm, e)
        /\ \/ ProvisionFails(m)
           \/ Goto(m, step) /\ UNCHANGED <<hnd, tries, err, ret, locals>>
  BY DEF Provision
<1>2. hnd[m] \in Ref /\ ProcessInv /\ ClusterTypeOK
  BY DEF TypeInv, ProcessInv, ProcessTypeOK
<1>3. ClusterTypeOK'
  BY <1>1, <1>2, ModifyType
<1>4. ProcessInv'
  BY <1>1, <1>2, ProvisionFailsType, PlainMoveType, StepNames DEF locals
<1> QED
  BY <1>3, <1>4 DEF TypeInv

\* Every step of provision preserves the type invariant.
LEMMA ProvisionStepType ==
  ASSUME TypeInv, NEW m \in Machines, ProvisionStep(m)
  PROVE  TypeInv'
<1>0. hnd[m] \in Ref /\ drv[m] \in Ref /\ ProcessInv /\ ClusterTypeOK
  BY DEF TypeInv, ProcessInv, ProcessTypeOK
<1>1. CASE ConfigureVM(m) \/ ResizeVMDisk(m)
  <2>1. hnd[m].vmid \in VMIDs => vms[hnd[m].vmid] \in VM
    BY <1>0 DEF ClusterTypeOK
  <2> QED
    BY <1>1, <2>1, ProvisionType DEF ConfigureVM, ResizeVMDisk
<1>2. CASE StartVM(m)
  <2> DEFINE vm == [vms[hnd[m].vmid] EXCEPT !.power = "running"]
  <2>1. hnd[m].vmid \in VMIDs => vm \in VM
    BY <1>0 DEF ClusterTypeOK, VM, Powers
  <2>2. Provision(m, vm, "waitip")
    BY <1>2 DEF StartVM
  <2> HIDE DEF vm
  <2> QED
    BY <2>1, <2>2, ProvisionType
<1>3. CASE WaitForIP(m)
  <2>1. ClusterTypeOK'
    BY <1>0, <1>3, InjectType DEF WaitForIP, ClusterTypeOK, clusterVars
  <2>2. ProcessInv'
    BY <1>0, <1>3, ExitType, ProvisionFailsType DEF WaitForIP, Resting
  <2> QED
    BY <2>1, <2>2 DEF TypeInv
<1> QED
  BY <1>1, <1>2, <1>3 DEF ProvisionStep

\* Rows of the cluster listing are handles.
LEMMA RefOfType ==
  ASSUME ClusterTypeOK, NEW id \in VMIDs
  PROVE  RefOf(id) \in Row
BY DEF ClusterTypeOK, VM, RefOf, Row

\* A row of the listing serves as a handle.
LEMMA RowIsRef == Row \subseteq Ref
BY DEF Row, Ref

\* Every step of lookupVM preserves the type invariant.
LEMMA LookupType ==
  ASSUME TypeInv, NEW m \in Machines,
         LookupRecorded(m) \/ LookupList(m) \/ LookupFetch(m)
         \/ FindList(m) \/ FindFetch(m) \/ FindNothing(m)
  PROVE  TypeInv'
<1>0. hnd[m] \in Ref /\ drv[m] \in Ref /\ rows[m] \in SUBSET Row
      /\ ProcessInv /\ ClusterTypeOK /\ ProcessTypeOK
  BY DEF TypeInv, ProcessInv, ProcessTypeOK
<1>1. CASE LookupRecorded(m)
  <2>1. PICK e \in ErrClass :
          /\ GetVM(drv[m], e)
          /\ \/ Found(m, drv[m])
             \/ /\ Goto(m, "list")
                /\ UNCHANGED <<drv, cfg, hnd, tries, err, ret, rows>>
             \/ RemoveReturns(m, FALSE)
    BY <1>1 DEF LookupRecorded
  <2> QED
    BY <1>0, <2>1, GetVMType, FoundType, PlainMoveType, RemoveReturnsType,
       StepNames DEF TypeInv
<1>2. CASE LookupList(m)
  <2>1. PICK e \in ErrClass :
          /\ ListVMs(e)
          /\ \/ RemoveReturns(m, FALSE)
             \/ RemoveReturns(m, TRUE)
             \/ /\ drv[m].vmid \in Rows
                /\ Goto(m, "fetch")
                /\ hnd' = [hnd EXCEPT ![m] = RefOf(drv[m].vmid)]
                /\ UNCHANGED <<drv, cfg, tries, err, ret, rows>>
    BY <1>2 DEF LookupList, Gone
  <2>2. CASE /\ drv[m].vmid \in Rows
             /\ Goto(m, "fetch")
             /\ hnd' = [hnd EXCEPT ![m] = RefOf(drv[m].vmid)]
             /\ UNCHANGED <<drv, cfg, tries, err, ret, rows>>
    <3>1. RefOf(drv[m].vmid) \in Ref
      BY <1>0, <2>2, RefOfType, RowIsRef DEF Rows
    <3>2. ProcessInv'
      BY <1>0, <2>2, <3>1, MoveType, StepNames DEF ProcessTypeOK
    <3> QED
      BY <1>0, <2>1, <3>2, ListVMsType DEF TypeInv
  <2> QED
    BY <1>0, <2>1, <2>2, ListVMsType, RemoveReturnsType DEF TypeInv
<1>3. CASE LookupFetch(m)
  <2>1. PICK e \in ErrClass :
          /\ GetVM(hnd[m], e)
          /\ \/ Found(m, hnd[m])
             \/ RemoveReturns(m, TRUE)
             \/ RemoveReturns(m, FALSE)
    BY <1>3 DEF LookupFetch, Gone
  <2> QED
    BY <1>0, <2>1, GetVMType, FoundType, RemoveReturnsType DEF TypeInv
<1>4. CASE FindList(m)
  <2>1. PICK e \in ErrClass :
          /\ ListVMs(e)
          /\ \/ RemoveReturns(m, FALSE)
             \/ /\ Goto(m, "scan")
                /\ rows' = [rows EXCEPT ![m] = FindVMByName(m)]
                /\ UNCHANGED <<drv, cfg, hnd, tries, err, ret>>
    BY <1>4 DEF FindList
  <2>2. FindVMByName(m) \in SUBSET Row
    BY <1>0, RefOfType DEF FindVMByName, Rows
  <2> QED
    BY <1>0, <2>1, <2>2, ListVMsType, RemoveReturnsType, MoveType, StepNames
       DEF TypeInv, ProcessTypeOK
<1>5. CASE FindFetch(m)
  <2>1. PICK ref \in rows[m], e \in ErrClass :
          /\ GetVM(ref, e)
          /\ \/ Found(m, ref)
             \/ /\ rows' = [rows EXCEPT ![m] = @ \ {ref}]
                /\ UNCHANGED <<pc, drv, cfg, hnd, tries, err, ret>>
             \/ RemoveReturns(m, FALSE)
    BY <1>5 DEF FindFetch
  <2>2. CASE /\ rows' = [rows EXCEPT ![m] = @ \ {ref}]
             /\ UNCHANGED <<pc, drv, cfg, hnd, tries, err, ret>>
    <3>1. ProcessInv'
      BY <1>0, <2>2 DEF ProcessInv, ProcessTypeOK, PickedVMID
    <3> QED
      BY <1>0, <2>1, <3>1, GetVMType DEF TypeInv
  <2> QED
    BY <1>0, <2>1, <2>2, GetVMType, FoundType, RemoveReturnsType, RowIsRef
       DEF TypeInv
<1>6. CASE FindNothing(m)
  <2>1. ClusterTypeOK'
    BY <1>0, <1>6 DEF FindNothing, ClusterTypeOK, clusterVars
  <2> QED
    BY <1>0, <1>6, <2>1, RemoveReturnsType DEF FindNothing, Gone, TypeInv
<1> QED
  BY <1>1, <1>2, <1>3, <1>4, <1>5, <1>6

\* A failed attempt of DeleteVM keeps the process variables typed.
LEMMA DeleteFailsType ==
  ASSUME ProcessInv, NEW m \in Machines, NEW e \in ErrClass, DeleteFails(m, e)
  PROVE  ProcessInv'
BY MoveType, StepNames DEF ProcessInv, ProcessTypeOK, DeleteFails

\* Every step of Remove preserves the type invariant.
LEMMA RemoveStepType ==
  ASSUME TypeInv, NEW m \in Machines, RemoveStep(m)
  PROVE  TypeInv'
<1>0. hnd[m] \in Ref /\ ProcessInv /\ ClusterTypeOK /\ ProcessTypeOK
  BY DEF TypeInv, ProcessInv, ProcessTypeOK
<1>1. hnd[m].vmid \in VMIDs => PoweredOff(hnd[m]) \in VM
  BY <1>0 DEF ClusterTypeOK, VM, Powers, PoweredOff
<1>2. CASE Shutdown(m)
  <2>1. PICK e \in ErrClass :
          /\ Modify(hnd[m], PoweredOff(hnd[m]), e)
          /\ Goto(m, "delete") \/ Goto(m, "stop")
          /\ UNCHANGED <<drv, cfg, hnd, tries, err, ret, rows>>
    BY <1>2 DEF Shutdown
  <2> QED
    BY <1>0, <1>1, <2>1, ModifyType, PlainMoveType, StepNames DEF TypeInv
<1>3. CASE Stop(m)
  <2>1. PICK e \in ErrClass :
          /\ Modify(hnd[m], PoweredOff(hnd[m]), e)
          /\ \/ RemoveReturns(m, FALSE)
             \/ /\ Goto(m, "delete")
                /\ UNCHANGED <<drv, cfg, hnd, tries, err, ret, rows>>
    BY <1>3 DEF Stop
  <2> QED
    BY <1>0, <1>1, <2>1, ModifyType, RemoveReturnsType, PlainMoveType,
       StepNames DEF TypeInv
<1>4. CASE DeleteRequest(m)
  <2>1. PICK e \in ErrClass :
          /\ Delete(m, hnd[m], e)
          /\ \/ DeleteFails(m, e)
             \/ /\ Goto(m, "deleteWait")
                /\ UNCHANGED <<drv, cfg, hnd, tries, err, ret, rows>>
    BY <1>4 DEF DeleteRequest
  <2> QED
    BY <1>0, <2>1, DeleteType, DeleteFailsType, PlainMoveType, StepNames
       DEF TypeInv
<1>5. CASE DeleteWait(m)
  <2>1. PICK e \in ErrClass :
          WaitTask(m, e) /\ (DeleteFails(m, e) \/ RemoveReturns(m, TRUE))
    BY <1>5 DEF DeleteWait
  <2> QED
    BY <1>0, <2>1, WaitTaskType, DeleteFailsType, RemoveReturnsType DEF TypeInv
<1>6. CASE DeleteRetry(m)
  <2>1. ClusterTypeOK'
    BY <1>0, <1>6 DEF DeleteRetry, ClusterTypeOK, clusterVars
  <2>2. CASE RemoveReturns(m, FALSE)
    BY <1>0, <2>1, <2>2, RemoveReturnsType DEF TypeInv
  <2>3. CASE /\ RetryAgain(DeleteRetryable(err[m]), tries[m], DeleteAttempts)
             /\ Goto(m, "delete")
             /\ tries' = [tries EXCEPT ![m] = @ + 1]
             /\ UNCHANGED <<drv, cfg, hnd, err, ret, rows>>
    <3>1. tries' \in [Machines -> 0..MaxAttempts]
      BY <1>0, <2>3, NextAttempt
    <3>2. ProcessInv'
      BY <1>0, <2>3, <3>1, MoveType, StepNames DEF ProcessTypeOK
    <3> QED
      BY <2>1, <3>2 DEF TypeInv
  <2> QED
    BY <1>6, <2>2, <2>3 DEF DeleteRetry
<1> QED
  BY <1>2, <1>3, <1>4, <1>5, <1>6, LookupType DEF RemoveStep

\* Rancher's steps (a job starts, a machine is forgotten, a process dies)
\* preserve the type invariant.
LEMMA RancherType ==
  ASSUME TypeInv, NEW m \in Machines,
         StartCreate(m) \/ Forget(m) \/ StartRemove(m) \/ Crash(m)
  PROVE  TypeInv'
<1>0. cfg[m] \in Ref /\ ProcessInv /\ ClusterTypeOK /\ ProcessTypeOK
  BY DEF TypeInv, ProcessInv, ProcessTypeOK
<1>1. CASE StartCreate(m)
  <2>1. PICK e \in ErrClass :
          /\ ListVMs(e)
          /\ \/ CreateFails(m)
             \/ /\ Goto(m, "pick")
                /\ tries' = [tries EXCEPT ![m] = 1]
                /\ UNCHANGED <<hnd, err, ret, locals>>
    BY <1>1 DEF StartCreate
  <2>2. 1 \in 0..MaxAttempts
    BY AttemptsAssumption DEF MaxAttempts
  <2> QED
    BY <1>0, <2>1, <2>2, ListVMsType, CreateFailsType, MoveType, StepNames
       DEF TypeInv, ProcessTypeOK, locals
<1>2. CASE Forget(m)
  <2>1. ClusterTypeOK'
    BY <1>0, <1>2 DEF Forget, ClusterTypeOK, clusterVars
  <2> QED
    BY <1>0, <1>2, <2>1, ExitType, NoRefType DEF Forget, Resting, TypeInv
<1>3. CASE StartRemove(m)
  <2>1. ClusterTypeOK'
    BY <1>0, <1>3 DEF StartRemove, ClusterTypeOK, clusterVars
  <2>2. ProcessInv'
    BY <1>0, <1>3, MoveType, StepNames DEF StartRemove, ProcessTypeOK
  <2> QED
    BY <2>1, <2>2 DEF TypeInv
<1>4. CASE Crash(m)
  <2>1. NoTask \in Task
    BY DEF NoTask, Task, ErrClass
  <2>2. ClusterTypeOK'
    BY <1>0, <1>4, <2>1, InjectType DEF Crash, ClusterTypeOK
  <2> QED
    BY <1>0, <1>4, <2>2, ExitType DEF Crash, Resting, TypeInv
<1> QED
  BY <1>1, <1>2, <1>3, <1>4

\* The type invariant holds before the first job.
LEMMA InitType == Init => TypeInv
<1> SUFFICES ASSUME Init PROVE TypeInv
  OBVIOUS
<1>1. NoTask \in Task
  BY DEF NoTask, Task, ErrClass
<1>2. ClusterTypeOK
  BY <1>1, FreeVMType, FaultAssumption
     DEF Init, ClusterInit, ClusterTypeOK, Owners
<1>3. ProcessTypeOK /\ PickedVMID
  BY NoRefType, AttemptsAssumption
     DEF Init, ProcessInit, ProcessTypeOK, PickedVMID, MaxAttempts, ErrClass,
         Resting
<1> QED
  BY <1>2, <1>3 DEF TypeInv, ProcessInv

\* Every step preserves the type invariant.
LEMMA NextType == TypeInv /\ [Next]_vars => TypeInv'
<1> SUFFICES ASSUME TypeInv, [Next]_vars PROVE TypeInv'
  OBVIOUS
<1>1. CASE UNCHANGED vars
  BY <1>1 DEF vars, clusterVars, procVars, TypeInv, ClusterTypeOK, ProcessInv,
              ProcessTypeOK, PickedVMID
<1>2. CASE ClusterStep /\ UNCHANGED procVars
  <2>1. ClusterTypeOK'
    BY <1>2, ClusterStepType DEF TypeInv
  <2>2. ProcessInv'
    BY <1>2 DEF TypeInv, procVars, ProcessInv, ProcessTypeOK, PickedVMID
  <2> QED
    BY <2>1, <2>2 DEF TypeInv
<1>3. CASE \E m \in Machines :
             StartCreate(m) \/ ProcessStep(m) \/ StartRemove(m) \/ Crash(m)
  BY <1>3, CloneStepType, ProvisionStepType, RemoveStepType, RancherType
     DEF ProcessStep
<1> QED
  BY <1>1, <1>2, <1>3 DEF Next, Finished

\* Every reachable state has its declared type: no handle is used before it
\* has been set, no retry loop runs past its limit (retry.go), the fault
\* budget never goes below zero.
THEOREM TypeCorrect == Spec => []TypeOK
<1>1. TypeInv => TypeOK
  BY DEF TypeInv, TypeOK, ProcessInv
<1> QED
  BY <1>1, InitType, NextType, PTL DEF Spec

-----------------------------------------------------------------------------
(* Ownership.  DeleteOnlyOwnUnlessReused is not inductive: it needs to     *)
(* know that every handle a process may delete through leads to a VMID the *)
(* machine itself was the first to use.  Owned is that fact; it holds for  *)
(* the recorded VMIDs, for the handle except while a VMID is picked but    *)
(* not cloned yet, and, up to foreign VMs the tag guard rejects, for the   *)
(* rows of a name search.                                                  *)

Owned(m, id) == first[id] = m \/ id \in reused

VMOwn(id) ==
  /\ vms[id].st # "free" =>
       vms[id].owner # NoOne /\ (first[id] = vms[id].owner \/ id \in reused)
  /\ vms[id].owner \in Machines => vms[id].name = NameOf[vms[id].owner]
  /\ vms[id].tagged => vms[id].owner \in Machines \/ id \in reused
  /\ vms[id].st = "deleting" => Owned(vms[id].by, id)

ClusterOwn == \A id \in VMIDs : VMOwn(id)

Hand(m) ==
  /\ drv[m].vmid # NoVMID => Owned(m, drv[m].vmid)
  /\ cfg[m].vmid # NoVMID => Owned(m, cfg[m].vmid)
  /\ hnd[m].vmid # NoVMID /\ pc[m] # "post" => Owned(m, hnd[m].vmid)
  /\ \A ref \in rows[m] : first[ref.vmid] = Foreign \/ Owned(m, ref.vmid)

HandOwn == \A m \in Machines : Hand(m)

\* A step forgets neither the first owner of a VMID nor that it was reused.
Remembers ==
  /\ \A id \in VMIDs : first[id] # NoOne => first'[id] = first[id]
  /\ reused \subseteq reused'

\* What a machine owns it keeps owning.
LEMMA OwnedStable ==
  ASSUME Remembers, NEW m \in Machines, NEW id \in VMIDs, Owned(m, id)
  PROVE  Owned(m, id)'
BY SentinelAssumption DEF Remembers, Owned

\* A claim remembers earlier claims: owners of a reused VMID stay known.
LEMMA ClaimRemembers ==
  ASSUME ClusterTypeOK, NEW id \in VMIDs, NEW o, NEW vm, Claim(id, o, vm)
  PROVE  Remembers
BY DEF ClusterTypeOK, Claim, Remembers

\* A claimed VMID belongs to the claimant, or is known to be reused.
LEMMA ClaimOwn ==
  ASSUME ClusterTypeOK, ClusterOwn, NEW id \in VMIDs,
         NEW o \in Owners \ {NoOne}, NEW vm \in VM, Claim(id, o, vm),
         vm.owner = o, ~vm.tagged, vm.st # "deleting",
         o \in Machines => vm.name = NameOf[o]
  PROVE  ClusterOwn' /\ (first'[id] = o \/ id \in reused')
<1>1. first'[id] = o \/ id \in reused'
  BY DEF Claim, ClusterTypeOK
<1>2. ASSUME NEW i \in VMIDs PROVE VMOwn(i)'
  <2>1. CASE i = id
    BY <1>1, <2>1 DEF Claim, VMOwn, ClusterTypeOK
  <2>2. CASE i # id
    <3>1. vms'[i] = vms[i] /\ first'[i] = first[i] /\ (i \in reused => i \in reused')
      BY <2>2 DEF Claim, ClusterTypeOK
    <3> QED
      BY <3>1 DEF ClusterOwn, VMOwn, Owned
  <2> QED
    BY <2>1, <2>2
<1> QED
  BY <1>1, <1>2 DEF ClusterOwn

\* A step that leaves the owners alone and changes at most the VM of one id.
LEMMA ChangeOwn ==
  ASSUME ClusterTypeOK, ClusterOwn, NEW id \in VMIDs, NEW vm \in VM,
         vms' = [vms EXCEPT ![id] = vm], UNCHANGED <<first, reused>>,
         \/ vm = FreeVM
         \/ /\ vms[id].st # "free"
            /\ vm.owner = vms[id].owner /\ vm.name = vms[id].name
            /\ vm.tagged => vms[id].tagged \/ vm.owner \in Machines
                            \/ id \in reused
            /\ vm.st = "deleting" =>
                 \/ vms[id].st = "deleting" /\ vm.by = vms[id].by
                 \/ Owned(vm.by, id)
  PROVE  ClusterOwn'
<1>1. ASSUME NEW i \in VMIDs PROVE VMOwn(i)'
  <2>1. CASE i # id
    BY <2>1 DEF ClusterTypeOK, ClusterOwn, VMOwn, Owned
  <2>2. CASE i = id /\ vm = FreeVM
    BY <2>2, SentinelAssumption DEF ClusterTypeOK, VMOwn, FreeVM
  <2>3. CASE i = id /\ vm # FreeVM
    <3>1. vms'[i] = vm /\ first'[i] = first[i] /\ reused' = reused
      BY <2>3 DEF ClusterTypeOK
    <3>2. VMOwn(i)
      BY DEF ClusterOwn
    <3> QED
      BY <2>3, <3>1, <3>2 DEF VMOwn, Owned
  <2> QED
    BY <2>1, <2>2, <2>3
<1> QED
  BY <1>1 DEF ClusterOwn

\* Steps that change no VM and no history.
LEMMA IdleOwn ==
  ASSUME ClusterOwn, UNCHANGED <<vms, first, reused>>
  PROVE  ClusterOwn' /\ Remembers
BY DEF ClusterOwn, VMOwn, Owned, Remembers

\* A GET changes no owner.
LEMMA ReadOwn ==
  ASSUME ClusterOwn, NEW e, NEW ref,
         GetVM(ref, e) \/ ListVMs(e) \/ UNCHANGED clusterVars
  PROVE  ClusterOwn' /\ Remembers
BY IdleOwn DEF GetVM, ListVMs, Fails, clusterVars

\* WaitTask changes no owner.
LEMMA WaitTaskOwn ==
  ASSUME ClusterOwn, NEW m, NEW e, WaitTask(m, e)
  PROVE  ClusterOwn' /\ Remembers
BY IdleOwn DEF WaitTask

\* After the clone request, whatever it returned, VMs have the owners and
\* histories they should; on success the VMID is the requester's.
LEMMA CloneOwn ==
  ASSUME ClusterTypeOK, ClusterOwn, NEW m \in Machines, NEW id \in VMIDs,
         NEW e, Clone(m, id, e)
  PROVE  /\ ClusterOwn' /\ Remembers
         /\ e = "nil" => Owned(m, id)'
<1> DEFINE vm == [st |-> "cloning", owner |-> m, name |-> NameOf[m],
                  tagged |-> FALSE, power |-> "stopped",
                  node |-> NodeOf[m], by |-> m]
<1>1. CASE Claim(id, m, vm)
  <2>1. vm \in VM /\ m \in Owners \ {NoOne}
    BY NameAssumption, NodeAssumption, SentinelAssumption DEF VM, Powers, Owners
  <2>2. vm.owner = m /\ ~vm.tagged /\ vm.st # "deleting" /\ vm.name = NameOf[m]
    OBVIOUS
  <2> HIDE DEF vm
  <2> QED
    BY <1>1, <2>1, <2>2, ClaimOwn, ClaimRemembers DEF Owned
<1>2. CASE UNCHANGED clusterVars /\ e = "conflict"
  BY <1>2, IdleOwn DEF clusterVars
<1>3. CASE Fails(PostErrs, e)
  BY <1>3, IdleOwn DEF Fails, PostErrs
<1> QED
  BY <1>1, <1>2, <1>3 DEF Clone

\* A delete request for an owned handle keeps the cluster's ownership facts.
LEMMA DeleteOwn ==
  ASSUME ClusterTypeOK, ClusterOwn, NEW m \in Machines, NEW ref \in Ref,
         NEW e, Delete(m, ref, e), ref.vmid # NoVMID => Owned(m, ref.vmid)
  PROVE  ClusterOwn' /\ Remembers
<1>1. CASE /\ Deletable(ref)
           /\ vms' = [vms EXCEPT ![ref.vmid].st = "deleting", ![ref.vmid].by = m]
           /\ UNCHANGED <<first, reused>>
  <2> DEFINE id == ref.vmid
             vm == [vms[id] EXCEPT !.st = "deleting", !.by = m]
  <2>1. id \in VMIDs /\ vms[id].st # "free"
    BY <1>1 DEF Deletable, At
  <2>2. Owned(m, id)
    BY <2>1, SentinelAssumption
  <2>3. vms[id] \in VM
    BY <2>1 DEF ClusterTypeOK
  <2>4. vm \in VM /\ vm.by = m /\ vm.owner = vms[id].owner
        /\ vm.name = vms[id].name /\ vm.tagged = vms[id].tagged
    BY <2>3 DEF VM, Owners
  <2>5. vms' = [vms EXCEPT ![id] = vm]
    BY <1>1, <2>1, <2>3 DEF ClusterTypeOK, VM
  <2> HIDE DEF vm, id
  <2>6. ClusterOwn'
    BY <1>1, <2>1, <2>2, <2>4, <2>5, ChangeOwn
  <2> QED
    BY <1>1, <2>6 DEF Remembers
<1>2. CASE UNCHANGED <<vms, first, reused>>
  BY <1>2, IdleOwn
<1> QED
  BY <1>1, <1>2 DEF Delete, Fails, clusterVars

\* A configuration or power task for an owned handle keeps them.
LEMMA ModifyOwn ==
  ASSUME ClusterTypeOK, ClusterOwn, NEW ref \in Ref, NEW vm, NEW e,
         Modify(ref, vm, e),
         At(ref) => /\ vm \in VM
                    /\ vm.st = vms[ref.vmid].st
                    /\ vm.by = vms[ref.vmid].by
                    /\ vm.owner = vms[ref.vmid].owner
                    /\ vm.name = vms[ref.vmid].name
                    /\ vm.tagged => vms[ref.vmid].tagged
                                    \/ vm.owner \in Machines
                                    \/ ref.vmid \in reused
  PROVE  ClusterOwn' /\ Remembers
<1>1. CASE At(ref) /\ vms' = [vms EXCEPT ![ref.vmid] = vm]
           /\ UNCHANGED <<first, reused>>
  <2>1. ref.vmid \in VMIDs /\ vms[ref.vmid].st # "free"
    BY <1>1 DEF At
  <2>2. ClusterOwn'
    BY <1>1, <2>1, ChangeOwn
  <2> QED
    BY <1>1, <2>2 DEF Remembers
<1>2. CASE UNCHANGED <<vms, first, reused>>
  BY <1>2, IdleOwn
<1> QED
  BY <1>1, <1>2 DEF Modify, Fails, clusterVars

\* The steps of the cluster on its own keep them.
LEMMA ClusterStepOwn ==
  ASSUME ClusterTypeOK, ClusterOwn, ClusterStep
  PROVE  ClusterOwn' /\ Remembers
<1>1. PICK id \in VMIDs :
         \/ TaskEnds(id)
         \/ \E n \in Nodes : Migrate(id, n)
         \/ \E n \in Nodes, name \in Names : ForeignCreate(id, name, n)
         \/ ForeignDelete(id)
         \/ \E p \in Powers : Power(id, p)
  BY DEF ClusterStep
<1>2. vms[id] \in VM
  BY DEF ClusterTypeOK
<1>3. /\ Unlocked(vms[id]) \in VM /\ Unlocked(vms[id]).st = "idle"
      /\ Unlocked(vms[id]).owner = vms[id].owner
      /\ Unlocked(vms[id]).name = vms[id].name
      /\ Unlocked(vms[id]).tagged = vms[id].tagged
  BY <1>2, UnlockedType DEF VM, Unlocked
<1>4. CASE TaskEnds(id) \/ ForeignDelete(id)
  <2>1. /\ vms[id].st # "free" /\ UNCHANGED <<first, reused>>
        /\ \/ vms' = [vms EXCEPT ![id] = FreeVM]
           \/ vms' = [vms EXCEPT ![id] = Unlocked(vms[id])]
    BY <1>4 DEF TaskEnds, ForeignDelete, CloneTaskSucceeds, CloneTaskFails,
                DeleteTaskSucceeds, DeleteTaskFails
  <2>2. ClusterOwn'
    BY <1>3, <2>1, ChangeOwn, FreeVMType
  <2> QED
    BY <2>1, <2>2 DEF Remembers
<1>5. CASE \E n \in Nodes : Migrate(id, n)
  <2>1. PICK n \in Nodes : Migrate(id, n)
    BY <1>5
  <2> DEFINE vm == [vms[id] EXCEPT !.node = n]
  <2>2. vm \in VM /\ vm.owner = vms[id].owner /\ vm.name = vms[id].name
        /\ vm.tagged = vms[id].tagged /\ vm.st = vms[id].st
        /\ vm.by = vms[id].by
    BY <1>2 DEF VM
  <2>3. vms' = [vms EXCEPT ![id] = vm] /\ vms[id].st # "free"
        /\ UNCHANGED <<first, reused>>
    BY <2>1 DEF Migrate
  <2> HIDE DEF vm
  <2>4. ClusterOwn'
    BY <2>2, <2>3, ChangeOwn
  <2> QED
    BY <2>3, <2>4 DEF Remembers
<1>6. CASE \E n \in Nodes, name \in Names : ForeignCreate(id, name, n)
  <2>1. PICK n \in Nodes, name \in Names : ForeignCreate(id, name, n)
    BY <1>6
  <2> DEFINE vm == [st |-> "idle", owner |-> Foreign, name |-> name,
                    tagged |-> FALSE, power |-> "stopped",
                    node |-> n, by |-> NoOne]
  <2>2. vm \in VM /\ Foreign \in Owners \ {NoOne} /\ Foreign \notin Machines
        /\ vm.owner = Foreign /\ ~vm.tagged /\ vm.st # "deleting"
    BY SentinelAssumption DEF VM, Powers, Owners
  <2>3. Claim(id, Foreign, vm)
    BY <2>1 DEF ForeignCreate
  <2> HIDE DEF vm
  <2> QED
    BY <2>2, <2>3, ClaimOwn, ClaimRemembers
<1>7. CASE \E p \in Powers : Power(id, p)
  <2>1. PICK p \in Powers : Power(id, p)
    BY <1>7
  <2> DEFINE vm == [vms[id] EXCEPT !.power = p]
  <2>2. vm \in VM /\ vm.owner = vms[id].owner /\ vm.name = vms[id].name
        /\ vm.tagged = vms[id].tagged /\ vm.st = vms[id].st
        /\ vm.by = vms[id].by
    BY <1>2 DEF VM
  <2>3. vms' = [vms EXCEPT ![id] = vm] /\ vms[id].st # "free"
        /\ UNCHANGED <<first, reused>>
    BY <2>1 DEF Power
  <2> HIDE DEF vm
  <2>4. ClusterOwn'
    BY <2>2, <2>3, ChangeOwn
  <2> QED
    BY <2>3, <2>4 DEF Remembers
<1> QED
  BY <1>1, <1>4, <1>5, <1>6, <1>7

-----------------------------------------------------------------------------
(* What a process holds, move by move.                                     *)

\* id is owned by m after the step.
StillOwned(m, id) == first'[id] = m \/ id \in reused'

\* An owned VMID stays owned through a step that keeps the history.
LEMMA OwnedStays ==
  ASSUME Remembers, NEW m \in Machines, NEW id \in VMIDs, Owned(m, id)
  PROVE  StillOwned(m, id)
BY SentinelAssumption DEF Remembers, Owned, StillOwned

\* Hand(k)' from the values after the step.
LEMMA HandNext ==
  ASSUME NEW k \in Machines,
         drv'[k].vmid # NoVMID => StillOwned(k, drv'[k].vmid),
         cfg'[k].vmid # NoVMID => StillOwned(k, cfg'[k].vmid),
         hnd'[k].vmid # NoVMID /\ pc'[k] # "post" => StillOwned(k, hnd'[k].vmid),
         \A ref \in rows'[k] :
            first'[ref.vmid] = Foreign \/ StillOwned(k, ref.vmid)
  PROVE  Hand(k)'
BY DEF Hand, Owned, StillOwned

\* What is recorded, held or listed before a step is still owned after it.
LEMMA HandStays ==
  ASSUME ProcessTypeOK, HandOwn, Remembers, NEW k \in Machines
  PROVE  /\ drv[k].vmid # NoVMID => StillOwned(k, drv[k].vmid)
         /\ cfg[k].vmid # NoVMID => StillOwned(k, cfg[k].vmid)
         /\ hnd[k].vmid # NoVMID /\ pc[k] # "post" => StillOwned(k, hnd[k].vmid)
         /\ \A ref \in rows[k] :
               first'[ref.vmid] = Foreign \/ StillOwned(k, ref.vmid)
<1>1. Hand(k) /\ drv[k] \in Ref /\ cfg[k] \in Ref /\ hnd[k] \in Ref
  BY DEF HandOwn, ProcessTypeOK
<1>2. \A id \in VMIDs : Owned(k, id) => StillOwned(k, id)
  BY OwnedStays
<1>3. \A ref \in rows[k] : first'[ref.vmid] = Foreign \/ StillOwned(k, ref.vmid)
  <2> TAKE ref \in rows[k]
  <2>1. ref.vmid \in VMIDs
    BY DEF ProcessTypeOK, Row
  <2>2. first[ref.vmid] = Foreign \/ Owned(k, ref.vmid)
    BY <1>1 DEF Hand
  <2> QED
    BY <1>2, <2>1, <2>2, SentinelAssumption DEF Remembers
<1> QED
  BY <1>1, <1>2, <1>3 DEF Hand, Ref

\* A step of m alone: the others hold what they held.
LEMMA OthersHand ==
  ASSUME ProcessTypeOK, HandOwn, Remembers, NEW m \in Machines,
         Hand(m)',
         \A k \in Machines : k # m =>
            /\ pc'[k] = pc[k] /\ drv'[k] = drv[k] /\ cfg'[k] = cfg[k]
            /\ hnd'[k] = hnd[k] /\ rows'[k] = rows[k]
  PROVE  HandOwn'
<1>1. ASSUME NEW k \in Machines, k # m PROVE Hand(k)'
  BY <1>1, HandStays, HandNext
<1> QED
  BY <1>1 DEF HandOwn

\* The whole of a process's memory, and config.json, after its exit.
LEMMA ExitHand ==
  ASSUME ProcessTypeOK, HandOwn, Remembers, NEW m \in Machines,
         NEW rest, NEW saved \in {NoRef, cfg[m], drv[m]}, Exit(m, rest, saved)
  PROVE  HandOwn'
<1>1. /\ drv'[m] = NoRef /\ cfg'[m] = saved /\ hnd'[m] = NoRef
      /\ rows'[m] = {}
  BY DEF ProcessTypeOK, Exit
<1>2. saved.vmid # NoVMID => StillOwned(m, saved.vmid)
  BY HandStays DEF NoRef
<1>3. Hand(m)'
  BY <1>1, <1>2, HandNext DEF NoRef
<1> QED
  BY <1>3, OthersHand DEF ProcessTypeOK, Exit, Goto

\* After Create's error return the machine records only what it owns.
LEMMA CreateFailsHand ==
  ASSUME ProcessTypeOK, HandOwn, Remembers, NEW m \in Machines,
         CreateFails(m)
  PROVE  HandOwn'
BY ExitHand DEF CreateFails

\* After Remove's return the machine records only what it owns.
LEMMA RemoveReturnsHand ==
  ASSUME ProcessTypeOK, HandOwn, Remembers, NEW m \in Machines,
         NEW ok, RemoveReturns(m, ok)
  PROVE  HandOwn'
BY ExitHand, CreateFailsHand DEF RemoveReturns

\* A move within the process that writes a handle it owns, or none, and
\* recorded VMIDs it owns.
LEMMA MoveHand ==
  ASSUME ProcessTypeOK, HandOwn, Remembers, NEW m \in Machines,
         NEW step, Goto(m, step),
         NEW r, drv' = [drv EXCEPT ![m] = r],
         r.vmid # NoVMID => StillOwned(m, r.vmid),
         NEW h, hnd' = [hnd EXCEPT ![m] = h],
         h.vmid # NoVMID /\ step # "post" => StillOwned(m, h.vmid),
         NEW rs, rows' = [rows EXCEPT ![m] = rs],
         \A ref \in rs : first'[ref.vmid] = Foreign \/ StillOwned(m, ref.vmid),
         cfg' = cfg
  PROVE  HandOwn'
<1>1. pc'[m] = step /\ drv'[m] = r /\ hnd'[m] = h /\ rows'[m] = rs
  BY DEF ProcessTypeOK, Goto
<1>2. cfg[m].vmid # NoVMID => StillOwned(m, cfg[m].vmid)
  BY HandStays
<1>3. Hand(m)'
  BY <1>1, <1>2, HandNext
<1> QED
  BY <1>3, OthersHand DEF ProcessTypeOK, Goto

\* A move that writes nothing: the handle must be owned by now.
LEMMA PlainMoveHand ==
  ASSUME ProcessTypeOK, HandOwn, Remembers, NEW m \in Machines,
         NEW step, Goto(m, step), UNCHANGED <<drv, cfg, hnd, rows>>,
         pc[m] # "post" \/ StillOwned(m, hnd[m].vmid)
  PROVE  HandOwn'
<1>1. /\ drv' = [drv EXCEPT ![m] = drv[m]]
      /\ hnd' = [hnd EXCEPT ![m] = hnd[m]]
      /\ rows' = [rows EXCEPT ![m] = rows[m]]
  BY DEF ProcessTypeOK
<1> QED
  BY <1>1, HandStays, MoveHand

\* A move that drops the handle.
LEMMA DropHand ==
  ASSUME ProcessTypeOK, HandOwn, Remembers, NEW m \in Machines,
         NEW step, Goto(m, step), hnd' = [hnd EXCEPT ![m] = NoRef],
         UNCHANGED <<drv, cfg, rows>>
  PROVE  HandOwn'
<1>1. /\ drv' = [drv EXCEPT ![m] = drv[m]]
      /\ rows' = [rows EXCEPT ![m] = rows[m]]
  BY DEF ProcessTypeOK
<1>2. NoRef.vmid = NoVMID
  BY DEF NoRef
<1>3. /\ drv[m].vmid # NoVMID => StillOwned(m, drv[m].vmid)
      /\ \A ref \in rows[m] :
            first'[ref.vmid] = Foreign \/ StillOwned(m, ref.vmid)
  BY HandStays
<1> QED
  BY <1>1, <1>2, <1>3, MoveHand

\* lookupVM returned a VM of this machine.
LEMMA FoundHand ==
  ASSUME ProcessTypeOK, HandOwn, Remembers, NEW m \in Machines,
         NEW ref, Found(m, ref),
         ref.vmid # NoVMID /\ HasTag(ref) => StillOwned(m, ref.vmid)
  PROVE  HandOwn'
<1>1. CASE RemoveReturns(m, FALSE)
  BY <1>1, RemoveReturnsHand
<1>2. CASE /\ HasTag(ref)
           /\ Goto(m, IF IsRunning(ref) THEN "shutdown" ELSE "delete")
           /\ hnd' = [hnd EXCEPT ![m] = ref]
           /\ rows' = [rows EXCEPT ![m] = {}]
           /\ UNCHANGED <<drv, cfg>>
  <2>1. drv' = [drv EXCEPT ![m] = drv[m]]
    BY <1>2 DEF ProcessTypeOK
  <2> DEFINE step == IF IsRunning(ref) THEN "shutdown" ELSE "delete"
  <2>2. Goto(m, step)
    BY <1>2
  <2>3. drv[m].vmid # NoVMID => StillOwned(m, drv[m].vmid)
    BY HandStays
  <2> DEFINE none == {}
  <2>4. /\ rows' = [rows EXCEPT ![m] = none]
        /\ \A r \in none : first'[r.vmid] = Foreign \/ StillOwned(m, r.vmid)
    BY <1>2
  <2>5. ref.vmid # NoVMID => StillOwned(m, ref.vmid)
    BY <1>2
  <2> HIDE DEF step, none
  <2> QED
    BY <1>2, <2>1, <2>2, <2>3, <2>4, <2>5, MoveHand
<1> QED
  BY <1>1, <1>2 DEF Found

-----------------------------------------------------------------------------
(* Every action preserves ownership.                                       *)

Own == ClusterOwn /\ HandOwn

\* Every step of CloneFromTemplate preserves ownership.
LEMMA CloneStepOwn ==
  ASSUME TypeInv, Own, NEW m \in Machines, CloneStep(m)
  PROVE  Own'
<1>0. ClusterTypeOK /\ ProcessTypeOK /\ ClusterOwn /\ HandOwn /\ hnd[m] \in Ref
  BY DEF TypeInv, ProcessInv, ProcessTypeOK, Own
<1>1. CASE RandomFreeVMID(m)
  <2>1. ClusterOwn' /\ Remembers
    BY <1>0, <1>1, ReadOwn DEF RandomFreeVMID
  <2>2. CASE \E e \in ErrClass : AttemptFails(m, e)
    BY <1>0, <2>1, <2>2, DropHand DEF AttemptFails, locals, Own
  <2>3. CASE /\ \E id \in FreeVMIDs :
                  hnd' = [hnd EXCEPT ![m] = [vmid |-> id, node |-> NodeOf[m]]]
             /\ Goto(m, "post")
             /\ UNCHANGED locals
    <3>1. PICK id \in FreeVMIDs :
            hnd' = [hnd EXCEPT ![m] = [vmid |-> id, node |-> NodeOf[m]]]
      BY <2>3
    <3> DEFINE h == [vmid |-> id, node |-> NodeOf[m]]
    <3>2. /\ drv' = [drv EXCEPT ![m] = drv[m]]
          /\ hnd' = [hnd EXCEPT ![m] = h]
          /\ rows' = [rows EXCEPT ![m] = rows[m]]
          /\ cfg' = cfg
      BY <1>0, <2>3, <3>1 DEF ProcessTypeOK, locals
    <3>3. /\ drv[m].vmid # NoVMID => StillOwned(m, drv[m].vmid)
          /\ \A ref \in rows[m] :
                first'[ref.vmid] = Foreign \/ StillOwned(m, ref.vmid)
      BY <1>0, <2>1, HandStays
    <3> HIDE DEF h
    <3>4. HandOwn'
      BY <1>0, <2>1, <2>3, <3>2, <3>3, MoveHand
    <3> QED
      BY <2>1, <3>4 DEF Own
  <2> QED
    BY <1>1, <2>2, <2>3 DEF RandomFreeVMID, ErrClass
<1>2. CASE CloneRequest(m)
  <2>1. hnd[m].vmid \in VMIDs
    BY <1>2 DEF CloneRequest, TypeInv, ProcessInv, PickedVMID
  <2>2. PICK id \in VMIDs : id = hnd[m].vmid
    BY <2>1
  <2>3. PICK e \in ErrClass :
          /\ Clone(m, id, e)
          /\ \/ AttemptFails(m, e)
             \/ /\ e = "nil" /\ Goto(m, "await")
                /\ UNCHANGED <<hnd, tries, err, ret, locals>>
    BY <1>2, <2>2 DEF CloneRequest
  <2>4. ClusterOwn' /\ Remembers /\ (e = "nil" => Owned(m, id)')
    BY <1>0, <2>3, CloneOwn
  <2>5. e = "nil" => StillOwned(m, hnd[m].vmid)
    BY <2>2, <2>4 DEF Owned, StillOwned
  <2>6. HandOwn'
    BY <1>0, <2>3, <2>4, <2>5, DropHand, PlainMoveHand DEF AttemptFails, locals
  <2> QED
    BY <2>4, <2>6 DEF Own
<1>3. CASE AwaitClone(m)
  <2>1. ClusterOwn' /\ Remembers
    BY <1>0, <1>3, WaitTaskOwn DEF AwaitClone
  <2>2. HandOwn'
    BY <1>0, <1>3, <2>1, PlainMoveHand DEF AwaitClone, CleanUp, locals
  <2> QED
    BY <2>1, <2>2 DEF Own
<1>4. CASE CloneRetry(m)
  <2>1. ClusterOwn' /\ Remembers
    BY <1>0, <1>4, ReadOwn DEF CloneRetry
  <2>2. HandOwn'
    BY <1>0, <1>4, <2>1, DropHand, CreateFailsHand DEF CloneRetry, locals
  <2> QED
    BY <2>1, <2>2 DEF Own
<1>5. ASSUME Remembers, pc[m] # "post", CleanUpReturns(m) PROVE HandOwn'
  BY <1>0, <1>5, PlainMoveHand, CreateFailsHand DEF CleanUpReturns, locals
<1>6. CASE CleanUpRead(m)
  <2>1. ClusterOwn' /\ Remembers
    BY <1>0, <1>6, ReadOwn DEF CleanUpRead
  <2>2. HandOwn'
    BY <1>0, <1>5, <1>6, <2>1, PlainMoveHand DEF CleanUpRead, locals
  <2> QED
    BY <2>1, <2>2 DEF Own
<1>7. CASE CleanUpDelete(m)
  <2>1. hnd[m].vmid # NoVMID => Owned(m, hnd[m].vmid)
    BY <1>0, <1>7 DEF CleanUpDelete, HandOwn, Hand
  <2>2. ClusterOwn' /\ Remembers
    BY <1>0, <1>7, <2>1, DeleteOwn DEF CleanUpDelete
  <2>3. HandOwn'
    BY <1>0, <1>5, <1>7, <2>2, PlainMoveHand DEF CleanUpDelete, locals
  <2> QED
    BY <2>2, <2>3 DEF Own
<1>8. CASE CleanUpWait(m)
  <2>1. ClusterOwn' /\ Remembers
    BY <1>0, <1>8, WaitTaskOwn DEF CleanUpWait
  <2> QED
    BY <1>5, <1>8, <2>1 DEF CleanUpWait, Own
<1>9. CASE ReadClone(m)
  <2>1. ClusterOwn' /\ Remembers
    BY <1>0, <1>9, ReadOwn DEF ReadClone
  <2>2. HandOwn'
    BY <1>0, <1>9, <2>1, PlainMoveHand DEF ReadClone, CleanUp, locals
  <2> QED
    BY <2>1, <2>2 DEF Own
<1>10. CASE TagClone(m)
  <2> DEFINE vm == [vms[hnd[m].vmid] EXCEPT !.tagged = TRUE]
  <2>1. PICK e \in ErrClass :
          /\ Modify(hnd[m], vm, e)
          /\ \/ CleanUp(m, e, "create")
             \/ /\ Goto(m, "config")
                /\ drv' = [drv EXCEPT ![m] = hnd[m]]
                /\ UNCHANGED <<cfg, hnd, tries, err, ret, rows>>
    BY <1>10 DEF TagClone
  <2>2. pc[m] # "post" /\ (hnd[m].vmid # NoVMID => Owned(m, hnd[m].vmid))
    BY <1>0, <1>10 DEF TagClone, HandOwn, Hand
  <2>3. At(hnd[m]) => /\ vm \in VM
                      /\ vm.st = vms[hnd[m].vmid].st
                      /\ vm.by = vms[hnd[m].vmid].by
                      /\ vm.owner = vms[hnd[m].vmid].owner
                      /\ vm.name = vms[hnd[m].vmid].name
    BY <1>0 DEF At, ClusterTypeOK, VM
  <2>4. At(hnd[m]) => vm.owner \in Machines \/ hnd[m].vmid \in reused
    BY <1>0, <2>2, <2>3, SentinelAssumption DEF At, ClusterOwn, VMOwn, Owned
  <2> HIDE DEF vm
  <2>5. ClusterOwn' /\ Remembers
    BY <1>0, <2>1, <2>3, <2>4, ModifyOwn
  <2>6. CASE CleanUp(m, e, "create")
    BY <1>0, <2>2, <2>5, <2>6, PlainMoveHand DEF CleanUp, locals, Own
  <2>7. CASE /\ Goto(m, "config")
             /\ drv' = [drv EXCEPT ![m] = hnd[m]]
             /\ UNCHANGED <<cfg, hnd, tries, err, ret, rows>>
    <3>1. /\ hnd' = [hnd EXCEPT ![m] = hnd[m]]
          /\ rows' = [rows EXCEPT ![m] = rows[m]]
      BY <1>0, <2>7 DEF ProcessTypeOK
    <3>2. /\ hnd[m].vmid # NoVMID => StillOwned(m, hnd[m].vmid)
          /\ \A ref \in rows[m] :
                first'[ref.vmid] = Foreign \/ StillOwned(m, ref.vmid)
      BY <1>0, <2>2, <2>5, HandStays
    <3>3. HandOwn'
      BY <1>0, <2>5, <2>7, <3>1, <3>2, MoveHand
    <3> QED
      BY <2>5, <3>3 DEF Own
  <2> QED
    BY <2>1, <2>6, <2>7
<1> QED
  BY <1>1, <1>2, <1>3, <1>4, <1>6, <1>7, <1>8, <1>9, <1>10 DEF CloneStep

\* After provision's error return the machine holds only what it owns.
LEMMA ProvisionFailsHand ==
  ASSUME ProcessTypeOK, HandOwn, Remembers, NEW m \in Machines,
         ProvisionFails(m)
  PROVE  HandOwn'
BY CreateFailsHand, DropHand DEF ProvisionFails

\* Every step of provision preserves ownership.
LEMMA ProvisionStepOwn ==
  ASSUME TypeInv, Own, NEW m \in Machines, ProvisionStep(m)
  PROVE  Own'
<1>0. ClusterTypeOK /\ ProcessTypeOK /\ ClusterOwn /\ HandOwn /\ hnd[m] \in Ref
  BY DEF TypeInv, ProcessInv, ProcessTypeOK, Own
<1>1. ASSUME NEW vm, NEW step, pc[m] # "post", Provision(m, vm, step),
             At(hnd[m]) => /\ vm \in VM
                           /\ vm.st = vms[hnd[m].vmid].st
                           /\ vm.by = vms[hnd[m].vmid].by
                           /\ vm.owner = vms[hnd[m].vmid].owner
                           /\ vm.name = vms[hnd[m].vmid].name
                           /\ vm.tagged = vms[hnd[m].vmid].tagged
      PROVE  Own'
  <2>1. PICK e \in ErrClass :
          /\ Modify(hnd[m], vm, e)
          /\ \/ ProvisionFails(m)
             \/ Goto(m, step) /\ UNCHANGED <<hnd, tries, err, ret, locals>>
    BY <1>1 DEF Provision
  <2>2. ClusterOwn' /\ Remembers
    BY <1>0, <1>1, <2>1, ModifyOwn
  <2>3. HandOwn'
    BY <1>0, <1>1, <2>1, <2>2, ProvisionFailsHand, PlainMoveHand DEF locals
  <2> QED
    BY <2>2, <2>3 DEF Own
<1>2. At(hnd[m]) => vms[hnd[m].vmid] \in VM
  BY <1>0 DEF At, ClusterTypeOK
<1>3. CASE ConfigureVM(m) \/ ResizeVMDisk(m)
  BY <1>1, <1>2, <1>3 DEF ConfigureVM, ResizeVMDisk
<1>4. CASE StartVM(m)
  <2> DEFINE vm == [vms[hnd[m].vmid] EXCEPT !.power = "running"]
  <2>1. At(hnd[m]) => /\ vm \in VM
                      /\ vm.st = vms[hnd[m].vmid].st
                      /\ vm.by = vms[hnd[m].vmid].by
                      /\ vm.owner = vms[hnd[m].vmid].owner
                      /\ vm.name = vms[hnd[m].vmid].name
                      /\ vm.tagged = vms[hnd[m].vmid].tagged
    BY <1>2 DEF VM, Powers
  <2>2. Provision(m, vm, "waitip") /\ pc[m] # "post"
    BY <1>4 DEF StartVM
  <2> HIDE DEF vm
  <2> QED
    BY <1>1, <2>1, <2>2
<1>5. CASE WaitForIP(m)
  <2>1. ClusterOwn' /\ Remembers
    BY <1>0, <1>5, IdleOwn DEF WaitForIP, clusterVars
  <2>2. HandOwn'
    BY <1>0, <1>5, <2>1, ExitHand, ProvisionFailsHand DEF WaitForIP
  <2> QED
    BY <2>1, <2>2 DEF Own
<1> QED
  BY <1>3, <1>4, <1>5 DEF ProvisionStep

\* The rows of the name search are this machine's VMs or foreign ones: here
\* the names have to be distinct.
LEMMA FindVMByNameOwn ==
  ASSUME NamesDistinct, ClusterTypeOK, ClusterOwn, NEW m \in Machines,
         NEW ref \in FindVMByName(m)
  PROVE  first[ref.vmid] = Foreign \/ Owned(m, ref.vmid)
<1>1. PICK id \in Rows : vms[id].name = NameOf[m] /\ ref = RefOf(id)
  BY DEF FindVMByName
<1>2. id \in VMIDs /\ vms[id].st # "free" /\ ref.vmid = id
  BY <1>1 DEF Rows, RefOf
<1>3. VMOwn(id) /\ vms[id].owner \in Owners
  BY <1>2 DEF ClusterOwn, ClusterTypeOK, VM
<1>4. vms[id].owner \in {m, Foreign}
  BY <1>1, <1>2, <1>3 DEF VMOwn, Owners, NamesDistinct
<1> QED
  BY <1>2, <1>3, <1>4 DEF VMOwn, Owned

\* A row whose VM carries the tag is this machine's: nobody tags a foreign VM.
LEMMA TaggedRowOwn ==
  ASSUME ProcessTypeOK, ClusterOwn, HandOwn, NEW m \in Machines,
         NEW ref \in rows[m], At(ref), HasTag(ref)
  PROVE  ref.vmid \in VMIDs /\ Owned(m, ref.vmid)
<1>1. ref.vmid \in VMIDs
  BY DEF At
<1>2. VMOwn(ref.vmid) /\ vms[ref.vmid].st # "free"
  BY <1>1 DEF ClusterOwn, At
<1>3. first[ref.vmid] = Foreign \/ Owned(m, ref.vmid)
  BY DEF HandOwn, Hand
<1> QED
  BY <1>1, <1>2, <1>3, SentinelAssumption DEF VMOwn, HasTag, Owned

\* Every step of lookupVM preserves ownership: it hands on owned VMs only.
LEMMA LookupOwn ==
  ASSUME NamesDistinct, TypeInv, Own, NEW m \in Machines,
         LookupRecorded(m) \/ LookupList(m) \/ LookupFetch(m)
         \/ FindList(m) \/ FindFetch(m) \/ FindNothing(m)
  PROVE  Own'
<1>0. ClusterTypeOK /\ ProcessTypeOK /\ ClusterOwn /\ HandOwn
  BY DEF TypeInv, ProcessInv, Own
<1>1. UNCHANGED <<vms, first, reused>>
  BY DEF LookupRecorded, LookupList, LookupFetch, FindList, FindFetch,
         FindNothing, GetVM, ListVMs, Fails, clusterVars
<1>2. ClusterOwn' /\ Remembers
  BY <1>0, <1>1, IdleOwn
<1>3. /\ drv[m].vmid # NoVMID => StillOwned(m, drv[m].vmid)
      /\ hnd[m].vmid # NoVMID /\ pc[m] # "post" => StillOwned(m, hnd[m].vmid)
      /\ \A ref \in rows[m] :
            first'[ref.vmid] = Foreign \/ StillOwned(m, ref.vmid)
  BY <1>0, <1>2, HandStays
<1>4. drv' = drv => drv' = [drv EXCEPT ![m] = drv[m]]
  BY <1>0 DEF ProcessTypeOK
<1>5. hnd' = hnd => hnd' = [hnd EXCEPT ![m] = hnd[m]]
  BY <1>0 DEF ProcessTypeOK
<1>6. CASE LookupRecorded(m)
  BY <1>0, <1>2, <1>3, <1>6, FoundHand, RemoveReturnsHand, PlainMoveHand
     DEF LookupRecorded, Own
<1>7. CASE LookupList(m)
  <2>1. CASE \E ok \in BOOLEAN : RemoveReturns(m, ok)
    BY <1>0, <1>2, <2>1, RemoveReturnsHand DEF Own
  <2>2. CASE /\ drv[m].vmid \in Rows
             /\ Goto(m, "fetch")
             /\ hnd' = [hnd EXCEPT ![m] = RefOf(drv[m].vmid)]
             /\ UNCHANGED <<drv, cfg, tries, err, ret, rows>>
    <3> DEFINE h == RefOf(drv[m].vmid)
    <3>1. h.vmid = drv[m].vmid
      BY DEF RefOf
    <3>2. hnd' = [hnd EXCEPT ![m] = h] /\ rows' = [rows EXCEPT ![m] = rows[m]]
          /\ drv' = [drv EXCEPT ![m] = drv[m]] /\ cfg' = cfg
      BY <1>0, <1>4, <2>2 DEF ProcessTypeOK
    <3> HIDE DEF h
    <3>3. HandOwn'
      BY <1>0, <1>2, <1>3, <2>2, <3>1, <3>2, MoveHand
    <3> QED
      BY <1>2, <3>3 DEF Own
  <2> QED
    BY <1>7, <2>1, <2>2 DEF LookupList, Gone
<1>8. CASE LookupFetch(m)
  BY <1>0, <1>2, <1>3, <1>8, FoundHand, RemoveReturnsHand
     DEF LookupFetch, Gone, Own
<1>9. CASE FindList(m)
  <2>1. CASE RemoveReturns(m, FALSE)
    BY <1>0, <1>2, <2>1, RemoveReturnsHand DEF Own
  <2>2. CASE /\ Goto(m, "scan")
             /\ rows' = [rows EXCEPT ![m] = FindVMByName(m)]
             /\ UNCHANGED <<drv, cfg, hnd, tries, err, ret>>
    <3> DEFINE rs == FindVMByName(m)
    <3>1. \A ref \in rs : first'[ref.vmid] = Foreign \/ StillOwned(m, ref.vmid)
      BY <1>0, <1>1, FindVMByNameOwn DEF Owned, StillOwned
    <3>2. pc[m] # "post"
      BY <1>9 DEF FindList
    <3>3. rows' = [rows EXCEPT ![m] = rs]
      BY <2>2
    <3> HIDE DEF rs
    <3>4. HandOwn'
      BY <1>0, <1>2, <1>3, <1>4, <1>5, <2>2, <3>1, <3>2, <3>3, MoveHand
    <3> QED
      BY <1>2, <3>4 DEF Own
  <2> QED
    BY <1>9, <2>1, <2>2 DEF FindList
<1>10. CASE FindFetch(m)
  <2>1. PICK ref \in rows[m], e \in ErrClass :
          /\ GetVM(ref, e)
          /\ \/ e = "nil" /\ HasTag(ref) /\ Found(m, ref)
             \/ /\ rows' = [rows EXCEPT ![m] = @ \ {ref}]
                /\ UNCHANGED <<pc, drv, cfg, hnd, tries, err, ret>>
             \/ RemoveReturns(m, FALSE)
    BY <1>10 DEF FindFetch
  <2>2. CASE e = "nil" /\ HasTag(ref) /\ Found(m, ref)
    <3>1. At(ref)
      BY <2>1, <2>2 DEF GetVM, Fails, ReadErrs
    <3>2. StillOwned(m, ref.vmid)
      BY <1>0, <1>1, <2>2, <3>1, TaggedRowOwn DEF Owned, StillOwned
    <3> QED
      BY <1>0, <1>2, <2>2, <3>2, FoundHand DEF Own
  <2>3. CASE /\ rows' = [rows EXCEPT ![m] = @ \ {ref}]
             /\ UNCHANGED <<pc, drv, cfg, hnd, tries, err, ret>>
    <3>1. Goto(m, pc[m]) /\ pc[m] # "post"
      BY <1>0, <1>10, <2>3 DEF FindFetch, Goto, ProcessTypeOK
    <3> DEFINE rs == rows[m] \ {ref}
    <3>2. rows' = [rows EXCEPT ![m] = rs]
          /\ \A r \in rs : first'[r.vmid] = Foreign \/ StillOwned(m, r.vmid)
      BY <1>3, <2>3
    <3> HIDE DEF rs
    <3>3. HandOwn'
      BY <1>0, <1>2, <1>3, <1>4, <1>5, <2>3, <3>1, <3>2, MoveHand
    <3> QED
      BY <1>2, <3>3 DEF Own
  <2> QED
    BY <1>0, <1>2, <2>1, <2>2, <2>3, RemoveReturnsHand DEF Own
<1>11. CASE FindNothing(m)
  BY <1>0, <1>2, <1>11, RemoveReturnsHand DEF FindNothing, Gone, Own
<1> QED
  BY <1>6, <1>7, <1>8, <1>9, <1>10, <1>11

\* Every step of Remove preserves ownership.
LEMMA RemoveStepOwn ==
  ASSUME NamesDistinct, TypeInv, Own, NEW m \in Machines, RemoveStep(m)
  PROVE  Own'
<1>0. ClusterTypeOK /\ ProcessTypeOK /\ ClusterOwn /\ HandOwn /\ hnd[m] \in Ref
  BY DEF TypeInv, ProcessInv, ProcessTypeOK, Own
<1>1. At(hnd[m]) =>
        /\ PoweredOff(hnd[m]) \in VM
        /\ PoweredOff(hnd[m]).st = vms[hnd[m].vmid].st
        /\ PoweredOff(hnd[m]).by = vms[hnd[m].vmid].by
        /\ PoweredOff(hnd[m]).owner = vms[hnd[m].vmid].owner
        /\ PoweredOff(hnd[m]).name = vms[hnd[m].vmid].name
        /\ PoweredOff(hnd[m]).tagged = vms[hnd[m].vmid].tagged
  BY <1>0 DEF At, ClusterTypeOK, VM, Powers, PoweredOff
<1>2. CASE Shutdown(m) \/ Stop(m)
  <2>1. ClusterOwn' /\ Remembers
    BY <1>0, <1>1, <1>2, ModifyOwn DEF Shutdown, Stop
  <2>2. HandOwn'
    BY <1>0, <1>2, <2>1, RemoveReturnsHand, PlainMoveHand DEF Shutdown, Stop
  <2> QED
    BY <2>1, <2>2 DEF Own
<1>3. CASE DeleteRequest(m)
  <2>1. hnd[m].vmid # NoVMID => Owned(m, hnd[m].vmid)
    BY <1>0, <1>3 DEF DeleteRequest, HandOwn, Hand
  <2>2. ClusterOwn' /\ Remembers
    BY <1>0, <1>3, <2>1, DeleteOwn DEF DeleteRequest
  <2>3. HandOwn'
    BY <1>0, <1>3, <2>2, PlainMoveHand DEF DeleteRequest, DeleteFails
  <2> QED
    BY <2>2, <2>3 DEF Own
<1>4. CASE DeleteWait(m)
  <2>1. ClusterOwn' /\ Remembers
    BY <1>0, <1>4, WaitTaskOwn DEF DeleteWait
  <2>2. HandOwn'
    BY <1>0, <1>4, <2>1, PlainMoveHand, RemoveReturnsHand
       DEF DeleteWait, DeleteFails
  <2> QED
    BY <2>1, <2>2 DEF Own
<1>5. CASE DeleteRetry(m)
  <2>1. ClusterOwn' /\ Remembers
    BY <1>0, <1>5, ReadOwn DEF DeleteRetry
  <2>2. HandOwn'
    BY <1>0, <1>5, <2>1, PlainMoveHand, RemoveReturnsHand DEF DeleteRetry
  <2> QED
    BY <2>1, <2>2 DEF Own
<1> QED
  BY <1>2, <1>3, <1>4, <1>5, LookupOwn DEF RemoveStep

\* Rancher's steps preserve ownership.
LEMMA RancherOwn ==
  ASSUME TypeInv, Own, NEW m \in Machines,
         StartCreate(m) \/ Forget(m) \/ StartRemove(m) \/ Crash(m)
  PROVE  Own'
<1>0. ClusterTypeOK /\ ProcessTypeOK /\ ClusterOwn /\ HandOwn
  BY DEF TypeInv, ProcessInv, Own
<1>1. UNCHANGED <<vms, first, reused>>
  BY DEF StartCreate, Forget, StartRemove, Crash, ListVMs, Fails, clusterVars
<1>2. ClusterOwn' /\ Remembers
  BY <1>0, <1>1, IdleOwn
<1>3. CASE StartCreate(m)
  BY <1>0, <1>2, <1>3, CreateFailsHand, PlainMoveHand
     DEF StartCreate, locals, Own
<1>4. CASE Forget(m) \/ Crash(m)
  BY <1>0, <1>2, <1>4, ExitHand DEF Forget, Crash, Own
<1>5. CASE StartRemove(m)
  <2>1. /\ hnd' = [hnd EXCEPT ![m] = hnd[m]]
        /\ rows' = [rows EXCEPT ![m] = rows[m]]
        /\ pc[m] # "post"
    BY <1>0, <1>5 DEF StartRemove, ProcessTypeOK
  <2>2. /\ cfg[m].vmid # NoVMID => StillOwned(m, cfg[m].vmid)
        /\ hnd[m].vmid # NoVMID => StillOwned(m, hnd[m].vmid)
        /\ \A ref \in rows[m] :
              first'[ref.vmid] = Foreign \/ StillOwned(m, ref.vmid)
    BY <1>0, <1>2, <2>1, HandStays
  <2>3. HandOwn'
    BY <1>0, <1>2, <1>5, <2>1, <2>2, MoveHand DEF StartRemove
  <2> QED
    BY <1>2, <2>3 DEF Own
<1> QED
  BY <1>3, <1>4, <1>5

\* Ownership holds before the first job.
LEMMA InitOwn == Init => Own
<1> SUFFICES ASSUME Init PROVE Own
  OBVIOUS
<1>1. ClusterOwn
  BY SentinelAssumption DEF Init, ClusterInit, ClusterOwn, VMOwn, FreeVM
<1>2. HandOwn
  BY DEF Init, ProcessInit, HandOwn, Hand, NoRef
<1> QED
  BY <1>1, <1>2 DEF Own

\* Every step preserves ownership, if machine names are distinct.
LEMMA NextOwn ==
  ASSUME NamesDistinct
  PROVE  TypeInv /\ Own /\ [Next]_vars => Own'
<1> SUFFICES ASSUME TypeInv, Own, [Next]_vars PROVE Own'
  OBVIOUS
<1>1. CASE UNCHANGED vars
  BY <1>1 DEF vars, clusterVars, procVars, Own, ClusterOwn, VMOwn, HandOwn,
              Hand, Owned
<1>2. CASE ClusterStep /\ UNCHANGED procVars
  <2>1. ClusterOwn' /\ Remembers
    BY <1>2, ClusterStepOwn DEF TypeInv, Own
  <2>2. ASSUME NEW k \in Machines PROVE Hand(k)'
    BY <1>2, <2>1, HandStays, HandNext DEF procVars, TypeInv, ProcessInv, Own
  <2> QED
    BY <2>1, <2>2 DEF Own, HandOwn
<1>3. CASE \E m \in Machines :
             StartCreate(m) \/ ProcessStep(m) \/ StartRemove(m) \/ Crash(m)
  BY <1>3, CloneStepOwn, ProvisionStepOwn, RemoveStepOwn, RancherOwn
     DEF ProcessStep
<1> QED
  BY <1>1, <1>2, <1>3 DEF Next, Finished

\* remove.go and clone.go: whatever fails, crashes, retries or is done by hand
\* in the cluster, and however many machines are created and removed at once,
\* a VM is destroyed only by the machine that made it, or else its VMID has
\* had another owner before.
THEOREM DeletesOnlyOwn ==
  ASSUME NamesDistinct
  PROVE  Spec => []DeleteOnlyOwnUnlessReused
<1>1. TypeInv /\ Own => DeleteOnlyOwnUnlessReused
  BY DEF Own, ClusterOwn, VMOwn, Owned, DeleteOnlyOwnUnlessReused
<1>2. TypeInv /\ Own /\ [Next]_vars => TypeInv' /\ Own'
  BY NextType, NextOwn
<1> QED
  BY <1>1, <1>2, InitType, InitOwn, PTL DEF Spec

=============================================================================
