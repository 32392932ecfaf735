----------------------------- MODULE PVECluster -----------------------------
(***************************************************************************)
(* The Proxmox VE cluster as the driver sees it through its API: the VMs,  *)
(* the asynchronous tasks that clone and destroy them, and the ways a call *)
(* may fail.  PVE and go-proxmox are not part of the repository; they are  *)
(* modelled from how pkg/pve uses them.  WaitTask, GetVM and ListVMs are   *)
(* the repository's own.                                                   *)
(*                                                                         *)
(* A call returns an error class e.  Calls that do not fail by themselves  *)
(* may be made to fail by a fault; faults come out of a finite budget.     *)
(***************************************************************************)
EXTENDS PVEErrors

CONSTANTS
  Machines,       \* Rancher machines; each has one driver process at a time
  VMIDs,          \* every VM id of the cluster
  VMIDRange,      \* the ids --pvenode-vmid-range allows
  Nodes,          \* PVE nodes
  Names,          \* VM names
  NameOf,         \* the machine's name, also its VM's name
  NodeOf,         \* the node the machine's placement resolves to
  Faults,         \* the kinds of faults that may occur
  MaxFaults,      \* how many may occur in one behaviour
  NoVMID, NoNode, \* the zero values of Driver.VMID and Driver.PVENode
  NoName,         \* the name of a VM that does not exist
  Foreign, NoOne  \* owners: somebody outside the driver; nobody

FaultKinds ==
  {"lock", "vmlocked", "net", "dns", "fatal", "fatal595", "timeout",
   "lost",      \* the call takes effect, its reply is lost
   "poll",      \* a task poll is answered with an error
   "crash",     \* the driver process dies
   "noip",      \* the guest never reports a reachable address
   "migrate",   \* somebody moves a VM to another node
   "foreign",   \* somebody creates a VM by hand
   "purge",     \* somebody deletes a VM by hand
   "power"}     \* somebody starts, stops or pauses a VM by hand

ASSUME RangeAssumption == VMIDRange \subseteq VMIDs
ASSUME NameAssumption == NameOf \in [Machines -> Names]
ASSUME NodeAssumption == NodeOf \in [Machines -> Nodes]
ASSUME FaultAssumption == Faults \subseteq FaultKinds /\ MaxFaults \in Nat
ASSUME SentinelAssumption ==
  /\ NoVMID \notin VMIDs
  /\ NoNode \notin Nodes
  /\ NoName \notin Names
  /\ {Foreign, NoOne} \cap Machines = {}
  /\ Foreign # NoOne

VARIABLES
  vms,     \* vms[id]: the VM with that id, see VM
  task,    \* task[m]: the PVE task that m's process waits for, see Task
  budget,  \* faults that may still occur
  first,   \* ghost: first[id] is the first owner id ever had
  reused   \* ghost: ids that have had two different owners

clusterVars == <<vms, task, budget, first, reused>>

Owners == Machines \cup {Foreign, NoOne}
Powers == {"running", "stopped", "paused"}

\* st: "free" (no such VM), "cloning" (lock: clone), "idle" (unlocked) or
\* "deleting" (being destroyed).  owner is a ghost: whose clone request made
\* it.  by is the process that requested the running task.
VM == [st: {"free", "cloning", "idle", "deleting"}, owner: Owners,
       name: Names \cup {NoName}, tagged: BOOLEAN, power: Powers,
       node: Nodes \cup {NoNode}, by: Owners]

\* A VM handle: what GetVM is asked for and what the later calls go to.
Ref == [vmid: VMIDs \cup {NoVMID}, node: Nodes \cup {NoNode}]
NoRef == [vmid |-> NoVMID, node |-> NoNode]

\* A row of the cluster listing, as a handle.
Row == [vmid: VMIDs, node: Nodes \cup {NoNode}]

\* exit is "running" until the task ends, then the class of its exit status.
Task == [vmid: VMIDs \cup {NoVMID}, exit: ErrClass \cup {"running"}]
NoTask == [vmid |-> NoVMID, exit |-> "nil"]

FreeVM == [st |-> "free", owner |-> NoOne, name |-> NoName, tagged |-> FALSE,
           power |-> "stopped", node |-> NoNode, by |-> NoOne]

ClusterTypeOK ==
  /\ vms \in [VMIDs -> VM]
  /\ task \in [Machines -> Task]
  /\ budget \in 0..MaxFaults
  /\ first \in [VMIDs -> Owners]
  /\ reused \in SUBSET VMIDs

ClusterInit ==
  /\ vms = [id \in VMIDs |-> FreeVM]
  /\ task = [m \in Machines |-> NoTask]
  /\ budget = MaxFaults
  /\ first = [id \in VMIDs |-> NoOne]
  /\ reused = {}

-----------------------------------------------------------------------------
Inject(f) == f \in Faults /\ budget > 0 /\ budget' = budget - 1

\* The errors a GET may meet.
ReadErrs == {"net", "dns", "fatal"}

\* The errors a request may be refused with for no reason the model knows.
PostErrs == {"lock", "vmlocked", "net", "dns", "fatal", "fatal595"}

\* The exit statuses of a failing task.
ExitErrs == {"lock", "fatal", "fatal595"}

Fails(errs, e) ==
  /\ e \in errs
  /\ Inject(e)
  /\ UNCHANGED <<vms, task, first, reused>>

\* GET /nodes/{node}/qemu/{vmid}: PVE finds a VM only on the node it is on.
At(ref) ==
  /\ ref.vmid \in VMIDs
  /\ vms[ref.vmid].st # "free"
  /\ vms[ref.vmid].node = ref.node

GetVM(ref, e) ==
  \/ e = (IF At(ref) THEN "nil" ELSE "notfound") /\ UNCHANGED clusterVars
  \/ Fails(ReadErrs, e)

ListVMs(e) ==
  \/ e = "nil" /\ UNCHANGED clusterVars
  \/ Fails(ReadErrs, e)

\* The rows of /cluster/resources.
Rows == {id \in VMIDs : vms[id].st # "free"}
RefOf(id) == [vmid |-> id, node |-> vms[id].node]

\* Mutant: the ownership tag is not looked at.
HasTagUnchecked(ref) == TRUE

HasTag(ref) == vms[ref.vmid].tagged
IsRunning(ref) == vms[ref.vmid].power = "running"

\* A VM config of owner o appears under id.
Claim(id, o, vm) ==
  /\ vms[id].st = "free"
  /\ vms' = [vms EXCEPT ![id] = vm]
  /\ first' = [first EXCEPT ![id] = IF @ = NoOne THEN o ELSE @]
  /\ reused' = IF first[id] \in {NoOne, o} THEN reused ELSE reused \cup {id}

\* m waits for the task that just started on id, or never learns of it
\* because the reply was lost.
Reply(m, id, e) ==
  \/ /\ e = "nil"
     /\ task' = [task EXCEPT ![m] = [vmid |-> id, exit |-> "running"]]
     /\ UNCHANGED budget
  \/ /\ e = "net"
     /\ Inject("lost")
     /\ UNCHANGED task

\* POST .../clone: the VM exists, locked and without tags, from here on.
Clone(m, id, e) ==
  \/ Claim(id, m, [st |-> "cloning", owner |-> m, name |-> NameOf[m],
                   tagged |-> FALSE, power |-> "stopped",
                   node |-> NodeOf[m], by |-> m])
     /\ Reply(m, id, e)
  \/ vms[id].st # "free" /\ e = "conflict" /\ UNCHANGED clusterVars
  \/ Fails(PostErrs, e)

\* DELETE .../qemu/{vmid}: refused for a VM that is locked, running or
\* paused.
Deletable(ref) == At(ref) /\ vms[ref.vmid].st = "idle" /\ vms[ref.vmid].power = "stopped"

DeleteRefusal(ref) ==
  IF ~At(ref) THEN "notfound"
  ELSE IF vms[ref.vmid].st # "idle" THEN "vmlocked"
  ELSE "fatal"

Delete(m, ref, e) ==
  \/ /\ Deletable(ref)
     /\ vms' = [vms EXCEPT ![ref.vmid].st = "deleting", ![ref.vmid].by = m]
     /\ Reply(m, ref.vmid, e)
     /\ UNCHANGED <<first, reused>>
  \/ ~Deletable(ref) /\ e = DeleteRefusal(ref) /\ UNCHANGED clusterVars
  \/ Fails(PostErrs, e)

\* A configuration or power request on the VM and WaitTask on its task, in one
\* step: the VM becomes vm, and an error may be reported all the same.  A
\* request that PVE answers without a task (WaitTask of nil) succeeds likewise.
Modify(ref, vm, e) ==
  \/ /\ At(ref) /\ vms[ref.vmid].st = "idle"
     /\ vms' = [vms EXCEPT ![ref.vmid] = vm]
     /\ \/ e = "nil" /\ UNCHANGED budget
        \/ e = "net" /\ Inject("lost")
        \/ e = "timeout" /\ Inject("timeout")
     /\ UNCHANGED <<task, first, reused>>
  \/ /\ ~(At(ref) /\ vms[ref.vmid].st = "idle")
     /\ e = IF At(ref) THEN "vmlocked" ELSE "notfound"
     /\ UNCHANGED clusterVars
  \/ Fails(PostErrs, e)

\* Mutant: task.Wait's nil is taken for success, IsFailed is not looked at.
WaitTaskNoExitStatus(m, e) ==
  /\ \/ task[m].exit # "running" /\ e = "nil" /\ UNCHANGED budget
     \/ task[m].exit = "running" /\ e = "timeout" /\ Inject("timeout")
     \/ e \in {"net", "dns"} /\ Inject(e)
     \/ e = "fatal" /\ Inject("poll")
  /\ task' = [task EXCEPT ![m] = NoTask]
  /\ UNCHANGED <<vms, first, reused>>

\* WaitTask: a task that stopped with a failed exit status is an error; so is
\* one still running when the timeout expires, and one that cannot be polled.
\* The clone and the delete always have a task; Modify has the case of none.
WaitTask(m, e) ==
  /\ \/ task[m].exit # "running" /\ e = task[m].exit /\ UNCHANGED budget
     \/ task[m].exit = "running" /\ e = "timeout" /\ Inject("timeout")
     \/ e \in {"net", "dns"} /\ Inject(e)
     \/ e = "fatal" /\ Inject("poll")
  /\ task' = [task EXCEPT ![m] = NoTask]
  /\ UNCHANGED <<vms, first, reused>>

-----------------------------------------------------------------------------
(* What happens in the cluster on its own.                                 *)

\* The task on id ends with exit status e; whoever still waits will see it.
Exits(id, e) ==
  LET b == vms[id].by
  IN  task' = IF b \in Machines /\ task[b] = [vmid |-> id, exit |-> "running"]
              THEN [task EXCEPT ![b].exit = e]
              ELSE task

Unlocked(vm) == [vm EXCEPT !.st = "idle", !.by = NoOne]

CloneTaskSucceeds(id) ==
  /\ vms[id].st = "cloning"
  /\ vms' = [vms EXCEPT ![id] = Unlocked(@)]
  /\ Exits(id, "nil")
  /\ UNCHANGED <<budget, first, reused>>

\* PVE removes what a failed clone left, or leaves a partial VM.
CloneTaskFails(id) ==
  /\ vms[id].st = "cloning"
  /\ \E e \in ExitErrs, left \in BOOLEAN :
       /\ Inject(e)
       /\ vms' = [vms EXCEPT ![id] =
                    IF left THEN Unlocked(@) ELSE FreeVM]
       /\ Exits(id, e)
  /\ UNCHANGED <<first, reused>>

DeleteTaskSucceeds(id) ==
  /\ vms[id].st = "deleting"
  /\ vms' = [vms EXCEPT ![id] = FreeVM]
  /\ Exits(id, "nil")
  /\ UNCHANGED <<budget, first, reused>>

DeleteTaskFails(id) ==
  /\ vms[id].st = "deleting"
  /\ \E e \in ExitErrs : Inject(e) /\ Exits(id, e)
  /\ vms' = [vms EXCEPT ![id] = Unlocked(@)]
  /\ UNCHANGED <<first, reused>>

Migrate(id, n) ==
  /\ vms[id].st = "idle" /\ n # vms[id].node
  /\ Inject("migrate")
  /\ vms' = [vms EXCEPT ![id].node = n]
  /\ UNCHANGED <<task, first, reused>>

ForeignCreate(id, name, n) ==
  /\ Inject("foreign")
  /\ Claim(id, Foreign, [st |-> "idle", owner |-> Foreign, name |-> name,
                         tagged |-> FALSE, power |-> "stopped",
                         node |-> n, by |-> NoOne])
  /\ UNCHANGED task

Power(id, p) ==
  /\ vms[id].st = "idle" /\ p # vms[id].power
  /\ Inject("power")
  /\ vms' = [vms EXCEPT ![id].power = p]
  /\ UNCHANGED <<task, first, reused>>

ForeignDelete(id) ==
  /\ vms[id].st = "idle"
  /\ Inject("purge")
  /\ vms' = [vms EXCEPT ![id] = FreeVM]
  /\ UNCHANGED <<task, first, reused>>

TaskEnds(id) == CloneTaskSucceeds(id) \/ CloneTaskFails(id)
                \/ DeleteTaskSucceeds(id) \/ DeleteTaskFails(id)

ClusterStep ==
  \E id \in VMIDs :
     \/ TaskEnds(id)
     \/ \E n \in Nodes : Migrate(id, n)
     \/ \E n \in Nodes, name \in Names : ForeignCreate(id, name, n)
     \/ ForeignDelete(id)
     \/ \E p \in Powers : Power(id, p)
=============================================================================
