------------------------------ MODULE Lifecycle ------------------------------
(***************************************************************************)
(* The calls Rancher makes on a machine that exists                        *)
(* (pkg/driver/lifecycle.go): GetState, Start, Stop, Kill, Restart, GetIP, *)
(* GetURL, all of them over lookupVM, one action per API request.  In      *)
(* between, people migrate, start, stop, pause and delete the VM, give its *)
(* VMID to another one, DHCP changes its address, and a power task that    *)
(* nobody waits for any longer takes effect.  GetSSHHostname is GetIP.     *)
(***************************************************************************)
EXTENDS Naturals, FiniteSets, PVEErrors

CONSTANTS
  Nodes, NoNode,  \* PVE nodes; the zero value of Driver.PVENode
  Leases, NoIP,   \* addresses; the zero value of Driver.IPAddress
  Home, Lease,    \* the node and the address the VM has to begin with
  MaxChanges,     \* how often somebody interferes in one behaviour
  MaxLate         \* beside how many late tasks PVE starts another one

ASSUME LifecycleAssumption ==
  /\ NoNode \notin Nodes /\ NoIP \notin Leases /\ MaxChanges \in Nat /\ MaxLate \in Nat
  /\ Home \in Nodes /\ Lease \in Leases

VARIABLES
  vm,       \* the VM that has the machine's VMID, see VM
  task,     \* the power task that the call waits for
  late,     \* the kinds of the tasks at work that no call waits for any longer
  cfg,      \* what config.json holds: VMID and PVENode or nothing, IPAddress
  op,       \* the driver call in progress, or the last one
  pc,       \* where it is
  ref,      \* the node in the handle lookupVM returned or is to fetch
  res,      \* the result of the last call
  hist,     \* ghost: what was the case at some time during the (last) call
  changes   \* interferences still to come

vars == <<vm, task, late, cfg, op, pc, ref, res, hist, changes>>

PowerCalls == {"Start", "Stop", "Kill", "Restart"}
Calls == PowerCalls \cup {"GetState", "GetIP", "GetURL"}
Kinds == {"start", "shutdown", "stop", "reboot"}

\* "starting" is running with the lock "clone"; "other" any status the driver
\* does not know.
Present == {"running", "starting", "stopped", "paused", "other"}

\* Whose VM it is: the machine's own, one with its name and no tag, or
\* another machine's, which has the tag and another name.
Strangers == {"namesake", "tagged"}
VM == [status: Present, owner: {"mine"} \cup Strangers, node: Nodes, lease: Leases]
NoVM == [status |-> "absent", owner |-> "nobody", node |-> NoNode, lease |-> NoIP]

Task == [kind: Kinds \cup {"none"}, exit: {"running", "nil", "fatal"}]
NoTask == [kind |-> "none", exit |-> "nil"]

\* An address is never the empty one.
Result == [out: {"Running", "Starting", "Stopped", "Paused", "NotFound",
                 "Error", "done", "none"}, ip: {NoIP}]
            \cup [out: {"address"}, ip: Leases]
NoResult == [out |-> "none", ip |-> NoIP]

TypeOK ==
  /\ vm \in VM \cup {NoVM}
  /\ task \in Task /\ late \in SUBSET Kinds
  /\ cfg \in [recorded: BOOLEAN, node: Nodes \cup {NoNode}, ip: Leases \cup {NoIP}]
  /\ op \in Calls \cup {"GetURL.GetIP", "none"}
  /\ pc \in {"idle", "lookup", "list", "fetch", "find", "agent", "wait"} \cup Kinds
  /\ ref \in Nodes \cup {NoNode}
  /\ res \in Result
  /\ hist \in SUBSET (Present \cup {"absent", "foreign", "moved", "dns", "silent"})
  /\ changes \in 0..MaxChanges

\* What the VMID stands for just now, from the machine's point of view.
Seen(v) == IF v.owner = "mine" THEN v.status
           ELSE IF v.status = "absent" THEN "absent" ELSE "foreign"

-----------------------------------------------------------------------------
\* The call returns; config.json keeps its address or gets the one learned.
Return(out, addr, note) ==
  /\ res' = [out |-> out, ip |-> addr]
  /\ \E saved \in {cfg.ip} \cup ({addr} \ {NoIP}) :
       cfg' = [cfg EXCEPT !.ip = saved]
  /\ pc' = "idle" /\ ref' = NoNode
  /\ hist' = hist \cup note
  /\ UNCHANGED <<vm, op, changes>>

Continue(step, node, note) ==
  /\ pc' = step /\ ref' = node
  /\ hist' = hist \cup note
  /\ UNCHANGED <<vm, cfg, op, res, changes>>

\* Mutant: the empty address is returned as if it were one.
FallbackUntested(note) == Return("address", cfg.ip, note \cup {"silent"})

\* GetIP without an answer from the agent: the last known address.
Fallback(note) ==
  IF cfg.ip # NoIP THEN Return("address", cfg.ip, note \cup {"silent"})
                   ELSE Return("Error", NoIP, note)

StateOf(status) ==
  CASE status = "running"  -> "Running"
    [] status = "starting" -> "Starting"
    [] status = "stopped"  -> "Stopped"
    [] status = "paused"   -> "Paused"
    [] OTHER               -> "Error"

\* Mutant: GetURL does not ask whether the VM runs.
MustBeRunningOmitted ==
  /\ pc' = "lookup" /\ ref' = NoNode /\ op' = "GetURL.GetIP"
  /\ UNCHANGED <<vm, cfg, res, hist, changes>>

\* drivers.MustBeRunning, then GetIP with a lookup of its own.
MustBeRunning ==
  IF StateOf(vm.status) = "Running"
  THEN /\ pc' = "lookup" /\ ref' = NoNode /\ op' = "GetURL.GetIP"
       /\ UNCHANGED <<vm, cfg, res, hist, changes>>
  ELSE Return("Error", NoIP, {})

FirstStep == [Start |-> "start", Stop |-> "shutdown", Kill |-> "stop",
              Restart |-> "reboot"]

AsksAgent == op \in {"GetIP", "GetURL.GetIP"}

\* lookupVM returned the VM at node, as it is at this moment.
Found(node) ==
  \/ op = "GetState" /\ Return(StateOf(vm.status), NoIP, {})
  \/ op = "GetURL" /\ MustBeRunning
  \/ AsksAgent /\ Continue("agent", node, {})
  \/ op \in PowerCalls /\ Continue(FirstStep[op], node, {})

\* lookupVM returned (nil, nil).
Missing(note) ==
  IF AsksAgent THEN Fallback(note)
  ELSE Return(IF op = "GetState" THEN "NotFound" ELSE "Error", NoIP, note)

\* lookupVM returned an error; GetIP does not look at it.
LookupFails == IF AsksAgent THEN Fallback({}) ELSE Return("Error", NoIP, {})

-----------------------------------------------------------------------------
(* lookupVM (pkg/driver/driver.go), FindVMByNameAndTag.                    *)

At(node) == vm.status # "absent" /\ vm.node = node

\* The answer to a GET of the VM at node.
Reads(node, e) ==
  e \in {IF At(node) THEN "nil" ELSE "notfound", "net", "dns", "fatal"}

NameServer(e) == {"dns"} \cap {e}

\* Mutant: a VM that is not where it was recorded is taken to be gone.
LookupRecordedOnly ==
  /\ pc = "lookup" /\ cfg.recorded
  /\ \E e \in ErrClass :
       /\ Reads(cfg.node, e)
       /\ \/ e = "nil" /\ Found(cfg.node)
          \/ IsNotFoundErr(e) /\ Missing(NameServer(e))
          \/ e # "nil" /\ ~IsNotFoundErr(e) /\ LookupFails
  /\ UNCHANGED <<task, late>>

LookupRecorded ==
  /\ pc = "lookup" /\ cfg.recorded
  /\ \E e \in ErrClass :
       /\ Reads(cfg.node, e)
       /\ \/ e = "nil" /\ Found(cfg.node)
          \/ IsNotFoundErr(e) /\ Continue("list", NoNode, NameServer(e))
          \/ e # "nil" /\ ~IsNotFoundErr(e) /\ LookupFails
  /\ UNCHANGED <<task, late>>

LookupList ==
  /\ pc = "list"
  /\ \/ LookupFails
     \/ vm.status = "absent" /\ Missing({})
     \/ vm.status # "absent" /\ Continue("fetch", vm.node, {})
  /\ UNCHANGED <<task, late>>

LookupFetch ==
  /\ pc = "fetch"
  /\ \E e \in ErrClass :
       /\ Reads(ref, e)
       /\ \/ e = "nil" /\ Found(ref)
          \/ IsNotFoundErr(e) /\ Missing(NameServer(e))
          \/ e # "nil" /\ ~IsNotFoundErr(e) /\ LookupFails
  /\ UNCHANGED <<task, late>>

\* Without a recorded VMID: the row with the machine's name, then its tag.
FindList ==
  /\ pc = "lookup" /\ ~cfg.recorded
  /\ \/ LookupFails
     \/ vm.owner \notin {"mine", "namesake"} /\ Missing({})
     \/ vm.owner \in {"mine", "namesake"} /\ Continue("find", vm.node, {})
  /\ UNCHANGED <<task, late>>

\* Mutant: the name is enough.
HasTagUnchecked == TRUE

HasTag == vm.owner \in {"mine", "tagged"}

FindFetch ==
  /\ pc = "find"
  /\ \E e \in ErrClass :
       /\ Reads(ref, e)
       /\ \/ e = "nil" /\ HasTag /\ Found(ref)
          \/ e = "nil" /\ ~HasTag /\ Missing({})
          \/ IsNotFoundErr(e) /\ Missing(NameServer(e))
          \/ e # "nil" /\ ~IsNotFoundErr(e) /\ LookupFails
  /\ UNCHANGED <<task, late>>

-----------------------------------------------------------------------------
(* The calls.                                                              *)

Call(c) ==
  /\ pc = "idle"
  /\ pc' = "lookup" /\ op' = c
  /\ res' = NoResult
  /\ hist' = {Seen(vm)}
  /\ UNCHANGED <<vm, task, late, cfg, ref, changes>>

\* Mutant: the address learned before is good enough.
QueryAgentIPCached ==
  /\ pc = "agent"
  /\ \/ Fallback({})
     \/ /\ At(ref) /\ vm.status \in {"running", "starting"}
        /\ Return("address", IF cfg.ip # NoIP THEN cfg.ip ELSE vm.lease, {})
  /\ UNCHANGED <<task, late>>

\* One query of the guest agent, which may fail to answer at any time and
\* does when the guest does not run.
QueryAgentIP ==
  /\ pc = "agent"
  /\ \/ Fallback({})
     \/ /\ At(ref) /\ vm.status \in {"running", "starting"}
        /\ Return("address", vm.lease, {})
  /\ UNCHANGED <<task, late>>

\* A power request or its task failed: Stop falls back to a hard stop.
PowerFails(kind) ==
  IF op = "Stop" /\ kind = "shutdown" THEN Continue("stop", ref, {})
                                      ELSE Return("Error", NoIP, {})

\* The request starts a task, beside the late ones, or is refused.
Request ==
  /\ pc \in Kinds
  /\ \/ /\ At(ref) /\ Cardinality(late) <= MaxLate
        /\ task' = [kind |-> pc, exit |-> "running"]
        /\ Continue("wait", ref, {})
     \/ PowerFails(pc) /\ UNCHANGED task
  /\ UNCHANGED late

\* Nobody waits for the task any longer; if it is still running it goes on.
Forget ==
  /\ task' = NoTask
  /\ late' = late \cup (IF task.exit = "running" THEN {task.kind} ELSE {})

\* Mutant: any ended task counts as a success.
WaitTaskNoExitStatus ==
  /\ pc = "wait"
  /\ \/ task.exit # "running" /\ Return("done", NoIP, {})
     \/ PowerFails(task.kind)
  /\ Forget

\* Mutant: the wait has no end of its own.
WaitTaskForever ==
  /\ pc = "wait" /\ task.exit # "running"
  /\ \/ task.exit = "nil" /\ Return("done", NoIP, {})
     \/ PowerFails(task.kind)
  /\ Forget

\* WaitTask: the task ended well; or it failed, cannot be polled or is still
\* running when the timeout expires, in which case it goes on.
WaitTask ==
  /\ pc = "wait"
  /\ \/ task.exit = "nil" /\ Return("done", NoIP, {})
     \/ PowerFails(task.kind)
  /\ Forget

Driver ==
  \/ LookupRecorded \/ LookupList \/ LookupFetch \/ FindList \/ FindFetch
  \/ QueryAgentIP \/ Request \/ WaitTask

-----------------------------------------------------------------------------
(* PVE, the guest and people.                                              *)

Witness(note) == hist' = IF pc = "idle" THEN hist ELSE hist \cup {Seen(vm')} \cup note

Powered(status) ==
  {[vm EXCEPT !.status = status, !.lease = a] : a \in Leases}

\* What a task of the given kind makes of the VM; nothing if it cannot work.
Effect(kind) ==
  CASE kind = "start" /\ vm.status = "stopped"                  -> Powered("running")
    [] kind = "reboot" /\ vm.status = "running"                 -> Powered("running")
    [] kind = "shutdown" /\ vm.status \in {"running", "starting"}
         -> {[vm EXCEPT !.status = "stopped"]}
    [] kind = "stop" /\ vm.status # "absent" -> {[vm EXCEPT !.status = "stopped"]}
    [] OTHER -> {}

\* The task that is waited for ends, well or badly.
TaskEnds ==
  /\ task.exit = "running"
  /\ \/ vm' \in Effect(task.kind) /\ task' = [task EXCEPT !.exit = "nil"]
     \/ vm' = vm /\ task' = [task EXCEPT !.exit = "fatal"]
  /\ Witness({})
  /\ UNCHANGED <<late, cfg, op, pc, ref, res, changes>>

\* A late task ends, in the middle of whatever is done next; there may be
\* another one of its kind.
LateEnds(kind) ==
  /\ kind \in late
  /\ late' \in {late, late \ {kind}}
  /\ vm' \in Effect(kind) \cup {vm}
  /\ Witness({})
  /\ UNCHANGED <<task, cfg, op, pc, ref, res, changes>>

\* A running task holds the VM's lock.
Interferes(v, note) ==
  /\ changes > 0 /\ changes' = changes - 1
  /\ task.exit # "running" /\ late = {}
  /\ vm' = v
  /\ Witness(note)
  /\ UNCHANGED <<task, late, cfg, op, pc, ref, res>>

Migrate(n) == /\ vm.status # "absent" /\ n # vm.node
              /\ Interferes([vm EXCEPT !.node = n], {"moved"})

Power(status) == /\ vm.status # "absent"
                 /\ \E v \in Powered(status) : v # vm /\ Interferes(v, {})

Delete == vm.status # "absent" /\ Interferes(NoVM, {})

\* Somebody else gets the VMID.
Reuse(o, n, a) ==
  /\ vm.status = "absent"
  /\ Interferes([status |-> "running", owner |-> o, node |-> n, lease |-> a], {})

Environment ==
  \/ TaskEnds
  \/ \E kind \in Kinds : LateEnds(kind)
  \/ \E n \in Nodes : Migrate(n)
  \/ \E s \in Present : Power(s)
  \/ Delete
  \/ \E o \in Strangers, n \in Nodes, a \in Leases : Reuse(o, n, a)

-----------------------------------------------------------------------------
\* A machine that was created and has its address, one that was kept after a
\* failed create and has none, or one whose VMID was never saved.
Init ==
  /\ vm = [status |-> "running", owner |-> "mine", node |-> Home, lease |-> Lease]
  /\ cfg \in {[recorded |-> TRUE, node |-> Home, ip |-> a] : a \in {Lease, NoIP}}
             \cup {[recorded |-> FALSE, node |-> NoNode, ip |-> NoIP]}
  /\ task = NoTask /\ late = {}
  /\ op = "none" /\ pc = "idle" /\ ref = NoNode
  /\ res = NoResult /\ hist = {}
  /\ changes = MaxChanges

Next == Driver \/ Environment \/ (\E c \in Calls : Call(c))

Spec == Init /\ [][Next]_vars

\* The driver's process runs on; PVE's tasks need not end.
FairSpec == Spec /\ WF_vars(Driver)

-----------------------------------------------------------------------------
(* Properties.                                                             *)

\* The last call, of one of the given names, has returned out.
Returned(names, out) == pc = "idle" /\ op \in names /\ res.out = out

\* GetState is atomic although it is up to three requests: it answers with a
\* state the machine's own VM was in during the call, and NotFound only if the
\* VM was absent.  What misleads it is a move between the list and the fetch, a
\* name server failure, or a stranger under the recorded VMID (lookupVM).
GetStateIsTrue ==
  /\ Returned({"GetState"}, "NotFound")
       => hist \cap {"absent", "foreign", "moved", "dns"} # {}
  /\ \A out \in {"Running", "Starting", "Stopped", "Paused"} :
       Returned({"GetState"}, out)
         => \/ \E s \in hist : StateOf(s) = out
            \/ "foreign" \in hist /\ (cfg.recorded \/ "absent" \in hist)

\* A power call that reports success has had its effect during the call: the
\* guest was down after Stop or Kill, up after Start or Restart; a task that
\* failed or outlived its timeout never counts, and one that ends late, while
\* the hard stop or a later call is waited for, is not taken for the task that
\* is waited for (WaitTask, Stop's fallback).
PowerCallIsDone ==
  "foreign" \notin hist =>
    /\ Returned({"Stop", "Kill"}, "done") => "stopped" \in hist
    /\ Returned({"Start", "Restart"}, "done") => "running" \in hist

\* An address that is not the guest's at the end of GetIP is returned only if
\* the agent could not be asked, however the lease and the saved address have
\* changed over reboots (GetIP's order: agent first, last known address next).
AddressIsFresh ==
  [][/\ pc # "idle" /\ pc' = "idle" /\ res'.out = "address"
     => res'.ip = vm.lease \/ "silent" \in hist']_vars

\* GetURL names no machine that was not seen running during the call, even
\* though its second lookup may fail and the address be an old one; a VM that
\* has taken over the recorded VMID passes for the machine's.
URLOnlyOfRunning ==
  Returned({"GetURL.GetIP"}, "address") => hist \cap {"running", "foreign"} # {}

\* Without a recorded VMID, no power request goes to a VM that merely has the
\* machine's name, unless it replaced the VM during the call
\* (FindVMByNameAndTag: "name alone must never be trusted").
NameIsNeverTrusted ==
  [][/\ pc \in Kinds /\ pc' = "wait" /\ ~cfg.recorded /\ vm.owner = "namesake"
     => "absent" \in hist]_vars

\* Every call returns, even if a PVE task never ends.
CallReturns == pc # "idle" ~> pc = "idle"

-----------------------------------------------------------------------------
\* lifecycle.go: "withVM runs fn against this machine's VM".
PowerOnlyOwnVM == task.exit = "running" => vm.owner = "mine"

=============================================================================
