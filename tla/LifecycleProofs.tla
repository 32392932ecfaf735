--------------------------- MODULE LifecycleProofs ---------------------------
(***************************************************************************)
(* Lifecycle's properties, for any nodes and addresses and however often   *)
(* people interfere.  What a call has seen on its way (hist) is what its   *)
(* answer rests on: the invariant says what each of its requests can have  *)
(* learned.                                                                *)
(***************************************************************************)
EXTENDS Lifecycle, TLAPS

\* The call in progress has witnessed what the VMID stands for now.
Witnessed == pc # "idle" => Seen(vm) \in hist

\* lookupVM: the row it is about to fetch was there when it was listed, and
\* was the machine's by name.
Looking ==
  /\ pc \in {"list", "fetch"} => cfg.recorded
  /\ pc \in {"fetch", "find"} => At(ref) \/ hist \cap {"absent", "moved"} # {}
  /\ pc = "find" => vm.owner \in {"mine", "namesake"} \/ "absent" \in hist

\* The requests a call may send, and what the VM is when one has worked.
Means == [Start |-> {"start"}, Stop |-> {"shutdown", "stop"}, Kill |-> {"stop"},
          Restart |-> {"reboot"}]

Worked(kind) ==
  \/ "foreign" \in hist
  \/ (IF kind \in {"shutdown", "stop"} THEN "stopped" ELSE "running") \in hist

\* A power call sends its own requests, to a VM that the tag has vouched for.
Powering ==
  /\ pc \in Kinds => op \in PowerCalls /\ pc \in Means[op]
  /\ pc = "wait" => /\ op \in PowerCalls /\ task.kind \in Means[op]
                    /\ task.exit = "nil" => Worked(task.kind)
  /\ pc \in Kinds \cup {"wait"} /\ ~cfg.recorded
       => vm.owner # "namesake" \/ "absent" \in hist

\* The types of the tasks that are at work.
TasksOK == task \in Task /\ late \in SUBSET Kinds
USE DEF TasksOK

\* GetURL has passed MustBeRunning.
SeenRunning == op = "GetURL.GetIP" => hist \cap {"running", "foreign"} # {}

CallInv ==
  /\ TypeOK
  /\ Witnessed /\ Looking /\ Powering /\ SeenRunning
  /\ GetStateIsTrue /\ PowerCallIsDone

-----------------------------------------------------------------------------
(* Returning and going on.                                                 *)

\* What the machine sees of a VM.
LEMMA SeenValue ==
  ASSUME NEW v \in VM \cup {NoVM}
  PROVE  /\ Seen(v) \in Present \cup {"absent", "foreign"}
         /\ v.status = "absent" => v = NoVM /\ Seen(v) = "absent"
         /\ v.owner = "mine" => Seen(v) = v.status
         /\ v.owner # "mine" /\ v.status # "absent" => Seen(v) = "foreign"
         /\ v.owner = "nobody" => v = NoVM
<1>1. CASE v \in VM
  BY <1>1 DEF VM, Seen, Present, Strangers
<1>2. CASE v = NoVM
  BY <1>2 DEF NoVM, Seen
<1> QED
  BY <1>1, <1>2

\* A call that returns leaves the invariant to its answer.
LEMMA ReturnInv ==
  ASSUME CallInv, NEW out, NEW addr, NEW note, Return(out, addr, note),
         [out |-> out, ip |-> addr] \in Result, addr \in Leases \cup {NoIP},
         note \subseteq {"dns", "silent"}, TasksOK',
         GetStateIsTrue', PowerCallIsDone'
  PROVE  CallInv'
<1>1. PICK saved \in {cfg.ip} \cup ({addr} \ {NoIP}) : cfg' = [cfg EXCEPT !.ip = saved]
  BY DEF Return
<1>2. saved \in Leases \cup {NoIP}
  BY <1>1 DEF CallInv, TypeOK
<1>3. TypeOK'
  BY <1>1, <1>2 DEF CallInv, TypeOK, Return
<1>4. pc' = "idle" /\ hist \subseteq hist' /\ op' = op
  BY DEF Return
<1>5. Witnessed' /\ Looking' /\ Powering' /\ SeenRunning'
  BY <1>4 DEF Witnessed, Looking, Powering, SeenRunning, Kinds, CallInv
<1> QED
  BY <1>3, <1>5 DEF CallInv

\* An error or an address says nothing that GetState or a power call would.
LEMMA PlainReturnInv ==
  ASSUME CallInv, NEW out, NEW addr, NEW note, Return(out, addr, note),
         \/ out = "Error" /\ addr = NoIP
         \/ out = "address" /\ addr \in Leases,
         note \subseteq {"dns", "silent"}, TasksOK'
  PROVE  CallInv'
<1>1. [out |-> out, ip |-> addr] \in Result /\ addr \in Leases \cup {NoIP}
  BY DEF Result
<1>2. res'.out \in {"Error", "address"}
  BY DEF Return
<1>3. GetStateIsTrue' /\ PowerCallIsDone'
  BY <1>2 DEF GetStateIsTrue, PowerCallIsDone, Returned
<1> QED
  BY <1>1, <1>3, ReturnInv

\* GetIP without an answer from the agent (lifecycle.go).
LEMMA FallbackInv ==
  ASSUME CallInv, NEW note, Fallback(note), note \subseteq {"dns"}, TasksOK'
  PROVE  CallInv'
<1>1. cfg.ip \in Leases \cup {NoIP}
  BY DEF CallInv, TypeOK
<1>2. CASE cfg.ip # NoIP
  <2>1. Return("address", cfg.ip, note \cup {"silent"}) /\ cfg.ip \in Leases
    BY <1>1, <1>2 DEF Fallback
  <2> QED
    BY <2>1, PlainReturnInv
<1>3. CASE cfg.ip = NoIP
  BY <1>3, PlainReturnInv DEF Fallback
<1> QED
  BY <1>2, <1>3

\* A call that goes on.
LEMMA ContinueInv ==
  ASSUME CallInv, pc # "idle", NEW step, NEW node \in Nodes \cup {NoNode}, NEW note,
         Continue(step, node, note), note \subseteq {"dns"}, TasksOK',
         step \in {"list", "fetch", "find", "agent", "wait"} \cup Kinds,
         Looking', Powering'
  PROVE  CallInv'
<1>1. TypeOK'
  BY DEF CallInv, TypeOK, Continue
<1>2. pc' = step /\ step # "idle" /\ vm' = vm /\ op' = op /\ hist \subseteq hist'
  BY DEF Continue, Kinds
<1>3. Witnessed' /\ SeenRunning'
  BY <1>2 DEF CallInv, Witnessed, SeenRunning
<1>4. GetStateIsTrue' /\ PowerCallIsDone'
  BY <1>2 DEF GetStateIsTrue, PowerCallIsDone, Returned
<1> QED
  BY <1>1, <1>3, <1>4 DEF CallInv

-----------------------------------------------------------------------------
(* lookupVM's three answers.                                               *)

\* The VM found may be addressed: it is recorded or has name and tag, unless
\* it was replaced on the way.
Vouched ==
  \/ cfg.recorded
  \/ vm.owner # "namesake" /\ (vm.owner = "tagged" => "absent" \in hist)

\* It found a VM.
LEMMA FoundInv ==
  ASSUME CallInv, pc # "idle", NEW node \in Nodes \cup {NoNode}, At(node),
         Found(node), Vouched, UNCHANGED <<task, late>>
  PROVE  CallInv'
<1>0. /\ vm \in VM \cup {NoVM} /\ vm.status # "absent" /\ Seen(vm) \in hist
      /\ TasksOK'
  BY DEF CallInv, TypeOK, Witnessed, At
<1>1. CASE op = "GetState" /\ Return(StateOf(vm.status), NoIP, {})
  <2>1. StateOf(vm.status) \in {"Running", "Starting", "Stopped", "Paused", "Error"}
    BY DEF StateOf
  <2>2. [out |-> StateOf(vm.status), ip |-> NoIP] \in Result
    BY <2>1 DEF Result
  <2>3. /\ op' = op /\ hist' = hist /\ res'.out = StateOf(vm.status)
        /\ cfg'.recorded = cfg.recorded
    BY <1>1 DEF Return, CallInv, TypeOK
  <2>4. \/ \E s \in hist : StateOf(s) = StateOf(vm.status)
        \/ "foreign" \in hist /\ (cfg.recorded \/ "absent" \in hist)
    <3>1. CASE vm.owner = "mine"
      BY <1>0, <3>1, SeenValue
    <3>2. CASE vm.owner # "mine"
      <4>1. "foreign" \in hist
        BY <1>0, <3>2, SeenValue
      <4>2. vm.owner \in Strangers
        BY <1>0, <3>2 DEF VM, NoVM
      <4> QED
        BY <4>1, <4>2 DEF Vouched, Strangers
    <3> QED
      BY <3>1, <3>2
  <2>5. GetStateIsTrue'
    BY <2>1, <2>3, <2>4 DEF GetStateIsTrue, Returned
  <2>6. PowerCallIsDone'
    BY <1>1, <2>3 DEF PowerCallIsDone, Returned
  <2> QED
    BY <1>0, <1>1, <2>2, <2>5, <2>6, ReturnInv
<1>2. CASE op = "GetURL" /\ MustBeRunning
  <2>1. CASE StateOf(vm.status) = "Running"
    <3>1. /\ pc' = "lookup" /\ ref' = NoNode /\ op' = "GetURL.GetIP"
          /\ UNCHANGED <<vm, cfg, res, hist, changes>>
      BY <1>2, <2>1 DEF MustBeRunning
    <3>2. vm.status = "running"
      BY <2>1 DEF StateOf
    <3>3. hist \cap {"running", "foreign"} # {}
      BY <1>0, <3>2, SeenValue
    <3>4. TypeOK'
      BY <1>0, <3>1 DEF CallInv, TypeOK
    <3>5. Witnessed' /\ SeenRunning'
      BY <1>0, <3>1, <3>3 DEF Witnessed, SeenRunning
    <3>6. Looking' /\ Powering'
      BY <3>1 DEF Looking, Powering, Kinds
    <3>7. GetStateIsTrue' /\ PowerCallIsDone'
      BY <3>1 DEF GetStateIsTrue, PowerCallIsDone, Returned
    <3> QED
      BY <3>4, <3>5, <3>6, <3>7 DEF CallInv
  <2>2. CASE StateOf(vm.status) # "Running"
    BY <1>0, <1>2, <2>2, PlainReturnInv DEF MustBeRunning
  <2> QED
    BY <2>1, <2>2
<1>3. CASE AsksAgent /\ Continue("agent", node, {})
  <2>1. Looking' /\ Powering'
    BY <1>3 DEF Continue, Looking, Powering, Kinds
  <2> QED
    BY <1>0, <1>3, <2>1, ContinueInv
<1>4. CASE op \in PowerCalls /\ Continue(FirstStep[op], node, {})
  <2>1. FirstStep[op] \in Kinds /\ FirstStep[op] \in Means[op]
    BY <1>4 DEF PowerCalls, FirstStep, Kinds, Means
  <2>2. /\ pc' = FirstStep[op] /\ op' = op /\ vm' = vm /\ cfg' = cfg
        /\ hist' = hist
    BY <1>4 DEF Continue
  <2>3. Looking'
    BY <2>1, <2>2 DEF Looking, Kinds
  <2>4. Powering'
    BY <1>4, <2>1, <2>2 DEF Powering, Vouched, Kinds
  <2> QED
    BY <1>0, <1>4, <2>1, <2>3, <2>4, ContinueInv
<1> QED
  BY <1>1, <1>2, <1>3, <1>4 DEF Found

\* It found none.
LEMMA MissingInv ==
  ASSUME CallInv, NEW note, Missing(note), note \subseteq {"dns"}, UNCHANGED <<task, late>>,
         (hist \cup note) \cap {"absent", "foreign", "moved", "dns"} # {}
  PROVE  CallInv'
<1>0. TasksOK'
  BY DEF CallInv, TypeOK
<1>1. CASE AsksAgent
  BY <1>0, <1>1, FallbackInv DEF Missing
<1>2. CASE ~AsksAgent /\ op # "GetState"
  BY <1>0, <1>2, PlainReturnInv DEF Missing
<1>3. CASE ~AsksAgent /\ op = "GetState"
  <2>1. Return("NotFound", NoIP, note)
    BY <1>3 DEF Missing
  <2>2. GetStateIsTrue' /\ PowerCallIsDone'
    BY <1>3, <2>1 DEF Return, GetStateIsTrue, PowerCallIsDone, Returned
  <2>3. [out |-> "NotFound", ip |-> NoIP] \in Result
    BY DEF Result
  <2> QED
    BY <1>0, <2>1, <2>2, <2>3, ReturnInv
<1> QED
  BY <1>1, <1>2, <1>3

\* It failed.
LEMMA LookupFailsInv ==
  ASSUME CallInv, LookupFails, UNCHANGED <<task, late>>
  PROVE  CallInv'
<1>0. TasksOK'
  BY DEF CallInv, TypeOK
<1> QED
  BY <1>0, FallbackInv, PlainReturnInv DEF LookupFails

-----------------------------------------------------------------------------
(* The driver's steps.                                                     *)

\* What a GET can have found out.
LEMMA ReadsValue ==
  ASSUME NEW node, NEW e \in ErrClass, Reads(node, e)
  PROVE  /\ e = "nil" => At(node)
         /\ IsNotFoundErr(e) => ~At(node) \/ NameServer(e) = {"dns"}
         /\ NameServer(e) \subseteq {"dns"}
BY DEF Reads, IsNotFoundErr, NameServer

\* lookupVM with a recorded VMID (driver.go).
LEMMA LookupInv ==
  ASSUME CallInv, LookupRecorded \/ LookupList \/ LookupFetch
  PROVE  CallInv'
<1>0. /\ vm \in VM \cup {NoVM} /\ TasksOK /\ cfg.node \in Nodes \cup {NoNode}
      /\ ref \in Nodes \cup {NoNode} /\ NoNode \in Nodes \cup {NoNode}
  BY DEF CallInv, TypeOK
<1>1. CASE LookupRecorded
  <2>1. PICK e \in ErrClass :
          /\ Reads(cfg.node, e)
          /\ \/ e = "nil" /\ Found(cfg.node)
             \/ IsNotFoundErr(e) /\ Continue("list", NoNode, NameServer(e))
             \/ LookupFails
    BY <1>1 DEF LookupRecorded
  <2>2. pc = "lookup" /\ cfg.recorded /\ UNCHANGED <<task, late>>
    BY <1>1 DEF LookupRecorded
  <2>3. CASE e = "nil" /\ Found(cfg.node)
    BY <1>0, <2>1, <2>2, <2>3, ReadsValue, FoundInv DEF Vouched
  <2>4. CASE Continue("list", NoNode, NameServer(e))
    <3>1. Looking' /\ Powering'
      BY <2>2, <2>4 DEF Continue, Looking, Powering, Kinds
    <3>2. NameServer(e) \subseteq {"dns"}
      BY <2>1, ReadsValue
    <3> QED
      BY <1>0, <2>2, <2>4, <3>1, <3>2, ContinueInv
  <2> QED
    BY <2>1, <2>2, <2>3, <2>4, LookupFailsInv
<1>2. CASE LookupList
  <2>1. pc = "list" /\ cfg.recorded /\ UNCHANGED <<task, late>> /\ Seen(vm) \in hist
    BY <1>2 DEF LookupList, CallInv, Looking, Witnessed
  <2>2. CASE LookupFails
    BY <2>1, <2>2, LookupFailsInv
  <2>3. CASE vm.status = "absent" /\ Missing({})
    BY <1>0, <2>1, <2>3, SeenValue, MissingInv
  <2>4. CASE vm.status # "absent" /\ Continue("fetch", vm.node, {})
    <3>1. vm.node \in Nodes \cup {NoNode}
      BY <1>0 DEF VM, NoVM
    <3>2. Looking' /\ Powering'
      BY <2>1, <2>4 DEF Continue, Looking, Powering, Kinds, At
    <3>3. TasksOK' /\ pc # "idle" /\ Continue("fetch", vm.node, {})
      BY <1>0, <2>1, <2>4
    <3> QED
      BY <3>1, <3>2, <3>3, ContinueInv
  <2> QED
    BY <1>2, <2>2, <2>3, <2>4 DEF LookupList
<1>3. CASE LookupFetch
  <2>1. PICK e \in ErrClass :
          /\ Reads(ref, e)
          /\ \/ e = "nil" /\ Found(ref)
             \/ IsNotFoundErr(e) /\ Missing(NameServer(e))
             \/ LookupFails
    BY <1>3 DEF LookupFetch
  <2>2. /\ pc = "fetch" /\ cfg.recorded /\ UNCHANGED <<task, late>>
        /\ At(ref) \/ hist \cap {"absent", "moved"} # {}
    BY <1>3 DEF LookupFetch, CallInv, Looking
  <2>3. CASE e = "nil" /\ Found(ref)
    BY <1>0, <2>1, <2>2, <2>3, ReadsValue, FoundInv DEF Vouched
  <2>4. CASE IsNotFoundErr(e) /\ Missing(NameServer(e))
    BY <2>1, <2>2, <2>4, ReadsValue, MissingInv
  <2> QED
    BY <2>1, <2>2, <2>3, <2>4, LookupFailsInv
<1> QED
  BY <1>1, <1>2, <1>3

\* FindVMByNameAndTag (resources.go).
LEMMA FindInv ==
  ASSUME CallInv, FindList \/ FindFetch
  PROVE  CallInv'
<1>0. /\ vm \in VM \cup {NoVM} /\ TasksOK
      /\ ref \in Nodes \cup {NoNode}
  BY DEF CallInv, TypeOK
<1>1. CASE FindList
  <2>1. pc = "lookup" /\ UNCHANGED <<task, late>> /\ Seen(vm) \in hist
    BY <1>1 DEF FindList, CallInv, Witnessed
  <2>2. CASE LookupFails
    BY <2>1, <2>2, LookupFailsInv
  <2>3. CASE vm.owner \notin {"mine", "namesake"} /\ Missing({})
    <3>1. Seen(vm) \in {"absent", "foreign"}
      BY <1>0, <2>3, SeenValue
    <3> QED
      BY <2>1, <2>3, <3>1, MissingInv
  <2>4. CASE vm.owner \in {"mine", "namesake"} /\ Continue("find", vm.node, {})
    <3>1. vm.node \in Nodes \cup {NoNode} /\ vm.status # "absent"
      BY <1>0, <2>4 DEF VM, NoVM, Present
    <3>2. Looking' /\ Powering'
      BY <2>4, <3>1 DEF Continue, Looking, Powering, Kinds, At
    <3> QED
      BY <1>0, <2>1, <2>4, <3>1, <3>2, ContinueInv
  <2> QED
    BY <1>1, <2>2, <2>3, <2>4 DEF FindList
<1>2. CASE FindFetch
  <2>1. PICK e \in ErrClass :
          /\ Reads(ref, e)
          /\ \/ e = "nil" /\ HasTag /\ Found(ref)
             \/ e = "nil" /\ ~HasTag /\ Missing({})
             \/ IsNotFoundErr(e) /\ Missing(NameServer(e))
             \/ LookupFails
    BY <1>2 DEF FindFetch
  <2>2. /\ pc = "find" /\ UNCHANGED <<task, late>> /\ Seen(vm) \in hist
        /\ At(ref) \/ hist \cap {"absent", "moved"} # {}
        /\ vm.owner \in {"mine", "namesake"} \/ "absent" \in hist
    BY <1>2 DEF FindFetch, CallInv, Looking, Witnessed
  <2>3. CASE e = "nil" /\ HasTag /\ Found(ref)
    <3>1. Vouched
      BY <2>2, <2>3 DEF Vouched, HasTag
    <3> QED
      BY <1>0, <2>1, <2>2, <2>3, <3>1, ReadsValue, FoundInv
  <2>4. CASE e = "nil" /\ ~HasTag /\ Missing({})
    <3>1. Seen(vm) \in {"absent", "foreign"}
      BY <1>0, <2>4, SeenValue DEF HasTag
    <3> QED
      BY <2>2, <2>4, <3>1, MissingInv
  <2>5. CASE IsNotFoundErr(e) /\ Missing(NameServer(e))
    BY <2>1, <2>2, <2>5, ReadsValue, MissingInv
  <2> QED
    BY <2>1, <2>2, <2>3, <2>4, <2>5, LookupFailsInv
<1> QED
  BY <1>1, <1>2

\* A failed request or task: Stop goes on to a hard stop (lifecycle.go).
LEMMA PowerFailsInv ==
  ASSUME CallInv, pc \in Kinds \cup {"wait"}, NEW kind, PowerFails(kind),
         TasksOK'
  PROVE  CallInv'
<1>1. CASE op = "Stop" /\ kind = "shutdown"
  <2>1. Continue("stop", ref, {})
    BY <1>1 DEF PowerFails
  <2>2. Looking'
    BY <2>1 DEF Continue, Looking
  <2>3. Powering'
    <3>1. ~cfg.recorded => vm.owner # "namesake" \/ "absent" \in hist
      BY DEF CallInv, Powering
    <3> QED
      BY <1>1, <2>1, <3>1 DEF Continue, Powering, Kinds, PowerCalls, Means
  <2>4. ref \in Nodes \cup {NoNode} /\ pc # "idle" /\ "stop" \in Kinds
    BY DEF CallInv, TypeOK, Kinds
  <2> QED
    BY <2>1, <2>2, <2>3, <2>4, ContinueInv
<1>2. CASE ~(op = "Stop" /\ kind = "shutdown")
  BY <1>2, PlainReturnInv DEF PowerFails
<1> QED
  BY <1>1, <1>2

\* The requests and their tasks, and the guest agent (lifecycle.go, vm.go).
LEMMA PowerInv ==
  ASSUME CallInv, QueryAgentIP \/ Request \/ WaitTask
  PROVE  CallInv'
<1>0. /\ vm \in VM \cup {NoVM} /\ TasksOK /\ NoTask \in Task
      /\ ref \in Nodes \cup {NoNode}
  BY DEF CallInv, TypeOK, Task, NoTask
<1>1. CASE QueryAgentIP
  <2>1. At(ref) => vm.lease \in Leases
    BY <1>0 DEF At, VM, NoVM
  <2>2. UNCHANGED <<task, late>>
    BY <1>1 DEF QueryAgentIP
  <2> QED
    BY <1>0, <1>1, <2>1, <2>2, FallbackInv, PlainReturnInv DEF QueryAgentIP
<1>2. CASE Request
  <2>1. pc \in Kinds /\ pc # "idle" /\ late' = late
    BY <1>2 DEF Request, Kinds
  <2>2. CASE PowerFails(pc) /\ UNCHANGED task
    BY <1>0, <2>1, <2>2, PowerFailsInv
  <2>3. CASE /\ task' = [kind |-> pc, exit |-> "running"]
             /\ Continue("wait", ref, {})
    <3>1. TasksOK'
      BY <1>0, <2>1, <2>3 DEF Task
    <3>2. Looking'
      BY <2>3 DEF Continue, Looking
    <3>3. op \in PowerCalls /\ pc \in Means[op]
          /\ (~cfg.recorded => vm.owner # "namesake" \/ "absent" \in hist)
      BY <2>1 DEF CallInv, Powering
    <3>4. Powering'
      <4>1. pc' = "wait" /\ UNCHANGED <<op, cfg, vm, hist>>
        BY <2>3 DEF Continue
      <4>2. task'.kind = pc /\ task'.exit = "running"
        BY <2>3
      <4> QED
        BY <3>3, <4>1, <4>2 DEF Powering, Kinds
    <3> QED
      <4>1. Continue("wait", ref, {})
        BY <2>3
      <4> QED
        BY <1>0, <2>1, <3>1, <3>2, <3>4, <4>1, ContinueInv
  <2> QED
    BY <1>2, <2>2, <2>3 DEF Request
<1>3. CASE WaitTask
  <2>0. pc = "wait" /\ task.kind \in Kinds
    BY <1>3 DEF WaitTask, CallInv, Powering, PowerCalls, Means, Kinds
  <2>1. pc = "wait" /\ TasksOK'
    BY <1>0, <1>3, <2>0 DEF WaitTask, Forget, CallInv, TypeOK
  <2>2. CASE PowerFails(task.kind)
    BY <2>1, <2>2, PowerFailsInv
  <2>3. CASE task.exit = "nil" /\ Return("done", NoIP, {})
    <3>1. op \in PowerCalls /\ task.kind \in Means[op] /\ Worked(task.kind)
      BY <2>1, <2>3 DEF CallInv, Powering
    <3>2. /\ op \in {"Stop", "Kill"} => task.kind \in {"shutdown", "stop"}
          /\ op \in {"Start", "Restart"} => task.kind \in {"start", "reboot"}
      BY <3>1 DEF Means
    <3>3. PowerCallIsDone'
      BY <2>3, <3>1, <3>2 DEF Return, PowerCallIsDone, Returned, Worked
    <3>4. GetStateIsTrue'
      BY <2>3, <3>1 DEF Return, GetStateIsTrue, Returned, PowerCalls
    <3>5. [out |-> "done", ip |-> NoIP] \in Result
      BY DEF Result
    <3> QED
      BY <2>1, <2>3, <3>3, <3>4, <3>5, ReturnInv
  <2> QED
    BY <1>3, <2>2, <2>3 DEF WaitTask
<1> QED
  BY <1>1, <1>2, <1>3

-----------------------------------------------------------------------------
(* The steps of the others.                                                *)

\* Whatever happens to the VM, a call in progress witnesses it.
LEMMA WitnessInv ==
  ASSUME CallInv, NEW note, Witness(note), note \subseteq {"moved"},
         UNCHANGED <<cfg, op, pc, ref, res>>,
         vm' \in VM \cup {NoVM}, TasksOK', changes' \in 0..MaxChanges,
         pc # "idle" =>
           /\ \/ vm'.owner = vm.owner
              \/ "absent" \in {Seen(vm), Seen(vm')}
           /\ \/ vm'.status # "absent" /\ vm.status # "absent" /\ vm'.node = vm.node
              \/ "absent" \in {Seen(vm), Seen(vm')} \/ "moved" \in note,
         pc = "wait" =>
           /\ task'.kind = task.kind
           /\ \/ task' = task
              \/ task'.exit = "nil" => Worked(task.kind)'
  PROVE  CallInv'
<1>0. Seen(vm') \in Present \cup {"absent", "foreign"}
  BY SeenValue
<1>1. /\ pc = "idle" => hist' = hist
      /\ pc # "idle" => hist' = hist \cup {Seen(vm')} \cup note
      /\ hist \subseteq hist'
  BY DEF Witness
<1>2. pc # "idle" => Seen(vm) \in hist
  BY DEF CallInv, Witnessed
<1>3. TypeOK'
  <2>1. hist' \in SUBSET (Present \cup {"absent", "foreign", "moved", "dns", "silent"})
    BY <1>0, <1>1 DEF CallInv, TypeOK
  <2> QED
    BY <2>1 DEF CallInv, TypeOK
<1>4. Witnessed'
  BY <1>1 DEF Witnessed, Seen
<1>5. Looking'
  <2>1. pc \in {"fetch", "find"} => At(ref)' \/ hist' \cap {"absent", "moved"} # {}
    BY <1>1, <1>2 DEF CallInv, Looking, At
  <2>2. pc = "find" => vm'.owner \in {"mine", "namesake"} \/ "absent" \in hist'
    BY <1>1, <1>2 DEF CallInv, Looking
  <2> QED
    BY <2>1, <2>2 DEF CallInv, Looking
<1>6. Powering'
  <2>1. pc \in Kinds \cup {"wait"} /\ ~cfg.recorded
          => vm'.owner # "namesake" \/ "absent" \in hist'
    BY <1>1, <1>2 DEF CallInv, Powering, Kinds
  <2>2. pc = "wait" /\ task'.exit = "nil" => Worked(task.kind)'
    BY <1>1 DEF CallInv, Powering, Worked
  <2>3. pc = "wait" => task'.kind \in Means[op] /\ op \in PowerCalls
    BY DEF CallInv, Powering
  <2>4. pc \in Kinds => op \in PowerCalls /\ pc \in Means[op]
    BY DEF CallInv, Powering
  <2> QED
    BY <2>1, <2>2, <2>3, <2>4 DEF Powering, Worked
<1>7. SeenRunning'
  BY <1>1 DEF CallInv, SeenRunning
<1>8. GetStateIsTrue' /\ PowerCallIsDone'
  BY <1>1 DEF CallInv, GetStateIsTrue, PowerCallIsDone, Returned
<1> QED
  BY <1>3, <1>4, <1>5, <1>6, <1>7, <1>8 DEF CallInv

\* A task that works leaves the VM where it is, in the state it is for.
LEMMA EffectValue ==
  ASSUME vm \in VM \cup {NoVM}, NEW kind \in Kinds, NEW v \in Effect(kind)
  PROVE  /\ v \in VM /\ v.owner = vm.owner /\ v.node = vm.node
         /\ vm.status # "absent"
         /\ v.status = IF kind \in {"shutdown", "stop"} THEN "stopped" ELSE "running"
<1>1. vm.status # "absent"
  BY DEF Effect, Kinds
<1>2. vm \in VM
  BY <1>1 DEF NoVM
<1>3. CASE kind \in {"start", "reboot"}
  <2>1. v \in Powered("running")
    BY <1>3 DEF Effect
  <2> QED
    BY <1>1, <1>2, <1>3, <2>1 DEF Powered, VM, Present
<1>4. CASE kind \in {"shutdown", "stop"}
  <2>1. v = [vm EXCEPT !.status = "stopped"]
    BY <1>4 DEF Effect
  <2> QED
    BY <1>1, <1>2, <1>4, <2>1 DEF VM, Present
<1> QED
  BY <1>1, <1>3, <1>4 DEF Kinds

\* The task that is waited for ends.
LEMMA TaskEndsInv ==
  ASSUME CallInv, TaskEnds
  PROVE  CallInv'
<1>0. /\ vm \in VM \cup {NoVM} /\ TasksOK /\ changes' \in 0..MaxChanges
      /\ Witness({}) /\ UNCHANGED <<cfg, op, pc, ref, res, late>>
      /\ late \in SUBSET Kinds
  BY DEF CallInv, TypeOK, TaskEnds
<1>1. CASE vm' \in Effect(task.kind) /\ task' = [task EXCEPT !.exit = "nil"]
  <2>0. task.kind \in Kinds
    BY <1>0, <1>1 DEF Task, Effect, Kinds
  <2>1. /\ vm' \in VM /\ vm'.owner = vm.owner /\ vm'.node = vm.node
        /\ vm.status # "absent" /\ vm'.status # "absent"
        /\ vm'.status = IF task.kind \in {"shutdown", "stop"} THEN "stopped"
                        ELSE "running"
    BY <1>0, <1>1, <2>0, EffectValue DEF VM, Present
  <2>2. TasksOK' /\ task'.kind = task.kind
    BY <1>0, <1>1 DEF Task
  <2>3. pc = "wait" => Worked(task.kind)'
    <3>1. Seen(vm') \in {"foreign", vm'.status}
      BY <2>1, SeenValue
    <3>2. pc = "wait" => Seen(vm') \in hist'
      BY <1>0 DEF Witness
    <3> HIDE DEF Seen
    <3>3. pc = "wait" =>
            \/ "foreign" \in hist'
            \/ (IF task.kind \in {"shutdown", "stop"} THEN "stopped" ELSE "running")
                 \in hist'
      BY <2>1, <3>1, <3>2
    <3> QED
      BY <2>2, <3>3 DEF Worked
  <2> QED
    BY <1>0, <2>1, <2>2, <2>3, WitnessInv
<1>2. CASE vm' = vm /\ task' = [task EXCEPT !.exit = "fatal"]
  <2>1. TasksOK' /\ task'.kind = task.kind /\ task'.exit = "fatal"
    BY <1>0, <1>2 DEF Task
  <2>2. vm.status = "absent" => Seen(vm) = "absent"
    BY <1>0, SeenValue
  <2> QED
    BY <1>0, <1>2, <2>1, <2>2, WitnessInv
<1> QED
  BY <1>1, <1>2 DEF TaskEnds

\* A late task ends: the task that is waited for is another one.
LEMMA LateEndsInv ==
  ASSUME CallInv, NEW kind \in Kinds, LateEnds(kind)
  PROVE  CallInv'
<1>0. /\ vm \in VM \cup {NoVM} /\ changes' \in 0..MaxChanges
      /\ Witness({}) /\ UNCHANGED <<cfg, op, pc, ref, res, task>>
      /\ TasksOK' /\ vm' \in Effect(kind) \cup {vm}
  BY DEF CallInv, TypeOK, LateEnds
<1>1. CASE vm' \in Effect(kind)
  <2>1. /\ vm' \in VM /\ vm'.owner = vm.owner /\ vm'.node = vm.node
        /\ vm.status # "absent" /\ vm'.status # "absent"
    BY <1>0, <1>1, EffectValue DEF VM, Present
  <2> QED
    BY <1>0, <2>1, WitnessInv
<1>2. CASE vm' = vm
  <2>1. vm.status = "absent" => Seen(vm) = "absent"
    BY <1>0, SeenValue
  <2> QED
    BY <1>0, <1>2, <2>1, WitnessInv
<1> QED
  BY <1>0, <1>1, <1>2

\* People interfere.
LEMMA InterferesInv ==
  ASSUME CallInv,
         \/ \E n \in Nodes : Migrate(n)
         \/ \E s \in Present : Power(s)
         \/ Delete
         \/ \E o \in Strangers, n \in Nodes, a \in Leases : Reuse(o, n, a)
  PROVE  CallInv'
<1>0. vm \in VM \cup {NoVM} /\ TasksOK
  BY DEF CallInv, TypeOK
<1>1. ASSUME NEW v, NEW note, Interferes(v, note)
      PROVE  /\ Witness(note) /\ UNCHANGED <<cfg, op, pc, ref, res>> /\ UNCHANGED <<task, late>>
             /\ vm' = v /\ changes' \in 0..MaxChanges
  BY <1>1, LifecycleAssumption DEF Interferes, CallInv, TypeOK
<1>2. ASSUME NEW n \in Nodes, Migrate(n) PROVE CallInv'
  <2>1. vm \in VM /\ Interferes([vm EXCEPT !.node = n], {"moved"})
    BY <1>0, <1>2 DEF Migrate, NoVM
  <2>2. /\ [vm EXCEPT !.node = n] \in VM
        /\ [vm EXCEPT !.node = n].owner = vm.owner
    BY <2>1 DEF VM
  <2>3. /\ Witness({"moved"}) /\ UNCHANGED <<cfg, op, pc, ref, res>> /\ UNCHANGED <<task, late>>
        /\ vm' = [vm EXCEPT !.node = n] /\ changes' \in 0..MaxChanges
    BY <1>1, <2>1
  <2>4. vm' \in VM \cup {NoVM} /\ vm'.owner = vm.owner /\ TasksOK'
    BY <1>0, <2>2, <2>3
  <2> QED
    BY <2>3, <2>4, WitnessInv
<1>3. ASSUME NEW s \in Present, Power(s) PROVE CallInv'
  <2>1. PICK v \in Powered(s) : vm \in VM /\ Interferes(v, {})
    BY <1>0, <1>3 DEF Power, NoVM
  <2>2. /\ v \in VM /\ v.owner = vm.owner /\ v.node = vm.node
        /\ v.status # "absent" /\ vm.status # "absent"
    BY <2>1 DEF VM, Powered, Present
  <2> QED
    BY <1>0, <1>1, <2>1, <2>2, WitnessInv
<1>4. CASE Delete
  <2>1. Interferes(NoVM, {}) /\ Seen(NoVM) = "absent"
    BY <1>4 DEF Delete, Seen, NoVM
  <2> QED
    BY <1>0, <1>1, <2>1, WitnessInv
<1>5. ASSUME NEW o \in Strangers, NEW n \in Nodes, NEW a \in Leases, Reuse(o, n, a)
      PROVE  CallInv'
  <2>1. /\ [status |-> "running", owner |-> o, node |-> n, lease |-> a] \in VM
        /\ Interferes([status |-> "running", owner |-> o, node |-> n, lease |-> a], {})
    BY <1>5 DEF Reuse, VM, Present
  <2>2. Seen(vm) = "absent"
    BY <1>0, <1>5, SeenValue DEF Reuse
  <2> QED
    BY <1>0, <1>1, <2>1, <2>2, WitnessInv
<1> QED
  BY <1>2, <1>3, <1>4, <1>5

\* Rancher makes a call.
LEMMA CallCallInv ==
  ASSUME CallInv, NEW c \in Calls, Call(c)
  PROVE  CallInv'
<1>1. Seen(vm) \in Present \cup {"absent", "foreign"}
  BY SeenValue DEF CallInv, TypeOK
<1>2. NoResult \in Result
  BY DEF NoResult, Result
<1>3. TypeOK'
  BY <1>1, <1>2 DEF CallInv, TypeOK, Call
<1>4. Witnessed' /\ Looking' /\ Powering'
  BY DEF Call, Witnessed, Looking, Powering, Kinds, Seen
<1>5. SeenRunning'
  BY DEF Call, SeenRunning, Calls, PowerCalls
<1>6. GetStateIsTrue' /\ PowerCallIsDone'
  BY DEF Call, GetStateIsTrue, PowerCallIsDone, Returned
<1> QED
  BY <1>3, <1>4, <1>5, <1>6 DEF CallInv

\* Every step preserves the invariant.
LEMMA CallInvNext == CallInv /\ [Next]_vars => CallInv'
<1> SUFFICES ASSUME CallInv, [Next]_vars PROVE CallInv'
  OBVIOUS
<1>1. CASE UNCHANGED vars
  BY <1>1 DEF vars, CallInv, TypeOK, Witnessed, Looking, Powering, SeenRunning,
              GetStateIsTrue, PowerCallIsDone, Returned, Worked, Seen, At
<1>2. CASE Driver
  BY <1>2, LookupInv, FindInv, PowerInv DEF Driver
<1>3. CASE Environment
  BY <1>3, TaskEndsInv, LateEndsInv, InterferesInv DEF Environment
<1> QED
  BY <1>1, <1>2, <1>3, CallCallInv DEF Next

\* It holds before the first call.
LEMMA CallInvInit == Init => CallInv
<1> SUFFICES ASSUME Init PROVE CallInv
  OBVIOUS
<1>1. TypeOK
  <2>1. vm \in VM /\ vm.lease = Lease /\ vm.node = Home
    BY LifecycleAssumption DEF Init, VM, Present
  <2>2. cfg \in [recorded: BOOLEAN, node: Nodes \cup {NoNode}, ip: Leases \cup {NoIP}]
    <3>1. PICK r \in BOOLEAN, n \in {Home, NoNode}, a \in {Lease, NoIP} :
            cfg = [recorded |-> r, node |-> n, ip |-> a]
      BY DEF Init
    <3> QED
      BY <3>1, LifecycleAssumption
  <2>3. NoTask \in Task /\ NoResult \in Result /\ MaxChanges \in 0..MaxChanges
    BY LifecycleAssumption DEF NoTask, Task, NoResult, Result
  <2> QED
    BY <2>1, <2>2, <2>3 DEF Init, TypeOK
<1> QED
  BY <1>1 DEF Init, CallInv, Witnessed, Looking, Powering, SeenRunning, Kinds,
              GetStateIsTrue, PowerCallIsDone, Returned, NoResult

-----------------------------------------------------------------------------
(* The theorems.                                                           *)

\* The invariant holds throughout.
LEMMA AlwaysCallInv == Spec => []CallInv
BY CallInvInit, CallInvNext, PTL DEF Spec

\* lifecycle.go: every variable stays in its set.
THEOREM LifecycleTypes == Spec => []TypeOK
<1>1. CallInv => TypeOK
  BY DEF CallInv
<1> QED
  BY <1>1, AlwaysCallInv, PTL

\* GetState (lifecycle.go) answers with a state the VM was in during the call,
\* however its requests interleave with migrations, deletions and reuse.
THEOREM StateIsTrue == Spec => []GetStateIsTrue
<1>1. CallInv => GetStateIsTrue
  BY DEF CallInv
<1> QED
  BY <1>1, AlwaysCallInv, PTL

\* Start, Stop, Kill and Restart (lifecycle.go) report success only of a task
\* that has had its effect during the call.
THEOREM PowerIsDone == Spec => []PowerCallIsDone
<1>1. CallInv => PowerCallIsDone
  BY DEF CallInv
<1> QED
  BY <1>1, AlwaysCallInv, PTL

\* GetURL (lifecycle.go) gives an address only of a machine seen running.
THEOREM URLOfRunning == Spec => []URLOnlyOfRunning
<1>1. CallInv => URLOnlyOfRunning
  BY DEF CallInv, SeenRunning, URLOnlyOfRunning, Returned
<1> QED
  BY <1>1, AlwaysCallInv, PTL

\* What a step that ends a call may answer with as an address.
LEMMA AddressStep ==
  ASSUME CallInv, Next, pc # "idle", pc' = "idle", res'.out = "address"
  PROVE  res'.ip = vm.lease \/ "silent" \in hist'
<1>1. ASSUME NEW note, Fallback(note) PROVE "silent" \in hist'
  BY <1>1 DEF Fallback, Return
<1>2. ASSUME NEW out, NEW addr, NEW note, Return(out, addr, note) PROVE out = "address"
  BY <1>2 DEF Return
<1>3. \A s : StateOf(s) # "address"
  BY DEF StateOf
<1>4. ASSUME NEW node, NEW step, NEW note, Continue(step, node, note) PROVE step = "idle"
  BY <1>4 DEF Continue
<1>5. ASSUME NEW node, Found(node) PROVE FALSE
  <2>1. op \in PowerCalls => FirstStep[op] # "idle"
    BY DEF PowerCalls, FirstStep
  <2> QED
    BY <1>2, <1>3, <1>4, <1>5, <2>1 DEF Found, MustBeRunning
<1>6. ASSUME NEW note, Missing(note) PROVE "silent" \in hist'
  BY <1>1, <1>2, <1>6 DEF Missing
<1>7. ASSUME LookupFails PROVE "silent" \in hist'
  BY <1>1, <1>2, <1>7 DEF LookupFails
<1>8. ASSUME NEW kind, PowerFails(kind) PROVE FALSE
  BY <1>2, <1>4, <1>8 DEF PowerFails
<1>9. Driver
  BY DEF Next, Environment, TaskEnds, LateEnds, Migrate, Power, Delete, Reuse, Interferes, Call
<1>10. CASE LookupRecorded \/ LookupList \/ LookupFetch \/ FindList \/ FindFetch
  BY <1>4, <1>5, <1>6, <1>7, <1>10
     DEF LookupRecorded, LookupList, LookupFetch, FindList, FindFetch
<1>11. CASE QueryAgentIP
  BY <1>1, <1>11 DEF QueryAgentIP, Return
<1>12. CASE Request \/ WaitTask
  BY <1>2, <1>4, <1>8, <1>12 DEF Request, WaitTask
<1> QED
  BY <1>9, <1>10, <1>11, <1>12 DEF Driver

\* GetIP (lifecycle.go): an address that is not the guest's is returned only
\* when the agent could not be asked.
THEOREM FreshAddress == Spec => AddressIsFresh
<1>1. CallInv /\ [Next]_vars =>
        [/\ pc # "idle" /\ pc' = "idle" /\ res'.out = "address"
         => res'.ip = vm.lease \/ "silent" \in hist']_vars
  BY AddressStep
<1> QED
  BY <1>1, AlwaysCallInv, PTL DEF Spec, AddressIsFresh

\* FindVMByNameAndTag (resources.go): without a recorded VMID a power request
\* never goes to a VM that has only the machine's name.
THEOREM NameNeverTrusted == Spec => NameIsNeverTrusted
<1>1. CallInv /\ [Next]_vars =>
        [/\ pc \in Kinds /\ pc' = "wait" /\ ~cfg.recorded /\ vm.owner = "namesake"
         => "absent" \in hist]_vars
  BY DEF CallInv, Powering
<1> QED
  BY <1>1, AlwaysCallInv, PTL DEF Spec, NameIsNeverTrusted

==============================================================================
