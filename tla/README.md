# A TLA+ model of the pvenode node driver

`pve-rancher-node-driver` lets Rancher make and destroy Proxmox VE (PVE) virtual
machines. Every driver call runs in a short-lived process of its own; several
machines are made at once; between calls only the machine's `config.json`
survives; and PVE answers with tasks that run on, fail or outlive the wait for
them. What the driver promises is about exactly these situations: no VM is left
behind, none is deleted that is not the driver's own, and everything may be
repeated. This directory models the driver's calls request by request, checks them with TLC on small instances, shows that they implement an abstract
specification of what Rancher may rely on, and proves that refinement and all
safety properties of the passing runs for every instance with TLAPS.

## 1. The system

| Component | Source | State | Operations | Correct if |
|---|---|---|---|---|
| Error classes, Retry | `pkg/pve/errors.go`, `retry.go` | none | the classifiers, `Retry` | only failures worth it are retried, at most `attempts` times |
| PVE access | `pkg/pve/resources.go`, `vmops.go`, `task.go` | the cluster's (VMs, tasks) | `ListVMs`, `GetVM`, `WaitTask`, `ApplyConfig`, `StartVM`, `ShutdownVM`, `StopVM`, `DeleteVM` | a task that failed or was not seen to end is an error |
| CloneFromTemplate | `pkg/pve/clone.go` | VMID being cloned, attempt | pick a VMID, clone, wait, read, tag; `bestEffortDelete` | returns a tagged VM, or an error and no VM |
| Create | `pkg/driver/create.go` | `Driver.VMID`, `PVENode` | resolve placement, clone, configure, start, wait for the IP, clean up | a failed create leaves nothing; what is recorded is removable |
| Remove, lookupVM | `pkg/driver/remove.go`, `driver.go` | the handle | lookup by node and VMID, by VMID, by name and tag; tag guard; shutdown; delete | deletes its own VM only; repeatable; "gone" means gone |
| WaitForIP | `pkg/pve/agentip.go` | net0's MAC, deadline | agent query, `pickIPv4`, TCP probe | returns net0's address, not a bridge's; ends |
| Lifecycle | `pkg/driver/lifecycle.go` | `IPAddress` | `GetState`, `Start`, `Stop`, `Kill`, `Restart`, `GetIP`, `GetURL` | answers were true during the call; success means the task ended well; every call returns |
| Placement, checks | `pkg/driver/precreate.go`, `pkg/validate` | none | `PreCreateCheck`, `resolvePlacement`, the rules | what passes can be cloned, what is refused could not be, up to what is known not to be checked |
| Flags | `pkg/driver/flags.go` | the machine's options | `SetConfigFromFlags`, `parseVMIDRange` | no option is silently dropped |
| Client, entry point | `pkg/pve/client.go`, `access.go`, `cmd/` | none | | |
| Rancher (external) | used through the driver interface | `config.json` | create job, rm jobs until one succeeds | |
| PVE (external) | used through go-proxmox | VMs, locks, tasks | clone, delete, config, power | |

Rancher calls `PreCreateCheck`, saves `config.json`, calls `Create`, and saves
again. To delete a machine, and after a create that failed or died, it runs `rm`
jobs, each of which loads `config.json` and calls `Remove`, until one succeeds.
`Create` itself calls `Remove` when a step after the clone fails. Machines share
nothing but the PVE cluster, where a VM is recognised by VMID, by name and by the
tag `rancher-pvenode`, which is the same for all machines.

What is hard here: parallel creates that race for VMIDs; a clone that exists,
locked and untagged, long before its task ends; requests that take effect although
their reply is lost; processes that die between any two requests; stale VMIDs in
`config.json`; VMs that move, appear and vanish between a list and a fetch; errors
told apart by substrings. The list with lines is `hazards` in `PROJECT.json`.

## 2. Modules

```
PVEErrors            error classes, classifiers, Retry's cap
  PVECluster         VMs, tasks, API calls, faults
    DriverProcess    processes: control points, Driver fields, config.json
      CloneFromTemplate   clone.go
      RemoveVM            remove.go, lookupVM, DeleteVM
        NodeDriver        Create, Rancher's jobs, crashes; their properties
          NodeDriverRefinement  NodeDriver implements Machine
            MCNodeDriver          instances for TLC
          NodeDriverProofs      types, ownership
            StepProofs            what one step can do to a VM and to a machine
              TagProofs             tags, machines that are up, removal, what a
                                    failed Create leaves
                RefinementProofs      NodeDriver implements Machine (also extends
                                      NodeDriverRefinement)
  Lifecycle          lifecycle.go over lookupVM, for one machine
    LifecycleProofs    its theorems
Machine              abstract: what Rancher may rely on
AgentIP              create.go's refresh of the MAC, agentip.go; a guest
  AgentIPProofs      its theorems
Placement            flags.go, precreate.go, pkg/validate; a cluster
  MCPlacement        clusters and options for TLC
  PlacementProofs    its theorems
FirstIndex           a lemma on Min, for the loops that return at the first match
```

**PVEErrors.** Error texts are abstracted to what they make the classifiers
answer (ten classes). Two of them exist because substring search is coarse:
`"dns"` ("no such host" contains "no such" and is a `net.Error`) and `"fatal595"`
(a permanent failure with 595 in a VMID or UPID), and `"vmlocked"` because
"VM is locked" matches none of `IsLockErr`'s wordings. `RetryAgain` is `Retry`'s
loop condition; the delays are not modelled.

**PVECluster.** `vms[id]` is the VM with that id: `"free"`, `"cloning"` (locked),
`"idle"` or `"deleting"`, with name, tag, power, node. `owner`, `first` and
`reused` are ghosts that no guard of the driver reads: who made the VM, who first
had the id, which ids had two owners. A clone or delete request starts a task that
ends on its own, well or badly (a failed clone may leave a partial VM), whether or
not anybody still waits. `WaitTask` returns the exit status of an ended task, gives
up on a running one, or fails to poll. Configuration and power tasks are short and
one at a time, so such a call is one step that takes effect or not and may report
an error either way. Whether any call fails is decided by `Inject`, which takes
from a budget of `MaxFaults` faults of the kinds in `Faults`; refusals with a
reason in the model (a VMID in use, a locked VM, a VM that is not there) cost
nothing. Operators may migrate, create, delete, start, stop and pause VMs by hand
(`Migrate`, `ForeignCreate`, `ForeignDelete`, `Power`), also as faults. PVE deletes
neither a running nor a paused VM.

**DriverProcess.** `pc[m]` is the control point of machine `m`'s process or, if
none runs, what Rancher knows of `m`. `drv` is `Driver.VMID`/`PVENode` in memory,
`cfg` the same in `config.json`, `hnd` the handle in use, `tries` and `err` the
state of the `Retry` in progress, `rows` the listing still to be searched. One
process per machine at a time is Rancher's rule. After a failed create the model
lets `config.json` be rewritten or not.

**CloneFromTemplate, RemoveVM, NodeDriver.** The control points are where the code
waits for PVE, and every other process, the cluster and a crash may come in between.
Each list, fetch, clone and delete request is an action, and so is each wait for a
clone or delete task; a configuration or power request and the wait for its short
task are one action together (`Modify`). What follows without another request is part
of the action. `Found` is the tag guard and the power test, made on the data the
fetch returned. `bestEffortDelete` is `CleanUpRead`, `CleanUpDelete`, `CleanUpWait`, and returns to `Retry` or to
`Create`. In `NodeDriver`, `StartCreate` is `Create` up to the clone (the placement
resolves, or `Create` fails with nothing made), `ConfigureVM`, `ResizeVMDisk` (if the
disk is to grow), `StartVM` and `WaitForIP` are `provision`, `Crash` is the death of a
process at any control point.

**AgentIP.** The handle's copy of net0's MAC, the rewrite that makes PVE invent a
new one, the refresh, and `WaitForIP`'s loop, where the query and the probe are
two steps. The guest is external: agent, lease, sshd, container bridge, link-local
address and a bridge that enslaves the NIC appear in any order; the lease and the
agent may change again; the VM may be deleted. The probe is a dial and nothing more:
it may fail although sshd runs, and once the guest no longer has the probed address
another host may answer at it (`MayAnswer`). The ghost `reported` is net0's address
at the moment of the agent's last answer. `MaxPolls` bounds the polls that
fit into the timeout. Hardware addresses carry their letter case, because the
config and the agent write them differently.

**Machine, NodeDriverRefinement.** `Machine` knows of every machine its phase and
whether it has a tagged VM, nothing else: the VM is acquired at most once and only
by the create job (which may not hear of it and then only undoes), `up` needs it,
nobody takes it away while the machine is up, `removed` needs it gone. Once
`clean` is false nothing is promised about VMs. The mapping computes `phase` from
`pc` and `ret`, `has` from the VMs' owners and tags, and `clean` from what the
driver cannot tell apart: an id with two owners, and the faults `"dns"`,
`"migrate"` and `"purge"`.

**Lifecycle.** One machine's VMID, the VM that has it (the machine's own, a
namesake without the tag, another machine's), the last power task, and what
`config.json` holds (VMID saved or not, address known or not). A call is
`Call`, the steps of `lookupVM`, and then an answer, an agent query or a power
request and, as a step of its own, its `WaitTask`. `Return` lets Rancher save the
learned address or not. A task nobody waits for any longer goes on beside the next
one and takes effect at any later time (`late`, `LateEnds`): the shutdown that `Stop`
gave up on beside its hard stop, or beside the start of the next call. Running tasks
lock the VM against people. `MaxLate` bounds beside how many late tasks PVE starts
another one. `hist` is a ghost: what was the case at some moment of the call.

**Placement.** `Flags`, then `PreCreateCheck`'s requests (`Version`,
`Permissions`), then `resolvePlacement`'s (`List`, `Template`, `Storages`,
`Bridges`), which `Create` runs again after `StartCreate`. `Clone` stands for the
clone request and what `provision` does to NIC and disk. The driver's tests and
PVE's own conditions are separate definitions over the cluster's state, so that
either may be wrong about the other:

| The driver's test | PVE's condition (external) |
|---|---|
| `Missing`: the privilege is granted on any path | `Allowed`: on this object's path or above it, for what lists show and for what the clone needs (`Needs`) |
| `LinkedTypes`, or a qcow2 file | `BaseImageTypes`: ZFS over iSCSI and files of any format, too |
| `HasBridge`: in the node's list, type "bridge" | the node has it: a Linux bridge, an OVS bridge or a vnet |
| `StorageError`: what the target node lists | `StoragesServe`: what the template's node needs, too, and whether "data" is active |
| `ResolveError`: every VM of the name counts, also a namesake once the template is gone | the VM that was resolved is a template |
| none | the pool exists, a VMID of the range is free |

`World` and `Options` abstract config strings to what the rules find in them, but keep
what the rules compute with: sizes with their units, the boot order, storage and
bridge types, ACL paths, the range, the tag. `Change` alters one attribute of the
cluster between any two requests. `calm` and `skipped` are ghosts.

## 3. Runs

The runs of `MCNodeDriver` use two attempts per `Retry`: one retry and the last
failure both happen, a third attempt adds nothing new. Machines and VMIDs are
symmetric in the safety runs, where no constant tells them apart; the fair runs
use no symmetry.

| Run | Instance | Shows |
|---|---|---|
| `safety` | 2 machines, 2 VMIDs, any 3 of 9 kinds of faults | `TypeOK`, `DeleteOnlyOwnUnlessReused`, `RecordedVMIsTagged`, `RemovedLeavesNoTaggedVM`, `UpMachineHasItsVM`, `AtMostOneTaggedVM`; refinement: `MachineSpec` |
| `cleanup` | 2 machines, one with `--pvenode-keep-on-failure`, 1 of 8 kinds of faults (refused requests, failed tasks, a silent guest, a crash, VMs made or deleted by others) | `FailedCreateCleansUp` |
| `liveness` | 1 machine, 2 VMIDs, 2 nodes, any 3 of 13 kinds, operators included | `CreateReturns`, `EventuallyGone`, `DeleteOnlyOwnUnlessReused`, `RecordedVMIsTagged` |
| `agent_ip` | 2 leases, 3 polls | `TypeOK`, `IPIsNet0Lease`, `LeaseNeverOverlooked`, `WaitEnds` |
| `lifecycle` | 2 nodes, 2 leases, 2 interferences, any number of calls | `TypeOK`, `GetStateIsTrue`, `PowerCallIsDone`, `URLOnlyOfRunning`, `AddressIsFresh`, `NameIsNeverTrusted`, `CallReturns` |
| `placement` | clusters one attribute and options two away from usual ones, 2 changes | `TypeOK`, `CheckedCanBeCreated`, `RefusalIsJustified`, `HiddenIsNotMissing`, `VMIsAsAsked` |

Two machines and two VMIDs are enough for a VMID conflict, a second attempt under
another id, and an id that changes hands; three faults for a failure, the failure
of its clean-up and a crash on top. In `cleanup` one fault is the claim: a second
one may hit the clean-up itself. Each of the other seven kinds (timeouts, lost
replies, connection errors, migration, power by hand) alone makes the property fail,
see `orphan`. In `liveness` two VMs made by hand use up both VMIDs, so that the exhausted range and the conflict both happen with a
single machine. `"fatal595"` is left out of `safety`: for a refused request it acts
like `"net"`, as an exit status like `"lock"`, and `cleanup` has it. Two
interferences of `Lifecycle` are a deletion and a reuse, or one before and one
during a call; calls are not bounded. One late task beside another one is `Stop`'s
shutdown beside its stop or beside a later `Start`; both are late when both waits gave
up (with `MaxLate` 2 TLC finds no violation either). In `Placement` an option and the
option it depends on (tag and bridge, linked and storage, node and bridge) vary
together, starting from shared storage, from a qcow2 file on local storage and from a
template that is gone and has a namesake; the grants include every privilege missing
and the usual ones misplaced (on the template only, on the new VM only, on one storage
or one bridge of two). Two changes are one on each side of a request, or one for each of the two resolutions.
Three polls of `AgentIP` are one before, one during and one after
any change of the guest.

**What the properties say.** Deleting somebody else's VM takes an id that has had
two owners (`DeleteOnlyOwnUnlessReused`): the name-and-tag fallback and the tag
guard protect against everything else. A recorded VM is always tagged, so that
`Remove` never refuses it (`RecordedVMIsTagged`). When `Remove` reports success,
no tagged VM of the machine is left (`RemovedLeavesNoTaggedVM`); a machine that
is up has its VM, running (`UpMachineHasItsVM`); it never has two tagged VMs, so
that "the first match" is the only one (`AtMostOneTaggedVM`). Removal succeeds in
the end (`EventuallyGone`), unless the VM is paused: `Remove` stops only a running
VM, PVE does not delete a paused one, and every rm job fails until somebody
resumes or stops it. `MachineSpec` says what all of this comes to for Rancher.

`GetState` is several requests and still answers with a state the VM was in during
the call, up to the exceptions named in `GetStateIsTrue`. A power call that
reports success has had its effect (`PowerCallIsDone`), although a graceful
shutdown may outlive its timeout and end during the hard stop. An address other
than the guest's comes out of `GetIP` only if the agent could not be asked
(`AddressIsFresh`), out of `GetURL` only if the VM was seen running
(`URLOnlyOfRunning`). Without a recorded VMID a name alone never leads to a power
request (`NameIsNeverTrusted`).

`WaitForIP` returns the address that the agent reported for net0 in its last answer,
whatever else the guest has (`IPIsNet0Lease`), and a reported lease is always found
(`LeaseNeverOverlooked`). That the guest still has the address when the probe
succeeds is not claimed: any host may answer at port 22.

What `PreCreateCheck` lets through, `Create` resolves again and PVE takes, on a quiet
cluster (`CheckedCanBeCreated`), with two lists of exceptions, and no others, which is
the content of the property. `Unchecked` is what PVE minds and nothing looks at:
a free VMID, an existing pool, the template's storage on its own node, an inactive
target storage, and, for another node, one that is not shared or not on the
template's node. `Unnoticed` are privileges that no list gives away and that are granted
on other paths only or could not be read, and the one on the template's bridge, which
is asked for only together with `--pvenode-bridge`. What is refused, PVE would have refused or the VM could not have been managed (`RefusalIsJustified`),
unless `Overcautious` holds: the agent switched off in the template, no usable net0, a
size that cannot be read, an OVS bridge or a vnet, a linked clone of a disk that the
table does not list or together with a storage, or another node that does not list the
template's storage when the clone would go elsewhere anyway. A token without a
privilege hears of that, not of a missing template, storage or bridge
(`HiddenIsNotMissing`), if the permissions could be read and the privilege is not
granted on another path: then the message is wrong, as `privileges.go` accepts. Node,
bridge, tag and size of the VM are those asked for (`VMIsAsAsked`).

**Fairness.** `FairSpec` assumes that a process that can take a step takes one
(processes are scheduled, and every wait of the code has a timeout), that a PVE
task ends, and that Rancher runs `rm` again for a machine whose creation or removal
failed, as its machine controller does. Nothing is assumed about crashes, faults,
operators or the deletion of a machine that is up. In `AgentIP` and `Lifecycle` only
the driver is fair; the guest, PVE's tasks and people may never do anything.

### Where the code and its documentation differ

Each of these runs ends in a counterexample; `findings` quotes the sentences.

| Run | Counterexample |
|---|---|
| `vmid_reuse` | the rm job dies after the deletion, another machine gets the VMID, the next rm deletes its VM: same VMID, same tag |
| `cleanup_race` | PVE drops a failed clone, another machine gets the VMID, `bestEffortDelete` deletes it: it has no tag guard |
| `orphan` | the clone task outlives the wait; the one DELETE meets the clone lock |
| `name_server` | with the VM recorded, `Remove`'s GET by VMID fails with "no such host", which is taken for "not found"; so does the GET after the list, and `lookupVM` returns (nil, nil): `Remove` succeeds, the VM runs on |
| `foreign_power` | the VM is deleted by hand and its VMID reused; `Start`, `Stop`, `Kill` and `Restart` act on the stranger: they have no tag guard |
| `disk_rounding` | a template disk of 1536M counts as 2 GB; with `disk-size` 2 it is not grown |

Three variations reach the same ends by other roads. With one name for both
machines, `NeverDestroysForeignVM` fails through `FindVMByNameAndTag`, which is why
`DeletesOnlyOwn` assumes `NamesDistinct`. With a second node and the faults
`"crash"` and `"migrate"`, `RemovedMeansGone` fails because the VM moves between the
list and the fetch. And a process that dies during the clone task, not only in the
"sub-second window" after it that `docs/e2e-checklist.md` describes, leaves a VM
without a tag. Besides, the design document (section 6) says of `Remove` that
"`VM is locked`" is retried; none of `IsLockErr`'s wordings matches it, so
`DeleteVM` gives up and the next rm job has to come (`EventuallyGone`). And the
comment of `CloneFromTemplate` (`clone.go:41`) says that a lock is retried with the
"same ID"; the code, and `RandomFreeVMID`, pick a new one on every attempt.

## 4. Proofs

Every theorem holds for every value of the constants: any sets of machines, VMIDs,
nodes, names, leases, clusters and options, any set and number of faults, attempts,
polls and changes; only `FailedCreateClean` is about certain faults, as its property
is. Each rests on an inductive invariant, which TLC checked on the
instances above before it was proved.

| Module | Theorem | States | Assumes |
|---|---|---|---|
| `NodeDriverProofs` | `TypeCorrect` | `TypeOK` | |
| | `DeletesOnlyOwn` | `DeleteOnlyOwnUnlessReused` | `NamesDistinct` |
| `TagProofs` | `RecordedIsTagged` | `RecordedVMIsTagged` | |
| | `OneTaggedVM` | `AtMostOneTaggedVM` | `NamesDistinct` |
| | `UpHasItsVM` | `UpMachineHasItsVM` | `NamesDistinct` |
| | `RemovedLeavesNothing` | `RemovedLeavesNoTaggedVM` | `NamesDistinct` |
| | `FailedCreateClean` | `FailedCreateCleansUp`, whenever at most one fault has happened | `NamesDistinct`, `Benign` |
| `RefinementProofs` | `DriverImplementsMachine` | `MachineSpec` | `NamesDistinct` |
| `LifecycleProofs` | `LifecycleTypes`, `StateIsTrue`, `PowerIsDone`, `URLOfRunning`, `FreshAddress`, `NameNeverTrusted` | all safety properties of `Lifecycle` | |
| `AgentIPProofs` | `WaitTypes`, `AddressIsNet0s`, `LeaseIsFound` | all safety properties of `AgentIP` | |
| `PlacementProofs` | `PlacementTypes`, `CheckedIsCreated`, `RefusedForAReason`, `MissingIsMissing`, `CreatedAsAsked` | all properties of run `placement` | |

Besides `NamesDistinct` (machine names are distinct, as Rancher makes them) the
assumptions are those of the modules: the range lies within the ids, names and
nodes are assigned, the sentinels are no ids, nodes, names, machines or leases,
attempts are positive, and the clusters and options considered are clusters and
options, with qcow2 disks on storages that hold files (`FileAssumption`). `Benign`
says that none of the seven kinds of faults is considered of which
one is enough to leave a VM behind.

**Types and ownership.** `TypeOK` is not inductive: the clone request indexes `vms`
with the picked VMID, so `TypeInv` adds that at the control point `"post"` the
handle's VMID is one (`PickedVMID`). `DeleteOnlyOwnUnlessReused` speaks of a VM being
destroyed, and its reason lies many steps earlier, in how the handle was obtained.
`Own` strengthens it to: every VM, its tag and its running task agree with the
history of its id (`ClusterOwn`), and everything a machine records, holds in a
handle or still has to search is an id that it owns, that was reused, or, in a
listing only, that somebody outside made (`HandOwn`; a foreign VM has no tag, so it
never becomes a handle). `Owned` depends on `first` and `reused` only, which never
forget (`Remembers`), so that it survives the steps of all others; each action has
to be looked at for its own machine only. The distinct names are used in one place:
the rows that `FindVMByNameAndTag` keeps.

**One step.** The remaining invariants of `NodeDriver` all ask the same of its many
actions, so `StepProofs` answers once: `Evolves(id)` says what a step can do to the VM
of one id and which machine, at which control point and with which handle, must
then have moved; `MoveOf(m)` says from where to where a step of `m` leads and what it
does to the records, the handle and the rows. `StepOK` is both together, with at
most one machine moving. `TaskStill` says how a task ends: it leaves an
idle VM or none, and it fails only by a fault (`Faulty`).
Almost everything after it argues about these few kinds of steps and no longer about
actions.

**Tags and removal.**
* `RecordInv`: the VMID of a clone is recorded nowhere before the tag is written
  (`Unrecorded`), and what is recorded is tagged. It needs no assumption on names and
  tolerates reuse.
* `TagInv`: while no id is reused, a machine in `CloneFromTemplate` has no tagged VM
  yet (`Untagged`), has at most one later, and anything it has recorded is that one
  (`RecordOnly`). "At most one" alone is not inductive: a second clone is excluded by
  where the process is.
* `UpInv`: from the tag on, through `provision` and while the machine is up, the VM is
  there, marked, idle, and runs once it was started, unless its id is reused or people
  delete or power VMs by hand. That no other machine's clean-up or `Remove` reaches it
  is where `Own` comes in.
* `PlaceInv`, `RemoveInv`: VMs stay where they were cloned to unless migrated; a search
  by name and tag still has every tagged VM of its machine in its rows (`Searching`);
  a `Remove` that holds a handle holds the only one (`Holding`); a delete task that
  ended well, and a `Remove` that has succeeded, leave none (`Removed`). It is claimed while no id is reused and with
  neither `"dns"` nor `"migrate"` among the faults, exactly as the property is: with
  either, run `name_server` and its variation refute it.

**What a failed create leaves.** `FailedCreateCleansUp` speaks of one control point
and is about all of them: `CleanInv` says of each where the VM is that could be left.
From the accepted clone request on it is what the machine waits for (`Awaiting`), then
what its handle or its record leads to, on that node, unlocked, with known power
(`InHand`), then what its delete task is at work on (`Dying`). The argument counts the
fault: at every point of `bestEffortDelete` and of the `Remove` that `Create` calls,
either nothing is left (`Bare`) or the fault has happened (`Fresh => Bare`). In the
second case no request of the clean-up fails any more: each one fails only on a VM that
is not there, is locked or runs, or by a fault (`GetVMOutcome`, `ModifyOutcome`,
`DeleteRefused`, `WaitTaskOutcome`), the recorded VM has its tag (`RecordInv`), and
nobody else touches the VM in between (`LeftStays`, from `StepOK` and `Own`). The
theorem assumes nothing of `MaxFaults`: it speaks of the moments before a second fault.
`Benign` cannot be weakened: TLC finds a counterexample for each of the seven kinds on
its own. After `"net"`, `"dns"`, `"poll"` and `"timeout"` the wait for the clone ends
while the clone goes on, and its lock defeats the delete; after `"lost"` the VM is not
known; after `"migrate"` `bestEffortDelete` looks on the old node; a VM that somebody
started or paused PVE does not delete.

**Refinement.** `DriverImplementsMachine` shows that the initial states map to initial
ones and that every step maps to a step of `Machine` or to none. `PhaseFlows` maps
`MoveOf`'s kinds of steps to changes of phase; `ClaimMarks`, `JobMarks` and
`OthersMarks` map `Evolves`'s to changes of `has`, where `TagInv`, `UpInv` and `RemoveInv` give the guards of
`Machine`'s actions; a reused id sets `clean` to false, after which `Machine` allows
any VM to come and go (`ReuseSpoils`).

**Lifecycle.** `CallInv`: the ghost `hist` has what the VMID stands for now
(`Witnessed`, which late tasks preserve); a row about to be fetched was there when listed, or the history has a
deletion or a move (`Looking`); a power call is at a request that belongs to it, and a
task that ended well has left the state it is for in the history (`Powering`);
`GetURL` is past its test only if the VM was seen running (`SeenRunning`).

**AgentIP.** `WaitInv`: the handle has net0's MAC from the refresh on; a candidate is
what the agent reported in its last answer, and not the empty address; a poll that has
begun was within the deadline. The lemmas beneath it are about
`pickIPv4`: on whatever report, in any order, it returns net0's lease (`PickIsLease`),
because only net0's interfaces have its MAC and their only usable address is the
lease (`FirstUsableOfNet0`).

**Placement.** `Progress` says what has been read at which point; `Behind`: on a
cluster that has not changed, every check that lies
behind the current request, and in `Create` every check of `PreCreateCheck`, still
passes, and what was read is still there. The lemmas are about the rules:
`OneMatch` (a reference that resolves stands for one VM), `NeedsAllowed` (the
privileges the clone needs were listed, granted, or are excepted), `PassedIsClonable`
(what passes all rules PVE can clone, but for the exceptions), its converse
`ClonablePasses`, `GrowsIsResizable` and `DiskIsAsked` on top of `Rounding` (megabytes
are rounded up, the other units are exact), `StorageMissing` (what the storage rules
may say of a storage that is there).

Some definitions have the form they have because of the proofs: `PhaseOf`'s cases
exclude each other; the rules with an order of their own (`TemplateError`,
`StorageError`, `ResolveError`) are `IF`s, since overlapping `CASE` guards do not say
which one is taken; the loops that return at the first match (`BootKey`,
`FirstUsable`, `PickIPv4`) take the `Min` of the matching positions; an option that
is not given is `"none"`.

Only model-checked:
* `EventuallyGone`, `CreateReturns`, `WaitEnds`, `CallReturns`: liveness under fairness
  is out of the prover's reach.
* The findings, which are counterexamples.

## 5. Not modelled

* The several requests behind one `GetVM` (node, status, config) are one read.
* Times: back-off, jitter, poll intervals and timeouts are "may give up".
* In `NodeDriver` the placement is a node or a failure; how it comes about is
  `Placement`'s subject, with one machine. Likewise `Lifecycle` looks at one
  machine between its create and its removal.
* How config strings, sizes, ranges and names are parsed: the models start from
  what parsing finds.
* Of what PVE minds about a clone: free space, locks on the template, a bridge of the
  template's that the target node lacks, several disks on different storages, ACL
  entries that do not propagate or that take a role away on a lower path.
* `StorageInfo.Active`, which the code reads and does not use; cores, memory,
  cloud-init options and tags other than the ownership tag, which no property
  tells apart; a negative agent timeout, which the flags let through and which
  makes `WaitForIP` give up at once.
* TLS, the token and the client that is built from them (no state, no decision);
  the plugin's entry point (one call); the fake PVE server of the tests; scripts
  and manifests.

## 6. Plan

1. Done: errors, cluster, process, clone, remove, create; `AgentIP`; `Lifecycle`;
   `Placement`; `Machine` and the refinement.
2. Done: the theorems of section 4; every safety property of a passing run is one.
