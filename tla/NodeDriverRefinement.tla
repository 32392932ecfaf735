------------------------ MODULE NodeDriverRefinement ------------------------
(***************************************************************************)
(* NodeDriver implements Machine.                                          *)
(***************************************************************************)
EXTENDS NodeDriver

\* Create's own Remove, and bestEffortDelete of a VM that may have the tag.
Undoing(m) ==
  /\ ret[m] = "create"
  /\ pc[m] \in RemoveSteps \cup {"cleanRead", "cleanDelete", "cleanWait"}

PhaseOf(m) ==
  CASE pc[m] \in {"new", "up", "removed", "gone"}     -> pc[m]
    [] pc[m] \in {"failed", "crashed", "rmfailed"}    -> "failed"
    [] Undoing(m)                                     -> "undoing"
    [] pc[m] \in RemoveSteps /\ ~Undoing(m)           -> "removing"
    [] OTHER                                          -> "creating"

HasVM(m) == \E id \in VMIDs : vms[id].owner = m /\ vms[id].tagged

\* What the driver cannot tell apart: a VMID that two owners have had, a name
\* server's "no such host" from a missing VM, a VM that moves during a lookup
\* from one that is gone; and what people do to VMs by hand.
Promised ==
  reused = {} /\ Faults \cap {"dns", "migrate", "purge"} = {}

Abstract ==
  INSTANCE Machine WITH phase <- [m \in Machines |-> PhaseOf(m)],
                        has   <- [m \in Machines |-> HasVM(m)],
                        clean <- Promised

\* Create, Remove and their retries, in parallel for all machines, with every
\* failure of a call or of a process, keep what Machine promises.
MachineSpec == Abstract!Spec
=============================================================================
