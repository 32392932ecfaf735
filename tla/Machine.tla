------------------------------ MODULE Machine ------------------------------
(***************************************************************************)
(* What the driver promises Rancher about every machine, without nodes,    *)
(* VMIDs, tasks, retries or processes: a machine gets a VM of its own at   *)
(* most once and only from its create job, a create that succeeds has got  *)
(* it, nobody takes it away while the machine is up, and a removal that    *)
(* succeeds has got rid of it.                                             *)
(***************************************************************************)
CONSTANT Machines

VARIABLES
  phase,  \* phase[m]: how far m is
  has,    \* has[m]: m has a VM that bears the ownership tag
  clean   \* nothing has happened that the driver cannot tell apart

vars == <<phase, has, clean>>

\* "undoing": Create has failed and cleans up; "failed": a job ended without
\* success; "removed": Remove has reported success.
Phases == {"new", "creating", "undoing", "up", "failed", "removing", "removed", "gone"}

Init ==
  /\ phase = [m \in Machines |-> "new"]
  /\ has = [m \in Machines |-> FALSE]
  /\ clean \in BOOLEAN

\* How a machine may go from phase to phase.
Flow(p) ==
  CASE p = "new"      -> {"creating", "failed"}
    [] p = "creating" -> {"undoing", "up", "failed"}
    [] p = "undoing"  -> {"failed"}
    [] p = "up"       -> {"removing"}
    [] p = "failed"   -> {"removing"}
    [] p = "removing" -> {"removed", "failed"}
    [] p = "removed"  -> {"gone", "failed"}
    [] OTHER          -> {}

\* m goes to phase p: up only with its VM, removed only without.
Move(m, p) ==
  /\ p \in Flow(phase[m])
  /\ p = "up" => has[m]
  /\ p = "removed" => ~has[m]
  /\ phase' = [phase EXCEPT ![m] = p]
  /\ UNCHANGED <<has, clean>>

\* m's VM gets the tag; Create may not hear of it and cleans up.
Acquire(m) ==
  /\ phase[m] = "creating" /\ ~has[m]
  /\ has' = [has EXCEPT ![m] = TRUE]
  /\ \E p \in {"creating", "undoing"} : phase' = [phase EXCEPT ![m] = p]
  /\ UNCHANGED clean

\* m's VM is destroyed, by a job of m that is not (or no longer) creating it.
Lose(m) ==
  /\ phase[m] \in {"undoing", "failed", "removing"} /\ has[m]
  /\ has' = [has EXCEPT ![m] = FALSE]
  /\ UNCHANGED <<phase, clean>>

\* Something happens after which no promise is made.
Spoil == clean /\ clean' = FALSE /\ UNCHANGED <<phase, has>>

Spoiled ==
  /\ ~clean /\ UNCHANGED clean
  /\ has' \in [Machines -> BOOLEAN]
  /\ \/ UNCHANGED phase
     \/ \E m \in Machines : \E p \in Flow(phase[m]) : phase' = [phase EXCEPT ![m] = p]

Next ==
  \/ \E m \in Machines : (\E p \in Phases : Move(m, p)) \/ Acquire(m) \/ Lose(m)
  \/ Spoil \/ Spoiled

Spec == Init /\ [][Next]_vars
=============================================================================
