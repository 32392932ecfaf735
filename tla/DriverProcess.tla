---------------------------- MODULE DriverProcess ----------------------------
(***************************************************************************)
(* The processes of the node driver.  Rancher runs every driver call in a  *)
(* process of its own and, for one machine, one at a time; between calls   *)
(* only the machine's config.json survives.  pc[m] is where machine m's    *)
(* process is or, when none is running, what Rancher knows of m.           *)
(***************************************************************************)
EXTENDS PVECluster

CONSTANTS
  CloneAttempts,  \* cloneAttempts
  DeleteAttempts, \* deleteAttempts
  KeepOnFailure   \* the machines created with --pvenode-keep-on-failure

ASSUME AttemptsAssumption ==
  CloneAttempts \in Nat \ {0} /\ DeleteAttempts \in Nat \ {0}
ASSUME KeepAssumption == KeepOnFailure \subseteq Machines

MaxAttempts ==
  IF CloneAttempts > DeleteAttempts THEN CloneAttempts ELSE DeleteAttempts

VARIABLES
  pc,     \* pc[m]: control point of m's process, or m's resting state
  drv,    \* drv[m]: Driver.VMID and Driver.PVENode in the process's memory
  cfg,    \* cfg[m]: the same two fields in config.json
  hnd,    \* hnd[m]: the VMID being cloned, or the handle vm
  tries,  \* tries[m]: the attempt Retry is in
  err,    \* err[m]: the error the attempt failed with
  ret,    \* ret[m]: who called bestEffortDelete or Remove
  rows    \* rows[m]: rows FindVMByNameAndTag has still to look at

procVars == <<pc, drv, cfg, hnd, tries, err, ret, rows>>
vars == <<clusterVars, procVars>>

CloneSteps == {"pick", "post", "await", "retry", "cleanRead", "cleanDelete",
               "cleanWait", "read", "tag"}
ProvisionSteps == {"config", "resize", "start", "waitip"}
RemoveSteps == {"lookup", "list", "fetch", "scan", "shutdown", "stop",
                "delete", "deleteWait", "deleteRetry"}
LiveSteps == CloneSteps \cup ProvisionSteps \cup RemoveSteps

\* "new": not created; "up": Create succeeded; "failed": it returned an error;
\* "crashed": the process died; "removed": rm's Remove succeeded, config.json
\* is still there; "rmfailed": it returned an error; "gone": forgotten.
Resting == {"new", "up", "failed", "crashed", "removed", "rmfailed", "gone"}

ProcessTypeOK ==
  /\ pc \in [Machines -> LiveSteps \cup Resting]
  /\ drv \in [Machines -> Ref]
  /\ cfg \in [Machines -> Ref]
  /\ hnd \in [Machines -> Ref]
  /\ tries \in [Machines -> 0..MaxAttempts]
  /\ err \in [Machines -> ErrClass]
  /\ ret \in [Machines -> {"retry", "create", "rancher"}]
  /\ rows \in [Machines -> SUBSET Row]

ProcessInit ==
  /\ pc = [m \in Machines |-> "new"]
  /\ drv = [m \in Machines |-> NoRef]
  /\ cfg = [m \in Machines |-> NoRef]
  /\ hnd = [m \in Machines |-> NoRef]
  /\ tries = [m \in Machines |-> 0]
  /\ err = [m \in Machines |-> "nil"]
  /\ ret = [m \in Machines |-> "create"]
  /\ rows = [m \in Machines |-> {}]

Goto(m, step) == pc' = [pc EXCEPT ![m] = step]

\* m's process exits with m in the given resting state and config.json
\* holding saved; its memory is gone.
Exit(m, rest, saved) ==
  /\ Goto(m, rest)
  /\ cfg' = [cfg EXCEPT ![m] = saved]
  /\ drv' = [drv EXCEPT ![m] = NoRef]
  /\ hnd' = [hnd EXCEPT ![m] = NoRef]
  /\ tries' = [tries EXCEPT ![m] = 0]
  /\ err' = [err EXCEPT ![m] = "nil"]
  /\ ret' = [ret EXCEPT ![m] = "create"]
  /\ rows' = [rows EXCEPT ![m] = {}]

\* Create returns an error.  Rancher may or may not write config.json back
\* after a failed create.
CreateFails(m) == \E saved \in {cfg[m], drv[m]} : Exit(m, "failed", saved)

\* Remove returns to Create, which returns its own error whatever Remove
\* says, or to Rancher's rm job.
RemoveReturns(m, ok) ==
  \/ ret[m] = "create" /\ CreateFails(m)
  \/ ret[m] = "rancher" /\ Exit(m, IF ok THEN "removed" ELSE "rmfailed", cfg[m])

=============================================================================
