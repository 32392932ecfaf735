-------------------------- MODULE CloneFromTemplate --------------------------
(***************************************************************************)
(* Cloning the template into a tagged VM (pkg/pve/clone.go): the random    *)
(* VMID, the clone task and its retries, the ownership tag, and            *)
(* bestEffortDelete of what a failed step leaves.                          *)
(***************************************************************************)
EXTENDS DriverProcess

locals == <<drv, cfg, rows>>

\* The attempt failed before there was a VM to clean up.
AttemptFails(m, e) ==
  /\ Goto(m, "retry")
  /\ err' = [err EXCEPT ![m] = e]
  /\ hnd' = [hnd EXCEPT ![m] = NoRef]
  /\ UNCHANGED <<tries, ret, locals>>

\* Mutant: after the cleanup the whole clone is tried again.
CleanUpThenRetry(m, e, caller) ==
  /\ Goto(m, "cleanRead")
  /\ err' = [err EXCEPT ![m] = e]
  /\ ret' = [ret EXCEPT ![m] = "retry"]
  /\ UNCHANGED <<hnd, tries, locals>>

\* bestEffortDelete is called for hnd[m]; it returns to caller.
CleanUp(m, e, caller) ==
  /\ Goto(m, "cleanRead")
  /\ err' = [err EXCEPT ![m] = e]
  /\ ret' = [ret EXCEPT ![m] = caller]
  /\ UNCHANGED <<hnd, tries, locals>>

FreeVMIDs == VMIDRange \ Rows

\* Mutant: no test for an exhausted range, so the random search never ends.
RandomFreeVMIDUntested(m) ==
  /\ pc[m] = "pick"
  /\ \E e \in ErrClass :
       /\ ListVMs(e)
       /\ \/ e # "nil" /\ AttemptFails(m, e)
          \/ e = "nil" /\ FreeVMIDs = {} /\ UNCHANGED procVars
          \/ /\ e = "nil"
             /\ \E id \in FreeVMIDs :
                  hnd' = [hnd EXCEPT ![m] = [vmid |-> id, node |-> NodeOf[m]]]
             /\ Goto(m, "post")
             /\ UNCHANGED <<tries, err, ret, locals>>

\* randomFreeVMID: any free id of the range, or an error when there is none.
RandomFreeVMID(m) ==
  /\ pc[m] = "pick"
  /\ \E e \in ErrClass :
       /\ ListVMs(e)
       /\ \/ e # "nil" /\ AttemptFails(m, e)
          \/ e = "nil" /\ FreeVMIDs = {} /\ AttemptFails(m, "fatal")
          \/ /\ e = "nil"
             /\ \E id \in FreeVMIDs :
                  hnd' = [hnd EXCEPT ![m] = [vmid |-> id, node |-> NodeOf[m]]]
             /\ Goto(m, "post")
             /\ UNCHANGED <<tries, err, ret, locals>>

\* tmpl.Clone: an error here, even a lost reply, is not followed by a cleanup.
CloneRequest(m) ==
  /\ pc[m] = "post"
  /\ \E e \in ErrClass :
       /\ Clone(m, hnd[m].vmid, e)
       /\ \/ e # "nil" /\ AttemptFails(m, e)
          \/ /\ e = "nil"
             /\ Goto(m, "await")
             /\ UNCHANGED <<hnd, tries, err, ret, locals>>

\* Mutant: nothing is cleaned up after a failed clone task.
AwaitCloneNoCleanUp(m) ==
  /\ pc[m] = "await"
  /\ \E e \in ErrClass :
       /\ WaitTask(m, e)
       /\ \/ e # "nil" /\ AttemptFails(m, e)
          \/ /\ e = "nil"
             /\ Goto(m, "read")
             /\ UNCHANGED <<hnd, tries, err, ret, locals>>

AwaitClone(m) ==
  /\ pc[m] = "await"
  /\ \E e \in ErrClass :
       /\ WaitTask(m, e)
       /\ \/ e # "nil" /\ CleanUp(m, e, "retry")
          \/ /\ e = "nil"
             /\ Goto(m, "read")
             /\ UNCHANGED <<hnd, tries, err, ret, locals>>

\* Retry's decision after a failed attempt: a new attempt with a new id, or
\* the error goes up and Create returns it.
CloneRetry(m) ==
  /\ pc[m] = "retry"
  /\ UNCHANGED clusterVars
  /\ \/ /\ RetryAgain(CloneRetryable(err[m]), tries[m], CloneAttempts)
        /\ Goto(m, "pick")
        /\ tries' = [tries EXCEPT ![m] = @ + 1]
        /\ hnd' = [hnd EXCEPT ![m] = NoRef]
        /\ UNCHANGED <<err, ret, locals>>
     \/ /\ ~RetryAgain(CloneRetryable(err[m]), tries[m], CloneAttempts)
        /\ CreateFails(m)

-----------------------------------------------------------------------------
(* bestEffortDelete: one try, no look at the tag, every error is logged    *)
(* and dropped.                                                            *)

CleanUpReturns(m) ==
  \/ /\ ret[m] = "retry"
     /\ Goto(m, "retry")
     /\ UNCHANGED <<hnd, tries, err, ret, locals>>
  \/ /\ ret[m] = "create"
     /\ CreateFails(m)

CleanUpRead(m) ==
  /\ pc[m] = "cleanRead"
  /\ \E e \in ErrClass :
       /\ GetVM(hnd[m], e)
       /\ \/ e # "nil" /\ CleanUpReturns(m)
          \/ /\ e = "nil"
             /\ Goto(m, "cleanDelete")
             /\ UNCHANGED <<hnd, tries, err, ret, locals>>

CleanUpDelete(m) ==
  /\ pc[m] = "cleanDelete"
  /\ \E e \in ErrClass :
       /\ Delete(m, hnd[m], e)
       /\ \/ e # "nil" /\ CleanUpReturns(m)
          \/ /\ e = "nil"
             /\ Goto(m, "cleanWait")
             /\ UNCHANGED <<hnd, tries, err, ret, locals>>

CleanUpWait(m) ==
  /\ pc[m] = "cleanWait"
  /\ \E e \in ErrClass : WaitTask(m, e)
  /\ CleanUpReturns(m)

-----------------------------------------------------------------------------
ReadClone(m) ==
  /\ pc[m] = "read"
  /\ \E e \in ErrClass :
       /\ GetVM(hnd[m], e)
       /\ \/ e # "nil" /\ CleanUp(m, e, "create")
          \/ /\ e = "nil"
             /\ Goto(m, "tag")
             /\ UNCHANGED <<hnd, tries, err, ret, locals>>

\* Mutant: a failure to write the tag is not noticed.
TagCloneUnchecked(m) ==
  /\ pc[m] = "tag"
  /\ \E e \in ErrClass :
       Modify(hnd[m], [vms[hnd[m].vmid] EXCEPT !.tagged = TRUE], e)
  /\ Goto(m, "config")
  /\ drv' = [drv EXCEPT ![m] = hnd[m]]
  /\ UNCHANGED <<cfg, hnd, tries, err, ret, rows>>

\* The ownership tag is written; only then do Driver.VMID and Driver.PVENode
\* get their values (create.go).
TagClone(m) ==
  /\ pc[m] = "tag"
  /\ \E e \in ErrClass :
       /\ Modify(hnd[m], [vms[hnd[m].vmid] EXCEPT !.tagged = TRUE], e)
       /\ \/ e # "nil" /\ CleanUp(m, e, "create")
          \/ /\ e = "nil"
             /\ Goto(m, "config")
             /\ drv' = [drv EXCEPT ![m] = hnd[m]]
             /\ UNCHANGED <<cfg, hnd, tries, err, ret, rows>>

CloneStep(m) ==
  \/ RandomFreeVMID(m) \/ CloneRequest(m) \/ AwaitClone(m) \/ CloneRetry(m)
  \/ CleanUpRead(m) \/ CleanUpDelete(m) \/ CleanUpWait(m)
  \/ ReadClone(m) \/ TagClone(m)
=============================================================================
