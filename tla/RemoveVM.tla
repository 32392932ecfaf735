------------------------------ MODULE RemoveVM ------------------------------
(***************************************************************************)
(* Remove (pkg/driver/remove.go): lookupVM by node and VMID, then by VMID  *)
(* across the cluster or, when no VMID is recorded, by name and tag; the   *)
(* ownership guard; the shutdown; the deletion with its retries.           *)
(***************************************************************************)
EXTENDS DriverProcess

\* lookupVM returned the VM at ref: the tag and the power state are the ones
\* read with it, no call comes in between.
Found(m, ref) ==
  \/ ~HasTag(ref) /\ RemoveReturns(m, FALSE)
  \/ /\ HasTag(ref)
     /\ Goto(m, IF IsRunning(ref) THEN "shutdown" ELSE "delete")
     /\ hnd' = [hnd EXCEPT ![m] = ref]
     /\ tries' = [tries EXCEPT ![m] = 1]
     /\ rows' = [rows EXCEPT ![m] = {}]
     /\ UNCHANGED <<drv, cfg, err, ret>>

\* lookupVM returned (nil, nil).
Gone(m) == RemoveReturns(m, TRUE)

\* The recorded VMID on the recorded node.
LookupRecorded(m) ==
  /\ pc[m] = "lookup" /\ drv[m].vmid # NoVMID
  /\ \E e \in ErrClass :
       /\ GetVM(drv[m], e)
       /\ \/ e = "nil" /\ Found(m, drv[m])
          \/ /\ IsNotFoundErr(e)
             /\ Goto(m, "list")
             /\ UNCHANGED <<drv, cfg, hnd, tries, err, ret, rows>>
          \/ /\ e # "nil" /\ ~IsNotFoundErr(e)
             /\ RemoveReturns(m, FALSE)

\* The recorded VMID anywhere in the cluster: the list, then the fetch.
LookupList(m) ==
  /\ pc[m] = "list"
  /\ \E e \in ErrClass :
       /\ ListVMs(e)
       /\ \/ e # "nil" /\ RemoveReturns(m, FALSE)
          \/ e = "nil" /\ drv[m].vmid \notin Rows /\ Gone(m)
          \/ /\ e = "nil" /\ drv[m].vmid \in Rows
             /\ Goto(m, "fetch")
             /\ hnd' = [hnd EXCEPT ![m] = RefOf(drv[m].vmid)]
             /\ UNCHANGED <<drv, cfg, tries, err, ret, rows>>

LookupFetch(m) ==
  /\ pc[m] = "fetch"
  /\ \E e \in ErrClass :
       /\ GetVM(hnd[m], e)
       /\ \/ e = "nil" /\ Found(m, hnd[m])
          \/ IsNotFoundErr(e) /\ Gone(m)
          \/ e # "nil" /\ ~IsNotFoundErr(e) /\ RemoveReturns(m, FALSE)

\* Mutant: the tag alone decides, the name is not compared.
FindVMByTag(m) == {RefOf(id) : id \in Rows}

\* FindVMByNameAndTag: the list, reduced to the rows with the machine's name,
\* then one fetch per row, in an order the API does not promise.
FindVMByName(m) == {RefOf(id) : id \in {i \in Rows : vms[i].name = NameOf[m]}}

FindList(m) ==
  /\ pc[m] = "lookup" /\ drv[m].vmid = NoVMID
  /\ \E e \in ErrClass :
       /\ ListVMs(e)
       /\ \/ e # "nil" /\ RemoveReturns(m, FALSE)
          \/ /\ e = "nil"
             /\ Goto(m, "scan")
             /\ rows' = [rows EXCEPT ![m] = FindVMByName(m)]
             /\ UNCHANGED <<drv, cfg, hnd, tries, err, ret>>

FindFetch(m) ==
  /\ pc[m] = "scan"
  /\ \E ref \in rows[m], e \in ErrClass :
       /\ GetVM(ref, e)
       /\ \/ e = "nil" /\ HasTag(ref) /\ Found(m, ref)
          \/ /\ (e = "nil" /\ ~HasTag(ref)) \/ IsNotFoundErr(e)
             /\ rows' = [rows EXCEPT ![m] = @ \ {ref}]
             /\ UNCHANGED <<pc, drv, cfg, hnd, tries, err, ret>>
          \/ e # "nil" /\ ~IsNotFoundErr(e) /\ RemoveReturns(m, FALSE)

FindNothing(m) ==
  /\ pc[m] = "scan" /\ rows[m] = {}
  /\ UNCHANGED clusterVars
  /\ Gone(m)

-----------------------------------------------------------------------------
PoweredOff(ref) == [vms[ref.vmid] EXCEPT !.power = "stopped"]

\* ShutdownVM fails over to StopVM; only StopVM's error ends Remove.
Shutdown(m) ==
  /\ pc[m] = "shutdown"
  /\ \E e \in ErrClass :
       /\ Modify(hnd[m], PoweredOff(hnd[m]), e)
       /\ Goto(m, IF e = "nil" THEN "delete" ELSE "stop")
  /\ UNCHANGED <<drv, cfg, hnd, tries, err, ret, rows>>

Stop(m) ==
  /\ pc[m] = "stop"
  /\ \E e \in ErrClass :
       /\ Modify(hnd[m], PoweredOff(hnd[m]), e)
       /\ \/ e # "nil" /\ RemoveReturns(m, FALSE)
          \/ /\ e = "nil"
             /\ Goto(m, "delete")
             /\ UNCHANGED <<drv, cfg, hnd, tries, err, ret, rows>>

\* DeleteVM: the request and the task it starts.
DeleteFails(m, e) ==
  /\ Goto(m, "deleteRetry")
  /\ err' = [err EXCEPT ![m] = e]
  /\ UNCHANGED <<drv, cfg, hnd, tries, ret, rows>>

\* Mutant: the DELETE's reply is taken for the end of its task.
DeleteRequestNoWait(m) ==
  /\ pc[m] = "delete"
  /\ \E e \in ErrClass :
       /\ Delete(m, hnd[m], e)
       /\ \/ e # "nil" /\ DeleteFails(m, e)
          \/ e = "nil" /\ RemoveReturns(m, TRUE)

DeleteRequest(m) ==
  /\ pc[m] = "delete"
  /\ \E e \in ErrClass :
       /\ Delete(m, hnd[m], e)
       /\ \/ e # "nil" /\ DeleteFails(m, e)
          \/ /\ e = "nil"
             /\ Goto(m, "deleteWait")
             /\ UNCHANGED <<drv, cfg, hnd, tries, err, ret, rows>>

DeleteWait(m) ==
  /\ pc[m] = "deleteWait"
  /\ \E e \in ErrClass :
       /\ WaitTask(m, e)
       /\ \/ e # "nil" /\ DeleteFails(m, e)
          \/ e = "nil" /\ RemoveReturns(m, TRUE)

DeleteRetry(m) ==
  /\ pc[m] = "deleteRetry"
  /\ UNCHANGED clusterVars
  /\ \/ /\ RetryAgain(DeleteRetryable(err[m]), tries[m], DeleteAttempts)
        /\ Goto(m, "delete")
        /\ tries' = [tries EXCEPT ![m] = @ + 1]
        /\ UNCHANGED <<drv, cfg, hnd, err, ret, rows>>
     \/ /\ ~RetryAgain(DeleteRetryable(err[m]), tries[m], DeleteAttempts)
        /\ RemoveReturns(m, FALSE)

RemoveStep(m) ==
  \/ LookupRecorded(m) \/ LookupList(m) \/ LookupFetch(m)
  \/ FindList(m) \/ FindFetch(m) \/ FindNothing(m)
  \/ Shutdown(m) \/ Stop(m)
  \/ DeleteRequest(m) \/ DeleteWait(m) \/ DeleteRetry(m)
=============================================================================
