------------------------------ MODULE PVEErrors ------------------------------
(***************************************************************************)
(* The errors the driver tells apart, and its classifiers                  *)
(* (pkg/pve/errors.go).  PVE reports nearly everything as text, and the    *)
(* classifiers search that text, so an error is abstracted to what its     *)
(* text makes the classifiers answer:                                      *)
(*                                                                         *)
(*   "nil"       no error                                                  *)
(*   "conflict"  "config file already exists"                              *)
(*   "lock"      lock contention in one of the wordings IsLockErr knows    *)
(*   "vmlocked"  "VM is locked (clone)": a lock IsLockErr does not know    *)
(*   "net"       connection refused or reset, EOF, i/o timeout, proxy 595  *)
(*   "dns"       "dial tcp: lookup ...: no such host", also a net.Error    *)
(*   "fatal"     any permanent PVE failure                                 *)
(*   "fatal595"  a permanent failure whose text happens to contain "595",  *)
(*               as the VMID and the UPID in it may                        *)
(*   "notfound"  404, "does not exist", "no such VM"                       *)
(*   "timeout"   WaitTask gave up on a task that is still running          *)
(***************************************************************************)
EXTENDS Naturals

ErrClass == {"nil", "conflict", "lock", "vmlocked", "net", "dns", "fatal",
             "fatal595", "notfound", "timeout"}

IsVMIDConflict(e) == e = "conflict"

IsLockErr(e) == e = "lock"

IsNotFoundErr(e) == e \in {"notfound", "dns"}

IsTransient(e) == e \in {"net", "dns", "fatal595"}

\* The predicate CloneFromTemplate hands to Retry.
CloneRetryable(e) == IsVMIDConflict(e) \/ IsLockErr(e) \/ IsTransient(e)

\* The predicate DeleteVM hands to Retry.
DeleteRetryable(e) == IsLockErr(e) \/ IsTransient(e)

\* Mutant: one attempt too many.
RetryAgainOffByOne(retryable, i, attempts) == retryable /\ i <= attempts

\* Retry runs the operation again after attempt i failed with e.
RetryAgain(retryable, i, attempts) == retryable /\ i < attempts

=============================================================================
