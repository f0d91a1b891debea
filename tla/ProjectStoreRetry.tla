-------------------------- MODULE ProjectStoreRetry --------------------------
(***************************************************************************)
(* ProjectStore with a user who keeps capturing while the machine fails    *)
(* now and then: does the store recover from whatever the faults leave     *)
(* behind (a staging directory, records without a manifest entry, the lock *)
(* of a dead process)?  From all of it but one thing: a torn lock file.    *)
(* Nothing is deleted here.                                                *)
(***************************************************************************)
EXTENDS ProjectStore

Progress(p) ==
  \/ ReadInventory(p) \/ \E e \in Evidence : ReuseEvidence(p, e)
  \/ CommitStep(p) \/ Release(p)

RetryNext == \E p \in Procs :
  \/ \E s \in Snapshots : BeginCapture(p, s, Refs[s])
  \/ Progress(p) \/ Acquire(p) \/ Refused(p) \/ Fault(p)

(* A running process goes on, and a user who wants a snapshot captures it  *)
(* again and again.  An attempt that finds no lock file takes the lock (it *)
(* cannot be refused); one that finds the lock of a dead owner is refused  *)
(* for 60 seconds at most, so of attempts that are made again and again    *)
(* one takes it.  Nothing is assumed of a torn lock.                       *)
Fairness == \A p \in Procs :
  /\ WF_vars(Progress(p))
  /\ WF_vars(Acquire(p) \/ Refused(p))
  /\ SF_vars(lock = DeadOwner /\ Acquire(p))
  /\ \A s \in Snapshots : SF_vars(BeginCapture(p, s, Refs[s]))

RetrySpec == Init /\ [][RetryNext]_vars /\ Fairness

(* From some moment on no operation fails and no process dies (a crash of  *)
(* a process that has no lock looks like a refusal, which is no fault).    *)
FaultsEnd == <>[][\A p \in Procs : Fault(p) => Refused(p)]_vars

(* The store has no room left for s.                                       *)
TooFull(s) ==
  \/ Len(manifest.history) >= MaxSnapshots
  \/ Cardinality(manifest.evidence \cup Refs[s]) > MaxEvidence

(* Once the faults end, every snapshot that is captured again and again is *)
(* committed, unless the store has no room for it or a fault has torn the  *)
(* lock file, which acquireLock refuses for ever ("remove a confirmed-dead *)
(* lock manually"): no other residue keeps the store from accepting it.    *)
CapturesSucceed ==
  FaultsEnd => \A s \in Snapshots :
    <>(s \in Listed(manifest) \/ TooFull(s) \/ lock = TornLock)
=============================================================================
