---------------------------- MODULE ProjectStore ----------------------------
(***************************************************************************)
(* The Project Memory store of one project: the files below                *)
(* <data-root>/project-brain/v1/projects/<key>/ and the processes that     *)
(* capture into it and delete it.                                          *)
(*                                                                         *)
(* A capture reads the store without a lock to re-use evidence that is     *)
(* already recorded, takes the project lock, reconciles its bundle with    *)
(* the manifest, stages one file per record, moves the staged files to     *)
(* their final names, replaces manifest.json (the commit point), removes   *)
(* the staging directory and releases the lock.  A process may crash       *)
(* between any two of those steps, and each file operation may fail.       *)
(*                                                                         *)
(* Abstractions.                                                           *)
(*  - A snapshot's identity is a digest of its payload, capture time and   *)
(*    evidence references included (kernel fingerprint.rs), so the         *)
(*    identity stands for the payload.  An evidence identity is a digest   *)
(*    of the content, NOT of the time it was observed: the payload of      *)
(*    evidence file e is represented by the capture that observed it.      *)
(*  - A manifest lists at least one snapshot (only a commit writes one),   *)
(*    so the manifest with an empty history stands for "no manifest".      *)
(*  - writeFileAtomic is one step (module AtomicWrite says why).           *)
(*  - The project lock is held by one process at a time (module StoreLock  *)
(*    says when that is so); DeadOwner is a lock left by a crashed owner,  *)
(*    TornLock one whose record was never written to its end.              *)
(***************************************************************************)
EXTENDS Naturals, Sequences, FiniteSets

CONSTANTS
  Procs,          \* the processes that run omp memory commands
  Snapshots,      \* snapshot identities
  Evidence,       \* evidence identities
  Refs,           \* Refs[s]: the evidence ids snapshot s cites
  MaxSnapshots,   \* MAX_SNAPSHOTS_PER_PROJECT
  MaxEvidence,    \* MAX_EVIDENCE_PER_PROJECT
  None,           \* no file, no value
  Free,           \* the lock file does not exist
  DeadOwner,      \* the lock file names a process that is gone
  TornLock        \* the lock file does not parse

ASSUME RefsAssumption == Refs \in [Snapshots -> SUBSET Evidence]
ASSUME NoneAssumption == None \notin Snapshots
ASSUME LockAssumption ==
  /\ {Free, DeadOwner, TornLock} \cap Procs = {}
  /\ Free # DeadOwner /\ TornLock \notin {Free, DeadOwner}
ASSUME LimitsAssumption == MaxSnapshots \in Nat /\ MaxEvidence \in Nat
ASSUME FiniteAssumption == IsFiniteSet(Evidence) /\ IsFiniteSet(Snapshots)

VARIABLES
  manifest,  \* manifest.json: the chronology and the evidence inventory
  snaps,     \* snapshots/*.json: the snapshot records on disk
  evs,       \* evidence/*.json: evs[e] is the observation stored for e
  stagingDir,  \* the staging directory exists
  stagedSnap,  \* staging/snapshot-*.json
  stagedEvs,   \* staging/evidence-*.json
  dir,       \* the project directory exists
  lock,      \* the owner of the project lock file
  pc,        \* where each process is
  sid,       \* the snapshot a process is committing
  ev,        \* ev[p][e]: the evidence record in p's bundle
  todo,      \* the evidence still to be read, staged or moved
  base,      \* the manifest p read under the lock
  outcome,   \* what p's operation will report
  acked,     \* history: snapshots whose capture was reported to succeed,
             \* since the memory was last deleted
  overtaken  \* history: the processes since whose look at the inventory the
             \* manifest was replaced or removed

staging == <<stagingDir, stagedSnap, stagedEvs>>
disk == <<manifest, snaps, evs, staging, dir>>
local == <<pc, sid, ev, todo, base, outcome>>
past == <<acked, overtaken>>
vars == <<disk, lock, local, past>>

Manifest == [history : Seq(Snapshots), evidence : SUBSET Evidence]
NoManifest == [history |-> << >>, evidence |-> {}]
NoEvidence == [e \in Evidence |-> None]

(* The snapshot ids a manifest lists (snapshotIds and the chronology list  *)
(* the same ids: assertManifestChronology).                                *)
Listed(m) == {m.history[i] : i \in DOMAIN m.history}

(* The evidence ids in p's bundle.                                         *)
Bundle(p) == {e \in Evidence : ev[p][e] # None}

Outcomes == {"none", "ok", "idempotent", "conflict", "missing", "limit",
             "invalid", "failed", "deleted", "corrupt"}
Success == {"ok", "idempotent"}
Stages == {"idle", "reuse", "readEvidence", "acquire", "check", "mkdirs",
           "stageSnapshot", "stageEvidence", "moveSnapshot", "moveEvidence",
           "writeManifest", "cleanup", "acquireDelete", "verifyDelete",
           "moveToTombstone", "removeTombstone", "release"}

(* The stages reached only with the project lock held.                     *)
Locked == {"check", "mkdirs", "stageSnapshot", "stageEvidence",
           "moveSnapshot", "moveEvidence", "writeManifest", "cleanup",
           "verifyDelete", "moveToTombstone", "removeTombstone", "release"}

Init ==
  /\ manifest = NoManifest
  /\ snaps = {}
  /\ evs = NoEvidence
  /\ stagingDir = FALSE
  /\ stagedSnap = {}
  /\ stagedEvs = NoEvidence
  /\ dir = FALSE
  /\ lock = Free
  /\ pc = [p \in Procs |-> "idle"]
  /\ sid = [p \in Procs |-> None]
  /\ ev = [p \in Procs |-> NoEvidence]
  /\ todo = [p \in Procs |-> {}]
  /\ base = [p \in Procs |-> NoManifest]
  /\ outcome = [p \in Procs |-> "none"]
  /\ acked = {}
  /\ overtaken = {}

Goto(p, from, to) ==
  /\ pc[p] = from
  /\ pc' = [pc EXCEPT ![p] = to]

(* The operation is over in this process: its memory is gone.              *)
Forget(p) ==
  /\ pc' = [pc EXCEPT ![p] = "idle"]
  /\ sid' = [sid EXCEPT ![p] = None]
  /\ ev' = [ev EXCEPT ![p] = NoEvidence]
  /\ todo' = [todo EXCEPT ![p] = {}]
  /\ base' = [base EXCEPT ![p] = NoManifest]
  /\ outcome' = [outcome EXCEPT ![p] = "none"]
  /\ overtaken' = overtaken \ {p}

-----------------------------------------------------------------------------
(* Before the lock.                                                        *)

(* captureProject up to reconcileEvidenceWithStore: the bundle of snapshot *)
(* s, every evidence record freshly observed by this capture.  A caller of *)
(* the store may submit only part of the cited evidence, relying on the    *)
(* rest being committed already.                                           *)
BeginCapture(p, s, E) ==
  /\ Goto(p, "idle", "reuse")
  /\ E \subseteq Refs[s]
  /\ sid' = [sid EXCEPT ![p] = s]
  /\ ev' = [ev EXCEPT ![p] = [e \in Evidence |-> IF e \in E THEN s ELSE None]]
  /\ UNCHANGED <<disk, lock, todo, base, outcome, past>>

(* The stored records that are still to be read, before the lock is taken. *)
Reading(p, records) ==
  /\ pc' = [pc EXCEPT ![p] = IF records = {} THEN "acquire" ELSE "readEvidence"]
  /\ todo' = [todo EXCEPT ![p] = records]

(* reconcileEvidenceWithStore: the lock-free read of the manifest decides  *)
(* which evidence ids are already committed.                               *)
ReadInventory(p) ==
  /\ pc[p] = "reuse"
  /\ Reading(p, Bundle(p) \cap manifest.evidence)
  /\ overtaken' = overtaken \ {p}
  /\ UNCHANGED <<disk, lock, sid, ev, base, outcome, acked>>

(* Mutant: a stored record is read but not used.                           *)
ReadNotReused(p, e) ==
  /\ pc[p] = "readEvidence"
  /\ e \in todo[p]
  /\ Reading(p, todo[p] \ {e})
  /\ UNCHANGED <<disk, lock, sid, ev, base, outcome, past>>

(* ... and each of those records is read (readEvidence looks its id up in  *)
(* the manifest again, and opens it) and re-used; one that is not listed   *)
(* any more, or gone, stays fresh.                                         *)
ReuseEvidence(p, e) ==
  /\ pc[p] = "readEvidence"
  /\ e \in todo[p]
  /\ Reading(p, todo[p] \ {e})
  /\ ev' = IF e \in manifest.evidence /\ evs[e] # None
           THEN [ev EXCEPT ![p][e] = evs[e]] ELSE ev
  /\ UNCHANGED <<disk, lock, sid, base, outcome, past>>

(* Mutant: an existing lock file is no obstacle.                           *)
AcquirableAlways == TRUE

(* There is no lock file, or its owner is dead and it is old enough to be  *)
(* reclaimed.                                                              *)
Acquirable == lock \in {Free, DeadOwner}

Acquire(p) ==
  /\ Acquirable
  /\ \/ Goto(p, "acquire", "check")
     \/ Goto(p, "acquireDelete", "verifyDelete")
  /\ lock' = p
  /\ UNCHANGED <<disk, sid, ev, todo, base, outcome, past>>

(* createLockExclusive makes the lock file, and then the process dies or a *)
(* file operation throws, and the file stays: torn, unless its record is   *)
(* written to the end.                                                     *)
TearLock(p) ==
  /\ Acquirable
  /\ pc[p] \in {"acquire", "acquireDelete"}
  /\ lock' \in {DeadOwner, TornLock}
  /\ Forget(p)
  /\ UNCHANGED <<disk, acked>>

(* acquireLock throws storeLocked: a live owner, a dead one whose lock is  *)
(* still young, or, for ever, a lock file that does not parse.             *)
Refused(p) ==
  /\ pc[p] \in {"acquire", "acquireDelete"}
  /\ lock # Free
  /\ Forget(p)
  /\ UNCHANGED <<disk, lock, acked>>

-----------------------------------------------------------------------------
(* commitSnapshotBundle, under the lock.                                   *)

(* Leave for the finally block with what the caller will be told.          *)
Finish(p, result) ==
  /\ pc' = [pc EXCEPT ![p] = "release"]
  /\ outcome' = [outcome EXCEPT ![p] = result]

(* reconcileExisting: the evidence of the bundle that is committed already *)
Known(p) == Bundle(p) \cap manifest.evidence

(* Mutant: the references of the snapshot are not looked up.               *)
RefsTrusted(p) == FALSE

UnknownRefs(p) == ~ (Refs[sid[p]] \subseteq Bundle(p) \cup manifest.evidence)
SnapshotLost(p) == sid[p] \in Listed(manifest) /\ sid[p] \notin snaps
EvidenceLost(p) == \E e \in Known(p) : evs[e] = None
Conflicting(p) == \E e \in Known(p) : evs[e] # None /\ evs[e] # ev[p][e]

(* What reconcileExisting may throw.  The evidence is compared record by   *)
(* record, so either error may be met first.                               *)
Rejections(p) ==
  IF UnknownRefs(p) \/ SnapshotLost(p) THEN {"missing"}
  ELSE (IF EvidenceLost(p) THEN {"missing"} ELSE {})
         \cup (IF Conflicting(p) THEN {"conflict"} ELSE {})
Reconciled(p) == Rejections(p) = {}

(* Mutant: a commit of what is committed already is not recognised.        *)
NeverAlreadyCommitted(p) == FALSE

AlreadyCommitted(p) ==
  sid[p] \in Listed(manifest) /\ Bundle(p) \subseteq manifest.evidence

CheckRejects(p) ==
  /\ pc[p] = "check"
  /\ \E result \in Rejections(p) : Finish(p, result)
  /\ UNCHANGED <<disk, lock, sid, ev, todo, base, past>>

(* Mutant: the early return of an idempotent commit skips the cleanup.     *)
IdempotentNoCleanup(p) ==
  /\ Goto(p, "check", "release")
  /\ Reconciled(p)
  /\ AlreadyCommitted(p)
  /\ base' = [base EXCEPT ![p] = manifest]
  /\ outcome' = [outcome EXCEPT ![p] = "idempotent"]
  /\ UNCHANGED <<disk, lock, sid, ev, todo, past>>

(* The whole bundle is committed already: only the staging directory that  *)
(* an earlier crash may have left is removed.                              *)
CheckIdempotent(p) ==
  /\ Goto(p, "check", "cleanup")
  /\ Reconciled(p)
  /\ AlreadyCommitted(p)
  /\ base' = [base EXCEPT ![p] = manifest]
  /\ outcome' = [outcome EXCEPT ![p] = "idempotent"]
  /\ UNCHANGED <<disk, lock, sid, ev, todo, past>>

CheckProceeds(p) ==
  /\ Goto(p, "check", "mkdirs")
  /\ Reconciled(p)
  /\ ~ AlreadyCommitted(p)
  /\ base' = [base EXCEPT ![p] = manifest]
  /\ UNCHANGED <<disk, lock, sid, ev, todo, outcome, past>>

MakeDirectories(p) ==
  /\ Goto(p, "mkdirs", "stageSnapshot")
  /\ dir' = TRUE
  /\ stagingDir' = TRUE
  /\ UNCHANGED <<manifest, snaps, evs, stagedSnap, stagedEvs, lock, sid, ev, todo, base, outcome, past>>

StageSnapshot(p) ==
  /\ Goto(p, "stageSnapshot", "stageEvidence")
  /\ stagedSnap' = stagedSnap \cup {sid[p]}
  /\ todo' = [todo EXCEPT ![p] = Bundle(p)]
  /\ UNCHANGED <<manifest, snaps, evs, stagingDir, stagedEvs, dir, lock, sid, ev, base, outcome, past>>

(* One evidence record; a file of that name left in staging is replaced.   *)
StageEvidence(p, e) ==
  /\ pc[p] = "stageEvidence"
  /\ e \in todo[p]
  /\ stagedEvs' = [stagedEvs EXCEPT ![e] = ev[p][e]]
  /\ todo' = [todo EXCEPT ![p] = @ \ {e}]
  /\ UNCHANGED <<manifest, snaps, evs, stagingDir, stagedSnap, dir, lock, pc, sid, ev, base, outcome, past>>

(* Mutant: the manifest is written before the records are moved.           *)
AllStagedNoMoves(p) ==
  /\ Goto(p, "stageEvidence", "writeManifest")
  /\ todo[p] = {}
  /\ UNCHANGED <<disk, lock, sid, ev, todo, base, outcome, past>>

AllStaged(p) ==
  /\ Goto(p, "stageEvidence", "moveSnapshot")
  /\ todo[p] = {}
  /\ UNCHANGED <<disk, lock, sid, ev, todo, base, outcome, past>>

(* A record whose final name exists is left as it is, and its staged copy  *)
(* stays in staging.                                                       *)
MoveSnapshot(p) ==
  /\ Goto(p, "moveSnapshot", "moveEvidence")
  /\ IF sid[p] \in snaps
     THEN UNCHANGED <<snaps, stagedSnap>>
     ELSE /\ snaps' = snaps \cup {sid[p]}
          /\ stagedSnap' = stagedSnap \ {sid[p]}
  /\ todo' = [todo EXCEPT ![p] = Bundle(p)]
  /\ UNCHANGED <<manifest, evs, stagingDir, stagedEvs, dir, lock, sid, ev, base, outcome, past>>

MoveEvidence(p, e) ==
  /\ pc[p] = "moveEvidence"
  /\ e \in todo[p]
  /\ IF evs[e] # None
     THEN UNCHANGED <<evs, stagedEvs>>
     ELSE /\ evs' = [evs EXCEPT ![e] = stagedEvs[e]]
          /\ stagedEvs' = [stagedEvs EXCEPT ![e] = None]
  /\ todo' = [todo EXCEPT ![p] = @ \ {e}]
  /\ UNCHANGED <<manifest, snaps, stagingDir, stagedSnap, dir, lock, pc, sid, ev, base, outcome, past>>

AllMoved(p) ==
  /\ Goto(p, "moveEvidence", "writeManifest")
  /\ todo[p] = {}
  /\ UNCHANGED <<disk, lock, sid, ev, todo, base, outcome, past>>

(* Mutant: the limits are off by one.                                      *)
OverLimitByOne(p) ==
  \/ Cardinality(Listed(base[p]) \cup {sid[p]}) > MaxSnapshots + 1
  \/ Cardinality(base[p].evidence \cup Bundle(p)) > MaxEvidence + 1

(* buildNextManifest refuses a store at its limit; buildManifest refuses a *)
(* chronology that would list a snapshot twice.                            *)
OverLimit(p) ==
  \/ Cardinality(Listed(base[p]) \cup {sid[p]}) > MaxSnapshots
  \/ Cardinality(base[p].evidence \cup Bundle(p)) > MaxEvidence

BuildRejects(p) ==
  /\ pc[p] = "writeManifest"
  /\ OverLimit(p) \/ sid[p] \in Listed(base[p])
  /\ Finish(p, IF OverLimit(p) THEN "limit" ELSE "invalid")
  /\ UNCHANGED <<disk, lock, sid, ev, todo, base, past>>

(* Mutant: the chronology is written latest first.                         *)
NextManifestReversed(p) ==
  [history  |-> <<sid[p]>> \o base[p].history,
   evidence |-> base[p].evidence \cup Bundle(p)]

NextManifest(p) ==
  [history  |-> Append(base[p].history, sid[p]),
   evidence |-> base[p].evidence \cup Bundle(p)]

(* History: every process that has looked at the inventory is overtaken.   *)
Overtake ==
  overtaken' = overtaken \cup
                 {q \in Procs : pc[q] \in {"readEvidence", "acquire", "check"}}

(* The commit point: the manifest built from the one read under the lock   *)
(* replaces manifest.json.                                                 *)
WriteManifest(p) ==
  /\ Goto(p, "writeManifest", "cleanup")
  /\ ~ OverLimit(p)
  /\ sid[p] \notin Listed(base[p])
  /\ manifest' = NextManifest(p)
  /\ outcome' = [outcome EXCEPT ![p] = "ok"]
  /\ Overtake
  /\ UNCHANGED <<snaps, evs, staging, dir, lock, sid, ev, todo, base, acked>>

StagingRemoved ==
  /\ stagingDir' = FALSE
  /\ stagedSnap' = {}
  /\ stagedEvs' = NoEvidence

RemoveStaging(p) ==
  /\ Goto(p, "cleanup", "release")
  /\ StagingRemoved
  /\ UNCHANGED <<manifest, snaps, evs, dir, lock, sid, ev, todo, base, outcome, past>>

(* Mutant: the lock file of an operation that was refused stays behind.    *)
ReleaseIfDone(p) ==
  /\ pc[p] = "release"
  /\ lock' = IF outcome[p] \in Success THEN Free ELSE lock
  /\ acked' = IF outcome[p] \in Success THEN acked \cup {sid[p]} ELSE acked
  /\ Forget(p)
  /\ UNCHANGED disk

(* finally: the lock file is removed and the caller gets the outcome.      *)
Release(p) ==
  /\ pc[p] = "release"
  /\ lock' = Free
  /\ acked' = IF outcome[p] \in Success THEN acked \cup {sid[p]} ELSE acked
  /\ Forget(p)
  /\ UNCHANGED disk

-----------------------------------------------------------------------------
(* deleteProject.                                                          *)

(* Without a project directory there is nothing to delete.                 *)
BeginDelete(p) ==
  /\ dir
  /\ Goto(p, "idle", "acquireDelete")
  /\ UNCHANGED <<disk, lock, sid, ev, todo, base, outcome, past>>

(* verify: every record the manifest lists can be read.                    *)
Verifies ==
  /\ Listed(manifest) \subseteq snaps
  /\ \A e \in manifest.evidence : evs[e] # None

VerifyForDelete(p) ==
  /\ pc[p] = "verifyDelete"
  /\ IF Verifies
     THEN Goto(p, "verifyDelete", "moveToTombstone") /\ UNCHANGED outcome
     ELSE Finish(p, "corrupt")
  /\ UNCHANGED <<disk, lock, sid, ev, todo, base, past>>

(* The rename that takes the whole project directory away; it fails when   *)
(* the directory has gone since it was looked for.                         *)
MoveToTombstone(p) ==
  /\ pc[p] = "moveToTombstone"
  /\ \/ /\ dir
        /\ Goto(p, "moveToTombstone", "removeTombstone")
        /\ manifest' = NoManifest
        /\ snaps' = {}
        /\ evs' = NoEvidence
        /\ StagingRemoved
        /\ dir' = FALSE
        /\ acked' = {}
        /\ Overtake
        /\ UNCHANGED outcome
     \/ ~ dir /\ Finish(p, "failed") /\ UNCHANGED <<disk, past>>
  /\ UNCHANGED <<lock, sid, ev, todo, base>>

RemoveTombstone(p) ==
  /\ pc[p] = "removeTombstone"
  /\ Finish(p, "deleted")
  /\ UNCHANGED <<disk, lock, sid, ev, todo, base, past>>

-----------------------------------------------------------------------------
(* Faults.                                                                 *)

(* A file operation of the locked section throws; the finally block runs.  *)
Fail(p) ==
  /\ pc[p] \in Locked \ {"release"}
  /\ Finish(p, "failed")
  /\ UNCHANGED <<disk, lock, sid, ev, todo, base, past>>

(* The process dies: its memory goes, its files and its lock file stay.    *)
Crash(p) ==
  /\ pc[p] # "idle"
  /\ lock' = IF lock = p THEN DeadOwner ELSE lock
  /\ Forget(p)
  /\ UNCHANGED <<disk, acked>>

Fault(p) == Fail(p) \/ Crash(p) \/ TearLock(p)

-----------------------------------------------------------------------------
Capture(p) ==
  \/ \E s \in Snapshots : \E E \in SUBSET Refs[s] : BeginCapture(p, s, E)
  \/ ReadInventory(p) \/ \E e \in Evidence : ReuseEvidence(p, e)

CommitStep(p) ==
  \/ CheckRejects(p) \/ CheckIdempotent(p) \/ CheckProceeds(p)
  \/ MakeDirectories(p) \/ StageSnapshot(p) \/ AllStaged(p)
  \/ MoveSnapshot(p) \/ AllMoved(p)
  \/ \E e \in Evidence : StageEvidence(p, e) \/ MoveEvidence(p, e)
  \/ BuildRejects(p) \/ WriteManifest(p) \/ RemoveStaging(p)

DeleteStep(p) ==
  \/ BeginDelete(p) \/ VerifyForDelete(p)
  \/ MoveToTombstone(p) \/ RemoveTombstone(p)

LockStep(p) == Acquire(p) \/ Refused(p) \/ Release(p)

Next == \E p \in Procs :
  \/ Capture(p) \/ LockStep(p) \/ CommitStep(p) \/ DeleteStep(p)
  \/ Fault(p)

Spec == Init /\ [][Next]_vars

-----------------------------------------------------------------------------
(* Properties.                                                             *)

TypeOK ==
  /\ manifest \in Manifest
  /\ snaps \in SUBSET Snapshots
  /\ evs \in [Evidence -> Snapshots \cup {None}]
  /\ stagingDir \in BOOLEAN
  /\ stagedSnap \in SUBSET Snapshots
  /\ stagedEvs \in [Evidence -> Snapshots \cup {None}]
  /\ dir \in BOOLEAN
  /\ lock \in Procs \cup {Free, DeadOwner, TornLock}
  /\ pc \in [Procs -> Stages]
  /\ sid \in [Procs -> Snapshots \cup {None}]
  /\ ev \in [Procs -> [Evidence -> Snapshots \cup {None}]]
  /\ todo \in [Procs -> SUBSET Evidence]
  /\ base \in [Procs -> Manifest]
  /\ outcome \in [Procs -> Outcomes]
  /\ acked \in SUBSET Snapshots
  /\ overtaken \in SUBSET Procs

(* Whatever crashes or fails, and whenever: every record the manifest      *)
(* lists is on disk, so verify() never finds one missing (store.ts: the    *)
(* records are moved before the manifest is renamed).                      *)
RecordsBeforeManifest == Verifies

(* The evidence inventory is exactly what the chronology cites: references *)
(* that a commit left unsubmitted were committed before it, and no failed  *)
(* or refused commit leaves evidence in the inventory.                     *)
InventoryIsCited ==
  manifest.evidence = UNION {Refs[s] : s \in Listed(manifest)}

(* "A pre-existing id never reaches here": the comment in                  *)
(* buildNextManifest.  A snapshot that is listed already was either found  *)
(* idempotent or rejected before anything was staged.  (Of a store that    *)
(* nothing damaged: StoreRepair and MemoryCommands have the others.)       *)
AppendIsFresh ==
  /\ TypeOK
  /\ \A p \in Procs : pc[p] = "writeManifest" => sid[p] \notin Listed(base[p])

(* A capture that was reported to succeed is in the chronology until the   *)
(* project's memory is deleted, whatever crashes, failures, concurrent     *)
(* captures and retries follow.                                            *)
AckedIsDurable == acked \subseteq Listed(manifest)

(* A commit that reports success leaves no staging directory, the one that *)
(* an earlier crash left included (the idempotent early return once kept   *)
(* it for ever).                                                           *)
SuccessLeavesNoStaging ==
  \A p \in Procs :
    pc[p] = "release" /\ outcome[p] \in Success => ~ stagingDir

(* Two captures that observe the same content at different times give one  *)
(* evidence record two payloads.  That is refused as a conflict only if    *)
(* the manifest was replaced or removed between the capture's look at the  *)
(* inventory, without the lock, and the lock: a capture that nobody        *)
(* overtakes re-uses what is stored and is not refused, so that it is      *)
(* enough to try again.                                                    *)
ConflictsAreRaces ==
  \A p \in Procs :
    pc[p] = "release" /\ outcome[p] = "conflict" => p \in overtaken

(* The manifest never lists more than the limits allow.                    *)
WithinLimits ==
  /\ Len(manifest.history) <= MaxSnapshots
  /\ Cardinality(manifest.evidence) <= MaxEvidence

(* The store implements the append-only log.                               *)
Log == INSTANCE SnapshotLog WITH
  log <- manifest.history,
  observed <- [e \in Evidence |->
                 IF e \in manifest.evidence THEN evs[e] ELSE None]

AppendOnlyLog == Log!LogSpec

(* Of the lock it uses no more than ProjectLock promises: it takes it only *)
(* from nobody or from the dead, gives back only what it has, and never    *)
(* takes one that is torn.                                                 *)
Lock == INSTANCE ProjectLock

LockIsOwn == Lock!LockSpec

-----------------------------------------------------------------------------
(* The inductive invariant behind these properties (proved inductive in    *)
(* ProjectStoreProofs, and checked by TLC as an invariant too).            *)

Committing == {"mkdirs", "stageSnapshot", "stageEvidence", "moveSnapshot",
               "moveEvidence", "writeManifest"}

(* The lock names a process exactly while it is in the locked section.     *)
LockInv == \A p \in Procs : pc[p] \in Locked <=> lock = p

(* A capture knows its snapshot, and its bundle holds cited evidence only. *)
BundleInv == \A p \in Procs :
  /\ pc[p] \in Committing \cup {"reuse", "readEvidence", "acquire", "check", "cleanup"}
       => sid[p] \in Snapshots
  /\ sid[p] \in Snapshots => Bundle(p) \subseteq Refs[sid[p]]
  /\ sid[p] = None => Bundle(p) = {}
  /\ pc[p] = "readEvidence" => todo[p] \subseteq Bundle(p)

(* What p re-uses is what is stored, unless p is overtaken.                *)
ReuseInv == \A p \in Procs :
  p \notin overtaken =>
    /\ pc[p] = "readEvidence" =>
         \A e \in Known(p) \ todo[p] : evs[e] # None => evs[e] = ev[p][e]
    /\ pc[p] \in {"acquire", "check"} => ~ Conflicting(p)
    /\ pc[p] = "release" => outcome[p] # "conflict"

(* While p commits, nobody changes the manifest it built its bundle upon;  *)
(* its snapshot is new to it and its references are accounted for.         *)
BaseInv == \A p \in Procs :
  pc[p] \in Committing =>
    /\ base[p] = manifest
    /\ sid[p] \notin Listed(manifest)
    /\ Refs[sid[p]] \subseteq Bundle(p) \cup manifest.evidence

(* What is staged and what has been moved, stage by stage.                 *)
StagedInv == \A p \in Procs :
  /\ pc[p] = "stageEvidence" =>
       \A e \in Bundle(p) \ todo[p] : stagedEvs[e] # None
  /\ pc[p] = "moveSnapshot" => \A e \in Bundle(p) : stagedEvs[e] # None
  /\ pc[p] = "moveEvidence" =>
       /\ sid[p] \in snaps
       /\ \A e \in todo[p] : stagedEvs[e] # None
       /\ \A e \in Bundle(p) \ todo[p] : evs[e] # None
  /\ pc[p] = "writeManifest" =>
       /\ sid[p] \in snaps
       /\ \A e \in Bundle(p) : evs[e] # None

(* What an operation is about to report is so.                             *)
OutcomeInv == \A p \in Procs :
  /\ pc[p] = "cleanup" => outcome[p] \in Success
  /\ pc[p] \in {"cleanup", "release"} /\ outcome[p] \in Success =>
       sid[p] \in Listed(manifest)
  /\ pc[p] \notin {"cleanup", "release"} => outcome[p] = "none"

(* The chronology lists no snapshot twice.                                 *)
NoRepeats == Len(manifest.history) = Cardinality(Listed(manifest))

IInv ==
  /\ TypeOK
  /\ LockInv
  /\ BundleInv
  /\ ReuseInv
  /\ BaseInv
  /\ StagedInv
  /\ OutcomeInv
  /\ RecordsBeforeManifest
  /\ InventoryIsCited
  /\ AckedIsDurable
  /\ SuccessLeavesNoStaging
  /\ NoRepeats
  /\ WithinLimits
=============================================================================
