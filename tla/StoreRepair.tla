----------------------------- MODULE StoreRepair -----------------------------
(***************************************************************************)
(* Damage to a project's store, and its repair: scanStore proposes a plan  *)
(* without the lock, applyRepairPlan takes the lock, scans again, refuses  *)
(* a plan of other bytes, isolates what does not verify into quarantine    *)
(* and rebuilds the manifest from what does.  Captures go on meanwhile.    *)
(*                                                                         *)
(* Abstractions.                                                           *)
(*  - A record file verifies (Good), or it holds the bytes that the nth damage  *)
(*    put there (n): so different damaged bytes can be told apart.         *)
(*  - The plan is a function of what the scan observed, and so is its      *)
(*    fingerprint: the observation stands for both.                        *)
(*  - An operation id names one run of a command (the clock and the pid    *)
(*    make it up), so two repairs never share a quarantine slot.           *)
(*  - A commit is module ProjectStore's in three steps: the records are    *)
(*    staged and moved, the manifest is replaced, staging is removed.      *)
(*  - Files are not damaged while a process holds the lock, and nothing is *)
(*    deleted.                                                             *)
(***************************************************************************)
EXTENDS Naturals, Sequences, FiniteSets, SequencesExt, Ranking

CONSTANTS
  Procs,        \* the processes that run omp memory capture and repair
  Snapshots,    \* snapshot identities
  Evidence,     \* evidence identities
  Refs,         \* Refs[s]: the evidence snapshot s cites
  MaxDamage,    \* bound: files damaged in a run
  MaxFaults,    \* bound: processes that die and applies that fail
  Free, DeadOwner,  \* no lock file, one whose owner died ...
  TornLock      \* ... and one that does not parse

ASSUME RefsAssumption == Refs \in [Snapshots -> SUBSET Evidence]
ASSUME DisjointAssumption == Snapshots \cap Evidence = {}
ASSUME NamesAssumption == "manifest" \notin Snapshots \cup Evidence
ASSUME FiniteAssumption == IsFiniteSet(Snapshots)
ASSUME LockAssumption ==
  /\ {Free, DeadOwner, TornLock} \cap Procs = {}
  /\ Free # DeadOwner /\ TornLock \notin {Free, DeadOwner}
ASSUME BoundsAssumption == MaxDamage \in Nat /\ MaxFaults \in Nat

VARIABLES
  manifest,    \* manifest.json: how it reads, and what it lists
  record,      \* the record files
  staged,      \* files in the staging directory
  quarantine,  \* the preserved payloads: target and bytes
  lock,
  pc,          \* where each process is
  sid,         \* the snapshot it captures
  obs,         \* what its scan observed: the repair plan
  todo,        \* the files it has still to isolate
  confirmed,   \* the one among them whose payload is written and confirmed
  isolated,    \* history: the files repairs removed, with their bytes
  damages, faults

store == <<manifest, record, staged, quarantine>>
vars == <<store, lock, pc, sid, obs, todo, confirmed, isolated, damages, faults>>

Records == Snapshots \cup Evidence
Targets == Records \cup {"manifest"}

(* What a record file holds: nothing, bytes that do not verify, or a       *)
(* record that does.                                                       *)
Gone == 0
Bytes == 1 .. MaxDamage
Good == MaxDamage + 1

(* What manifest.json may hold.  "newer" is a format of a later build.     *)
Absent == [is |-> "absent", history |-> << >>, evidence |-> {}, bytes |-> 0]
Newer == [is |-> "newer", history |-> << >>, evidence |-> {}, bytes |-> 0]
Damaged(n) == [is |-> "damaged", history |-> << >>, evidence |-> {}, bytes |-> n]
Listing(h, E) == [is |-> "readable", history |-> h, evidence |-> E, bytes |-> 0]

Histories == {h \in UNION {[1 .. n -> Snapshots] : n \in 0 .. Cardinality(Snapshots)} :
                \A i, j \in DOMAIN h : h[i] = h[j] => i = j}
Manifests == {Absent, Newer} \cup {Damaged(n) : n \in Bytes}
               \cup {Listing(h, E) : h \in Histories, E \in SUBSET Evidence}

Files == {Gone, Good} \cup Bytes
Listings(m) == ToSet(m.history) \cup m.evidence

(* What a scan looks at.                                                   *)
View == [manifest |-> manifest, record |-> record, staged |-> staged]
Views == [manifest : Manifests, record : [Records -> Files], staged : SUBSET Records]
NoView == [manifest |-> Absent, record |-> [r \in Records |-> Gone], staged |-> {}]

Init ==
  /\ manifest = Absent
  /\ record = [r \in Records |-> Gone]
  /\ staged = {}
  /\ quarantine = {}
  /\ lock = Free
  /\ pc = [p \in Procs |-> "idle"]
  /\ sid = [p \in Procs |-> "none"]
  /\ obs = [p \in Procs |-> NoView]
  /\ todo = [p \in Procs |-> {}]
  /\ confirmed = [p \in Procs |-> {}]
  /\ isolated = {}
  /\ damages = 0
  /\ faults = 0

Goto(p, from, to) ==
  /\ pc[p] = from
  /\ pc' = [pc EXCEPT ![p] = to]

(* The command ends.                                                       *)
Forget(p) ==
  /\ pc' = [pc EXCEPT ![p] = "idle"]
  /\ sid' = [sid EXCEPT ![p] = "none"]
  /\ obs' = [obs EXCEPT ![p] = NoView]
  /\ todo' = [todo EXCEPT ![p] = {}]
  /\ confirmed' = [confirmed EXCEPT ![p] = {}]

-----------------------------------------------------------------------------
(* The environment.                                                        *)

(* A file is overwritten with bytes that do not verify, or removed.        *)
Damage(t) ==
  /\ lock \notin Procs
  /\ damages < MaxDamage
  /\ damages' = damages + 1
  /\ \/ /\ t \in Records
        /\ record[t] # Gone
        /\ \E b \in {Gone, damages'} : record' = [record EXCEPT ![t] = b]
        /\ UNCHANGED manifest
     \/ /\ t = "manifest"
        /\ manifest # Absent
        /\ manifest' \in {Absent, Newer, Damaged(damages')}
        /\ UNCHANGED record
  /\ UNCHANGED <<staged, quarantine, lock, pc, sid, obs, todo, confirmed, isolated, faults>>

Crash(p) ==
  /\ pc[p] # "idle"
  /\ faults < MaxFaults
  /\ faults' = faults + 1
  /\ lock' = IF lock = p THEN DeadOwner ELSE lock
  /\ Forget(p)
  /\ UNCHANGED <<store, isolated, damages>>

(* acquireLock: free, or reclaimed from a dead owner; refused otherwise,   *)
(* and for ever when the lock file does not parse.                         *)
Acquirable == lock \in {Free, DeadOwner}

(* The process dies or fails once it has made the lock file: the file      *)
(* stays, with or without its record.                                      *)
TearLock(p) ==
  /\ Acquirable
  /\ pc[p] \in {"wantsCapture", "planned"}
  /\ faults < MaxFaults
  /\ faults' = faults + 1
  /\ lock' \in {DeadOwner, TornLock}
  /\ Forget(p)
  /\ UNCHANGED <<store, isolated, damages>>

Acquire(p) ==
  /\ Acquirable
  /\ \/ Goto(p, "wantsCapture", "capture")
     \/ Goto(p, "planned", "rescan")
  /\ lock' = p
  /\ UNCHANGED <<store, sid, obs, todo, confirmed, isolated, damages, faults>>

Refused(p) ==
  /\ pc[p] \in {"wantsCapture", "planned"}
  /\ lock # Free
  /\ Forget(p)
  /\ UNCHANGED <<store, lock, isolated, damages, faults>>

Release(p) ==
  /\ pc[p] = "release"
  /\ lock' = Free
  /\ Forget(p)
  /\ UNCHANGED <<store, isolated, damages, faults>>

-----------------------------------------------------------------------------
(* A capture of snapshot s, with all the evidence it cites.                *)

BeginCapture(p, s) ==
  /\ Goto(p, "idle", "wantsCapture")
  /\ sid' = [sid EXCEPT ![p] = s]
  /\ UNCHANGED <<store, lock, obs, todo, confirmed, isolated, damages, faults>>

Bundle(p) == {sid[p]} \cup Refs[sid[p]]

(* readManifest or reconcileExisting throws: the manifest does not read,   *)
(* or a record that is committed already does not.                         *)
CannotCommit(p) ==
  \/ manifest.is \in {"newer", "damaged"}
  \/ \E r \in Bundle(p) \cap Listings(manifest) : record[r] # Good

CaptureEnds(p) ==
  /\ Goto(p, "capture", "release")
  /\ \/ CannotCommit(p) /\ UNCHANGED staged
     \/ ~ CannotCommit(p) /\ Bundle(p) \subseteq Listings(manifest) /\ staged' = {}
  /\ UNCHANGED <<manifest, record, quarantine, lock, sid, obs, todo, confirmed, isolated, damages, faults>>

(* Some or all records of the bundle are moved to their final names; those *)
(* whose name is taken, by whatever bytes, stay staged.                    *)
CaptureMoves(p, moved) ==
  /\ Goto(p, "capture", IF moved = Bundle(p) THEN "commit" ELSE "release")
  /\ ~ CannotCommit(p)
  /\ ~ (Bundle(p) \subseteq Listings(manifest))
  /\ moved \subseteq Bundle(p)
  /\ record' = [r \in Records |->
                  IF r \in moved /\ record[r] = Gone THEN Good ELSE record[r]]
  /\ staged' = staged \cup {r \in Bundle(p) : r \in moved => record[r] # Gone}
  /\ UNCHANGED <<manifest, quarantine, lock, sid, obs, todo, confirmed, isolated, damages, faults>>

(* buildManifest refuses a chronology that lists a snapshot twice: the     *)
(* capture of a snapshot that is listed, while its evidence is not.        *)
CaptureRejected(p) ==
  /\ Goto(p, "commit", "release")
  /\ sid[p] \in ToSet(manifest.history)
  /\ UNCHANGED <<store, lock, sid, obs, todo, confirmed, isolated, damages, faults>>

CaptureCommits(p) ==
  /\ Goto(p, "commit", "cleanup")
  /\ sid[p] \notin ToSet(manifest.history)
  /\ manifest' = Listing(Append(manifest.history, sid[p]),
                         manifest.evidence \cup Refs[sid[p]])
  /\ UNCHANGED <<record, staged, quarantine, lock, sid, obs, todo, confirmed, isolated, damages, faults>>

CaptureCleans(p) ==
  /\ Goto(p, "cleanup", "release")
  /\ staged' = {}
  /\ UNCHANGED <<manifest, record, quarantine, lock, sid, obs, todo, confirmed, isolated, damages, faults>>

-----------------------------------------------------------------------------
(* scanStore, without the lock: the manifest, then the snapshot files, the *)
(* evidence files and the staging directory, each as it is by then.        *)

ScanManifest(p) ==
  /\ Goto(p, "idle", "scanSnapshots")
  /\ obs' = [obs EXCEPT ![p].manifest = manifest]
  /\ UNCHANGED <<store, lock, sid, todo, confirmed, isolated, damages, faults>>

ScanFiles(R, seen) == [r \in Records |-> IF r \in R THEN record[r] ELSE seen[r]]

ScanSnapshots(p) ==
  /\ Goto(p, "scanSnapshots", "scanEvidence")
  /\ obs' = [obs EXCEPT ![p].record = ScanFiles(Snapshots, @)]
  /\ UNCHANGED <<store, lock, sid, todo, confirmed, isolated, damages, faults>>

ScanEvidence(p) ==
  /\ Goto(p, "scanEvidence", "scanResidue")
  /\ obs' = [obs EXCEPT ![p].record = ScanFiles(Evidence, @)]
  /\ UNCHANGED <<store, lock, sid, todo, confirmed, isolated, damages, faults>>

ScanResidue(p) ==
  /\ Goto(p, "scanResidue", "planned")
  /\ obs' = [obs EXCEPT ![p].staged = staged]
  /\ UNCHANGED <<store, lock, sid, todo, confirmed, isolated, damages, faults>>

(* The files with an action "quarantine_authoritative_file": a manifest    *)
(* that does not read, or, when it reads, the records that do not verify.  *)
ToIsolate(v) ==
  IF v.manifest.is = "damaged" THEN {"manifest"}
  ELSE IF v.manifest.is = "readable" THEN {r \in Records : v.record[r] \in Bytes}
  ELSE {}

(* "reindex_verified_orphan" and "rebuild_derived_manifest".               *)
ToReindex(v) ==
  IF v.manifest.is = "readable"
  THEN {r \in Records \ Listings(v.manifest) : v.record[r] = Good} ELSE {}
Missing(v) ==
  IF v.manifest.is = "readable"
  THEN {r \in Listings(v.manifest) : v.record[r] = Gone} ELSE {}

(* Mutant: the manifest is rebuilt only after something was isolated.      *)
NeedsRebuildIfIsolated(v) == ToIsolate(v) # {}

NeedsRebuild(v) == ToIsolate(v) \cup ToReindex(v) \cup Missing(v) # {}

-----------------------------------------------------------------------------
(* applyRepairPlan.                                                        *)

(* The store is as the plan describes it: equal fingerprints.              *)
Fresh(p) == View = obs[p]

RefuseStalePlan(p) ==
  /\ Goto(p, "rescan", "release")
  /\ ~ Fresh(p)
  /\ UNCHANGED <<store, lock, sid, obs, todo, confirmed, isolated, damages, faults>>

StartApply(p) ==
  /\ Goto(p, "rescan", "apply")
  /\ Fresh(p)
  /\ todo' = [todo EXCEPT ![p] = ToIsolate(obs[p])]
  /\ UNCHANGED <<store, lock, sid, obs, confirmed, isolated, damages, faults>>

BytesOf(t) == IF t = "manifest" THEN manifest.bytes ELSE record[t]

(* quarantineOneFile, one file after the other: the payload is written to  *)
(* the slot of this operation, read back and compared ...                  *)
Preserve(p, t) ==
  /\ pc[p] = "apply"
  /\ t \in todo[p]
  /\ confirmed[p] = {}
  /\ quarantine' = quarantine \cup {<<t, BytesOf(t)>>}
  /\ confirmed' = [confirmed EXCEPT ![p] = {t}]
  /\ UNCHANGED <<manifest, record, staged, lock, pc, sid, obs, todo, isolated, damages, faults>>

Removed(p, t) ==
  /\ IF t = "manifest" THEN manifest' = Absent /\ UNCHANGED record
     ELSE record' = [record EXCEPT ![t] = Gone] /\ UNCHANGED manifest
  /\ isolated' = isolated \cup {<<t, BytesOf(t)>>}
  /\ todo' = [todo EXCEPT ![p] = @ \ {t}]
  /\ confirmed' = [confirmed EXCEPT ![p] = {}]
  /\ UNCHANGED <<staged, quarantine, lock, pc, sid, obs, damages, faults>>

(* Mutant: the file is removed before its payload is there.                *)
IsolateFirst(p, t) ==
  /\ pc[p] = "apply"
  /\ t \in todo[p]
  /\ Removed(p, t)

(* ... and only then is the damaged file removed.                          *)
Isolate(p, t) ==
  /\ pc[p] = "apply"
  /\ t \in confirmed[p]
  /\ Removed(p, t)

(* A file operation of the apply throws: the lock is released, what has    *)
(* been done stays.                                                        *)
ApplyFails(p) ==
  /\ Goto(p, "apply", "release")
  /\ faults < MaxFaults
  /\ faults' = faults + 1
  /\ UNCHANGED <<store, lock, sid, obs, todo, confirmed, isolated, damages>>

(* Mutant: only the records the plan isolated leave the manifest.          *)
SurvivesUnlessIsolated(p, r) == r \notin ToIsolate(obs[p])

(* A listed record survives when the second scan has nothing against it.   *)
Survives(p, r) == record[r] = Good

(* The entries of h that are in S, in their order.                         *)
Kept(h, S) ==
  LET places == {i \in DOMAIN h : h[i] \in S}
      before == {ij \in places \X places : ij[1] < ij[2]}
  IN  [n \in 1 .. Cardinality(places) |-> h[Ranked(places, before)[n]]]

(* Mutant: the chronology is rebuilt latest first.                         *)
RebuiltReversed(p) ==
  Listing(Reverse(Kept(manifest.history, {s \in Snapshots : Survives(p, s)})),
          {e \in manifest.evidence : Survives(p, e)})

(* rebuildDerivedManifest: the chronology without what did not survive, in *)
(* its order; a manifest that is gone or does not read is left alone.      *)
Rebuilt(p) ==
  Listing(Kept(manifest.history, {s \in Snapshots : Survives(p, s)}),
          {e \in manifest.evidence : Survives(p, e)})

Rebuild(p) ==
  /\ Goto(p, "apply", "receipt")
  /\ todo[p] = {}
  /\ manifest' = IF NeedsRebuild(obs[p]) /\ manifest.is = "readable"
                 THEN Rebuilt(p) ELSE manifest
  /\ UNCHANGED <<record, staged, quarantine, lock, sid, obs, todo, confirmed, isolated, damages, faults>>

(* removeResidue only looks whether the file is there, and                 *)
(* reclaim_dead_stale_lock has been done by acquireLock: neither changes   *)
(* the store.  The receipt says what was done.                             *)
WriteReceipt(p) ==
  /\ Goto(p, "receipt", "release")
  /\ UNCHANGED <<store, lock, sid, obs, todo, confirmed, isolated, damages, faults>>

-----------------------------------------------------------------------------
CaptureStep(p) ==
  \/ CaptureEnds(p) \/ CaptureRejected(p) \/ CaptureCommits(p) \/ CaptureCleans(p)
  \/ \E moved \in SUBSET Records : CaptureMoves(p, moved)

ScanStep(p) == ScanSnapshots(p) \/ ScanEvidence(p) \/ ScanResidue(p)

ApplyStep(p) ==
  \/ RefuseStalePlan(p) \/ StartApply(p) \/ Rebuild(p) \/ WriteReceipt(p)
  \/ \E t \in Targets : Preserve(p, t) \/ Isolate(p, t)

Step(p) ==
  \/ \E s \in Snapshots : BeginCapture(p, s)
  \/ ScanManifest(p)
  \/ Acquire(p) \/ Refused(p) \/ Release(p) \/ Crash(p) \/ TearLock(p)
  \/ CaptureStep(p) \/ ScanStep(p) \/ ApplyStep(p) \/ ApplyFails(p)

Next ==
  \/ \E t \in Targets : Damage(t)
  \/ \E p \in Procs : Step(p)

Spec == Init /\ [][Next]_vars

-----------------------------------------------------------------------------
Stages == {"idle", "wantsCapture", "capture", "commit", "cleanup",
           "scanSnapshots", "scanEvidence", "scanResidue", "planned", "rescan",
           "apply", "receipt", "release"}

TypeOK ==
  /\ manifest \in Manifests
  /\ record \in [Records -> Files]
  /\ staged \in SUBSET Records
  /\ quarantine \in SUBSET (Targets \X Bytes)
  /\ lock \in Procs \cup {Free, DeadOwner, TornLock}
  /\ pc \in [Procs -> Stages]
  /\ sid \in [Procs -> Snapshots \cup {"none"}]
  /\ obs \in [Procs -> Views]
  /\ todo \in [Procs -> SUBSET Targets]
  /\ confirmed \in [Procs -> SUBSET Targets]
  /\ isolated \in SUBSET (Targets \X Bytes)
  /\ damages \in 0 .. MaxDamage

(* "There is no reachable stage where the original is gone and no readable *)
(* copy exists" (quarantineOneFile), and nothing that verifies is removed. *)
OriginalsPreserved ==
  \A i \in isolated : i[2] \in Bytes /\ i \in quarantine

(* A repair that writes its receipt leaves a store that verifies, or one   *)
(* whose manifest cannot be read: however its scan was interleaved with    *)
(* commits and damage.                                                     *)
Verifies == manifest.is = "readable" => \A r \in Listings(manifest) : record[r] = Good
ReceiptMeansVerified == TypeOK /\ \A p \in Procs : pc[p] = "receipt" => Verifies

(* "Chronology never regresses. Entries are filtered": a repair drops from *)
(* the manifest no record that verifies, and reorders nothing.             *)
Repairing(p) == pc[p] = "apply" /\ pc'[p] = "receipt"
RepairKeepsTheGood ==
  [][\A p \in Procs : Repairing(p) /\ manifest.is = "readable" =>
       /\ {r \in Listings(manifest) : record[r] = Good} \subseteq Listings(manifest')
       /\ \A i, j \in DOMAIN manifest'.history : i < j =>
            \E k, l \in DOMAIN manifest.history :
              k < l /\ manifest.history[k] = manifest'.history[i]
                    /\ manifest.history[l] = manifest'.history[j]]_vars

(* What the proofs need besides: who holds the lock, and how the store     *)
(* differs, while a plan is applied, from what the plan was made of.       *)
Holding == {"capture", "commit", "cleanup", "rescan", "apply", "receipt", "release"}
LockInv == \A p \in Procs : pc[p] \in Holding <=> lock = p

CaptureInv == \A p \in Procs :
  pc[p] \in {"wantsCapture", "capture", "commit", "cleanup"} => sid[p] \in Snapshots

Done(p) == ToIsolate(obs[p]) \ todo[p]

PlanInv(p) ==
  /\ confirmed[p] \subseteq todo[p]
  /\ pc[p] \notin {"apply", "release"} => confirmed[p] = {}
  /\ pc[p] = "apply" =>
       /\ todo[p] \subseteq ToIsolate(obs[p])
       /\ manifest = IF "manifest" \in Done(p) THEN Absent ELSE obs[p].manifest
       /\ record = [r \in Records |-> IF r \in Done(p) THEN Gone ELSE obs[p].record[r]]
       /\ \A t \in confirmed[p] : <<t, BytesOf(t)>> \in quarantine

ReceiptInv(p) == pc[p] = "receipt" => Verifies

IInv ==
  /\ TypeOK /\ OriginalsPreserved /\ LockInv /\ CaptureInv
  /\ \A p \in Procs : PlanInv(p) /\ ReceiptInv(p)

(* "The receipt is written last so it describes completed work only"       *)
(* (applyRepairPlan): a residue file reported as removed is gone, and an   *)
(* orphan reported as reconstructed ("re-indexing is ... realized by the   *)
(* derived rebuild below") is listed.                                      *)
ReceiptTruthful ==
  \A p \in Procs : pc[p] = "receipt" =>
    /\ staged \cap obs[p].staged = {}
    /\ ToReindex(obs[p]) \subseteq Listings(manifest)

(* However often the store was damaged and whatever an apply that failed   *)
(* or died left behind, a user who repairs again and again ends with a     *)
(* store that verifies or whose manifest is not repaired ("a retry         *)
(* converges"), unless a fault has torn the lock file, which refuses every *)
(* repair until somebody removes it by hand.                               *)
RepairsConverge == <>[](Verifies \/ lock = TornLock)

(* A command goes on; the user repairs again and again.  An attempt that   *)
(* finds no lock file is not refused; the lock of a dead owner refuses for *)
(* 60 seconds at most, so of attempts made again and again one takes it.   *)
Fairness == \A p \in Procs :
  /\ WF_vars(ScanStep(p) \/ CaptureStep(p) \/ ApplyStep(p) \/ Release(p))
  /\ WF_vars(Acquire(p) \/ Refused(p))
  /\ SF_vars(lock = DeadOwner /\ Acquire(p))
  /\ SF_vars(ScanManifest(p))

RepairSpec == Spec /\ Fairness
=============================================================================
