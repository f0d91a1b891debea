--------------------------- MODULE StoreRepairProofs ---------------------------
(***************************************************************************)
(* Theorems of StoreRepair, for any number of processes, records, damaged  *)
(* files and failures: a damaged file is removed only once its bytes are   *)
(* in quarantine, a repair that writes its receipt leaves a store that     *)
(* verifies, and it drops nothing good from the chronology.                *)
(*                                                                         *)
(* The inductive invariant is IInv.  Its core is PlanInv: while a plan is  *)
(* applied the store is what the plan was made of but for the files that   *)
(* are isolated already, because the lock keeps everybody else out.        *)
(***************************************************************************)
EXTENDS StoreRepair

USE DEF Gone

-----------------------------------------------------------------------------
(* Chronologies.                                                           *)

(* A history is a sequence of snapshots without repetition: no bound on    *)
(* its length but their number.                                            *)
LEMMA HistoryForm ==
  \A h : h \in Histories <=>
           /\ h \in Seq(Snapshots)
           /\ \A i, j \in DOMAIN h : h[i] = h[j] => i = j
<1>1. ASSUME NEW h \in Histories
      PROVE  h \in Seq(Snapshots) /\ \A i, j \in DOMAIN h : h[i] = h[j] => i = j
  BY FiniteAssumption, FS_CardinalityType DEF Histories
<1>2. ASSUME NEW h \in Seq(Snapshots), \A i, j \in DOMAIN h : h[i] = h[j] => i = j
      PROVE  h \in Histories
  <2>1. Len(h) \in Nat /\ h \in [1 .. Len(h) -> Snapshots] /\ DOMAIN h = 1 .. Len(h)
    OBVIOUS
  <2>2. h \in Injection(1 .. Len(h), Snapshots)
    BY <1>2, <2>1 DEF Injection, IsInjective
  <2>3. Cardinality(1 .. Len(h)) <= Cardinality(Snapshots)
    BY <2>2, FiniteAssumption, FS_Injection
  <2>4. Cardinality(1 .. Len(h)) = Len(h)
    BY <2>1, FS_Interval
  <2>5. Len(h) \in 0 .. Cardinality(Snapshots)
    BY <2>1, <2>3, <2>4, FiniteAssumption, FS_CardinalityType
  <2> QED  BY <1>2, <2>1, <2>5 DEF Histories
<1> QED  BY <1>1, <1>2

(* A snapshot that is not listed can be appended.                          *)
LEMMA AppendHistory ==
  ASSUME NEW h \in Histories, NEW s \in Snapshots, s \notin ToSet(h)
  PROVE  /\ Append(h, s) \in Histories
         /\ ToSet(Append(h, s)) = ToSet(h) \cup {s}
<1>1. h \in Seq(Snapshots) /\ \A i, j \in DOMAIN h : h[i] = h[j] => i = j
  BY HistoryForm
<1>2. /\ Append(h, s) \in Seq(Snapshots)
      /\ DOMAIN Append(h, s) = 1 .. Len(h) + 1
      /\ \A i \in 1 .. Len(h) : Append(h, s)[i] = h[i] /\ i \in DOMAIN h
      /\ Append(h, s)[Len(h) + 1] = s
      /\ DOMAIN h = 1 .. Len(h) /\ Len(h) \in Nat
  BY <1>1
<1>3. \A i \in DOMAIN h : h[i] # s
  BY DEF ToSet
<1>4. \A i, j \in DOMAIN Append(h, s) : Append(h, s)[i] = Append(h, s)[j] => i = j
  <2> SUFFICES ASSUME NEW i \in 1 .. Len(h) + 1, NEW j \in 1 .. Len(h) + 1,
                      Append(h, s)[i] = Append(h, s)[j]
               PROVE  i = j
    BY <1>2
  <2>1. CASE i \in 1 .. Len(h) /\ j \in 1 .. Len(h)
    BY <1>1, <1>2, <2>1
  <2>2. CASE i = Len(h) + 1 /\ j \in 1 .. Len(h)
    BY <1>2, <1>3, <2>2
  <2>3. CASE i \in 1 .. Len(h) /\ j = Len(h) + 1
    BY <1>2, <1>3, <2>3
  <2> QED  BY <1>2, <2>1, <2>2, <2>3
<1>5. ToSet(Append(h, s)) = ToSet(h) \cup {s}
  <2>1. ASSUME NEW x \in ToSet(Append(h, s)) PROVE x \in ToSet(h) \cup {s}
    <3>1. PICK i \in 1 .. Len(h) + 1 : Append(h, s)[i] = x
      BY <1>2, <2>1 DEF ToSet
    <3>2. CASE i \in 1 .. Len(h)
      BY <1>2, <3>1, <3>2 DEF ToSet
    <3>3. CASE i = Len(h) + 1
      BY <1>2, <3>1, <3>3
    <3> QED  BY <1>2, <3>2, <3>3
  <2>2. ASSUME NEW x \in ToSet(h) PROVE x \in ToSet(Append(h, s))
    <3>1. PICK i \in 1 .. Len(h) : h[i] = x
      BY <1>2, <2>2 DEF ToSet
    <3>2. i \in DOMAIN Append(h, s) /\ Append(h, s)[i] = x
      BY <1>2, <3>1
    <3> QED  BY <3>2 DEF ToSet
  <2>3. s \in ToSet(Append(h, s))
    <3>1. Len(h) + 1 \in DOMAIN Append(h, s)
      BY <1>2
    <3> QED  BY <1>2, <3>1 DEF ToSet
  <2> QED  BY <2>1, <2>2, <2>3
<1> QED  BY <1>2, <1>4, <1>5, HistoryForm

(* A filter keeps exactly the entries it is asked for, in their order.     *)
LEMMA KeptHistory ==
  ASSUME NEW h \in Histories, NEW S
  PROVE  /\ Kept(h, S) \in Histories
         /\ ToSet(Kept(h, S)) = ToSet(h) \cap S
         /\ \A i, j \in DOMAIN Kept(h, S) : i < j =>
              \E k, l \in DOMAIN h :
                k < l /\ h[k] = Kept(h, S)[i] /\ h[l] = Kept(h, S)[j]
<1> DEFINE places == {i \in DOMAIN h : h[i] \in S}
           before == {ij \in places \X places : ij[1] < ij[2]}
           N == Cardinality(places)
           place == Ranked(places, before)
<1>1. /\ h \in Seq(Snapshots) /\ DOMAIN h = 1 .. Len(h) /\ Len(h) \in Nat
      /\ \A i, j \in DOMAIN h : h[i] = h[j] => i = j
  BY HistoryForm
<1>2. IsFiniteSet(places)
  <2>1. IsFiniteSet(1 .. Len(h))
    BY <1>1, FS_Interval
  <2> QED  BY <1>1, <2>1, FS_Subset
<1>3. Orders(before, places)
  BY <1>1 DEF Orders
<1>4. /\ N \in Nat
      /\ place \in [1 .. N -> places]
      /\ \A x \in places : \E n \in 1 .. N : place[n] = x
      /\ \A m, n \in 1 .. N : m < n => place[m] < place[n]
  <2> HIDE DEF places
  <2>1. /\ N \in Nat
        /\ place \in [1 .. N -> places]
        /\ \A x \in places : \E n \in 1 .. N : place[n] = x
        /\ \A m, n \in 1 .. N : m < n => <<place[m], place[n]>> \in before
    BY <1>2, <1>3, RankedInOrder
  <2> QED  BY <2>1
<1>5. Kept(h, S) = [n \in 1 .. N |-> h[place[n]]]
  BY DEF Kept
<1> HIDE DEF place, before, N
<1>6. \A n \in 1 .. N : place[n] \in DOMAIN h /\ h[place[n]] \in S /\ h[place[n]] \in Snapshots
  BY <1>1, <1>4
<1>7. /\ Kept(h, S) \in Seq(Snapshots)
      /\ DOMAIN Kept(h, S) = 1 .. N
  BY <1>4, <1>5, <1>6
<1>8. \A i, j \in DOMAIN Kept(h, S) : i < j =>
        /\ place[i] \in DOMAIN h /\ place[j] \in DOMAIN h /\ place[i] < place[j]
        /\ h[place[i]] = Kept(h, S)[i] /\ h[place[j]] = Kept(h, S)[j]
  BY <1>4, <1>5, <1>6, <1>7
<1>9. \A i, j \in DOMAIN Kept(h, S) : Kept(h, S)[i] = Kept(h, S)[j] => i = j
  <2> SUFFICES ASSUME NEW i \in 1 .. N, NEW j \in 1 .. N, i < j,
                      Kept(h, S)[i] = Kept(h, S)[j]
               PROVE  FALSE
    BY <1>4, <1>7
  <2>1. place[i] < place[j] /\ h[place[i]] = h[place[j]]
    BY <1>7, <1>8
  <2> QED  BY <1>1, <1>6, <2>1
<1>10. ToSet(Kept(h, S)) = ToSet(h) \cap S
  <2>1. ASSUME NEW x \in ToSet(Kept(h, S)) PROVE x \in ToSet(h) \cap S
    BY <1>5, <1>6, <1>7 DEF ToSet
  <2>2. ASSUME NEW x \in ToSet(h), x \in S PROVE x \in ToSet(Kept(h, S))
    <3>1. PICK i \in DOMAIN h : h[i] = x
      BY DEF ToSet
    <3>2. PICK n \in 1 .. N : place[n] = i
      BY <2>2, <3>1, <1>4
    <3> QED  BY <3>1, <3>2, <1>5, <1>7 DEF ToSet
  <2> QED  BY <2>1, <2>2
<1> QED  BY <1>7, <1>8, <1>9, <1>10, HistoryForm

-----------------------------------------------------------------------------
(* What a manifest may hold, and what an empty one lists.                  *)
LEMMA ManifestForm ==
  /\ Absent \in Manifests /\ Newer \in Manifests
  /\ \A n \in Bytes : Damaged(n) \in Manifests
  /\ \A h \in Histories, E \in SUBSET Evidence : Listing(h, E) \in Manifests
  /\ \A m \in Manifests :
       /\ m.history \in Histories /\ m.evidence \in SUBSET Evidence
       /\ m.is = "damaged" => m.bytes \in Bytes
<1>1. << >> \in Histories
  <2>1. << >> \in Seq(Snapshots) /\ \A i \in DOMAIN << >> : FALSE
    OBVIOUS
  <2> QED  BY <2>1, HistoryForm
<1>2. \A n \in Bytes : n \in Nat
  BY BoundsAssumption DEF Bytes
<1>3. /\ Absent \in Manifests /\ Newer \in Manifests
      /\ \A n \in Bytes : Damaged(n) \in Manifests
      /\ \A h \in Histories, E \in SUBSET Evidence : Listing(h, E) \in Manifests
  BY DEF Manifests
<1>4. ASSUME NEW m \in Manifests
      PROVE  /\ m.history \in Histories /\ m.evidence \in SUBSET Evidence
             /\ m.is = "damaged" => m.bytes \in Bytes
  <2>1. CASE m = Absent
    BY <1>1, <2>1 DEF Absent
  <2>2. CASE m = Newer
    BY <1>1, <2>2 DEF Newer
  <2>3. ASSUME NEW n \in Bytes, m = Damaged(n)
        PROVE  m.history = << >> /\ m.evidence = {} /\ m.bytes = n
    BY <2>3 DEF Damaged
  <2>4. ASSUME NEW h \in Histories, NEW E \in SUBSET Evidence, m = Listing(h, E)
        PROVE  m.history = h /\ m.evidence = E /\ m.is = "readable"
    BY <2>4 DEF Listing
  <2> QED  BY <1>1, <2>1, <2>2, <2>3, <2>4 DEF Manifests
<1> QED
  BY <1>3, <1>4

(* What a plan isolates, and the bytes it isolates.                        *)
LEMMA PlannedBytes ==
  ASSUME NEW v \in Views
  PROVE  /\ ToIsolate(v) \in SUBSET Targets
         /\ \A r \in ToIsolate(v) \ {"manifest"} : r \in Records /\ v.record[r] \in Bytes
         /\ "manifest" \in ToIsolate(v) => v.manifest.is = "damaged" /\ v.manifest.bytes \in Bytes
<1>1. "manifest" \notin Records
  BY NamesAssumption DEF Records
<1>2. v.manifest \in Manifests
  BY DEF Views
<1>3. v.manifest.is = "damaged" => v.manifest.bytes \in Bytes
  BY <1>2, ManifestForm
<1> QED
  BY <1>1, <1>3 DEF ToIsolate, Targets

(* While a plan is applied the files it has not isolated yet hold the      *)
(* bytes it found.                                                         *)
LEMMA PlannedStillThere ==
  ASSUME IInv, NEW p \in Procs, pc[p] = "apply", NEW t \in todo[p]
  PROVE  BytesOf(t) \in Bytes /\ t \in Targets
<1> USE DEF IInv, TypeOK, PlanInv
<1>1. obs[p] \in Views /\ t \in ToIsolate(obs[p]) /\ t \notin Done(p)
  BY DEF Done
<1>2. CASE t = "manifest"
  <2>1. manifest = obs[p].manifest
    BY <1>1, <1>2
  <2> QED  BY <1>1, <1>2, <2>1, PlannedBytes DEF BytesOf, Targets
<1>3. CASE t # "manifest"
  <2>1. t \in Records /\ obs[p].record[t] \in Bytes
    BY <1>1, <1>3, PlannedBytes
  <2>2. record[t] = obs[p].record[t]
    BY <1>1, <2>1
  <2> QED  BY <1>3, <2>1, <2>2 DEF BytesOf, Targets
<1> QED  BY <1>2, <1>3

(* Only the process that holds the lock, or the environment when nobody    *)
(* does, touches what the others may rely on.                              *)
LEMMA AloneWithTheLock ==
  ASSUME IInv, NEW p \in Procs, NEW q \in Procs, p # q, pc[p] \in Holding
  PROVE  /\ pc[q] \notin Holding
         /\ lock \in Procs
BY LockAssumption DEF IInv, LockInv

-----------------------------------------------------------------------------
(* Type correctness.                                                       *)
LEMMA TypeInit == Init => TypeOK
<1>1. NoView \in Views
  BY ManifestForm DEF NoView, Views, Files
<1> QED
  BY <1>1, ManifestForm, BoundsAssumption DEF Init, TypeOK, Files, Stages

LEMMA ForgetType ==
  ASSUME TypeOK, NEW p \in Procs, Forget(p)
  PROVE  /\ pc' \in [Procs -> Stages]
         /\ sid' \in [Procs -> Snapshots \cup {"none"}]
         /\ obs' \in [Procs -> Views]
         /\ todo' \in [Procs -> SUBSET Targets]
         /\ confirmed' \in [Procs -> SUBSET Targets]
<1>1. NoView \in Views
  BY ManifestForm DEF NoView, Views, Files
<1> QED
  BY <1>1 DEF TypeOK, Forget, Stages

LEMMA TypeStep ==
  ASSUME IInv, [Next]_vars
  PROVE  TypeOK'
<1> USE DEF IInv, TypeOK
<1>1. CASE UNCHANGED vars
  BY <1>1 DEF vars, store
<1>2. ASSUME NEW t \in Targets, Damage(t)
      PROVE  TypeOK'
  <2>1. damages' \in Bytes /\ damages' \in 0 .. MaxDamage
    BY <1>2, BoundsAssumption DEF Damage, Bytes
  <2>2. record' \in [Records -> Files]
    BY <1>2, <2>1 DEF Damage, Files
  <2>3. manifest' \in Manifests
    BY <1>2, <2>1, ManifestForm DEF Damage
  <2> QED  BY <1>2, <2>1, <2>2, <2>3 DEF Damage
<1>3. ASSUME NEW p \in Procs, Crash(p) \/ TearLock(p) \/ Refused(p) \/ Release(p)
      PROVE  TypeOK'
  BY <1>3, ForgetType DEF Crash, TearLock, Refused, Release, store
<1>4. ASSUME NEW p \in Procs, NEW s \in Snapshots, BeginCapture(p, s)
      PROVE  TypeOK'
  BY <1>4 DEF BeginCapture, Goto, Stages, store
<1>5. ASSUME NEW p \in Procs, Acquire(p)
      PROVE  TypeOK'
  BY <1>5 DEF Acquire, Acquirable, Goto, Stages, store
<1>6. ASSUME NEW p \in Procs, ScanManifest(p)
      PROVE  TypeOK'
  BY <1>6 DEF ScanManifest, Goto, Stages, store, Views
<1>7. ASSUME NEW p \in Procs, ScanStep(p)
      PROVE  TypeOK'
  <2>1. obs[p] \in Views /\ obs[p].record \in [Records -> Files]
    BY DEF Views
  <2>2. /\ ScanFiles(Snapshots, obs[p].record) \in [Records -> Files]
        /\ ScanFiles(Evidence, obs[p].record) \in [Records -> Files]
    BY <2>1 DEF ScanFiles
  <2>3. ASSUME NEW seen \in [Records -> Files]
        PROVE  [obs EXCEPT ![p].record = seen] \in [Procs -> Views]
    BY <2>1, <2>3 DEF Views
  <2>4. ScanResidue(p) => obs' \in [Procs -> Views]
    BY <2>1 DEF ScanResidue, Views
  <2>5. ScanSnapshots(p) \/ ScanEvidence(p) => obs' \in [Procs -> Views]
    BY <2>2, <2>3 DEF ScanSnapshots, ScanEvidence
  <2> QED  BY <1>7, <2>3, <2>4, <2>5 DEF ScanStep, ScanSnapshots, ScanEvidence, ScanResidue, Goto, Stages, store
<1>8. ASSUME NEW p \in Procs, CaptureEnds(p) \/ CaptureRejected(p) \/ CaptureCleans(p)
      PROVE  TypeOK'
  BY <1>8 DEF CaptureEnds, CaptureRejected, CaptureCleans, Goto, Stages, store
<1>9. ASSUME NEW p \in Procs, CaptureCommits(p)
      PROVE  TypeOK'
  <2>1. sid[p] \in Snapshots /\ Refs[sid[p]] \in SUBSET Evidence
    BY <1>9, RefsAssumption DEF CaptureCommits, Goto, CaptureInv
  <2>2. manifest' \in Manifests
    BY <1>9, <2>1, ManifestForm, AppendHistory DEF CaptureCommits
  <2> QED  BY <1>9, <2>2 DEF CaptureCommits, Goto, Stages
<1>10. ASSUME NEW p \in Procs, NEW moved \in SUBSET Records, CaptureMoves(p, moved)
       PROVE  TypeOK'
  <2>1. sid[p] \in Snapshots /\ Bundle(p) \subseteq Records
    BY <1>10, RefsAssumption DEF CaptureMoves, Goto, CaptureInv, Bundle, Records
  <2> QED  BY <1>10, <2>1 DEF CaptureMoves, Goto, Stages, Files
<1>11. ASSUME NEW p \in Procs, RefuseStalePlan(p) \/ WriteReceipt(p) \/ ApplyFails(p)
       PROVE  TypeOK'
  BY <1>11 DEF RefuseStalePlan, WriteReceipt, ApplyFails, Goto, Stages, store
<1>12. ASSUME NEW p \in Procs, StartApply(p)
       PROVE  TypeOK'
  BY <1>12, PlannedBytes DEF StartApply, Goto, Stages, store
<1>13. ASSUME NEW p \in Procs, NEW t \in Targets, Preserve(p, t)
       PROVE  TypeOK'
  <2>1. BytesOf(t) \in Bytes
    BY <1>13, PlannedStillThere DEF Preserve
  <2> QED  BY <1>13, <2>1 DEF Preserve
<1>14. ASSUME NEW p \in Procs, NEW t \in Targets, Isolate(p, t)
       PROVE  TypeOK'
  <2>1. BytesOf(t) \in Bytes
    BY <1>14, PlannedStillThere DEF Isolate, PlanInv
  <2> QED  BY <1>14, <2>1, ManifestForm DEF Isolate, Removed, Files
<1>15. ASSUME NEW p \in Procs, Rebuild(p)
       PROVE  TypeOK'
  <2>1. Rebuilt(p) \in Manifests
    BY ManifestForm, KeptHistory DEF Rebuilt
  <2> QED  BY <1>15, <2>1 DEF Rebuild, Goto, Stages
<1> QED
  BY <1>1, <1>2, <1>3, <1>4, <1>5, <1>6, <1>7, <1>8, <1>9, <1>10, <1>11, <1>12, <1>13, <1>14,
     <1>15 DEF Next, Step, CaptureStep, ApplyStep

-----------------------------------------------------------------------------
(* A step that is not its own leaves a process where it is, and while the  *)
(* process holds the lock leaves it the store as well.                     *)
LEMMA Frame ==
  ASSUME IInv, [Next]_vars, NEW q \in Procs
  PROVE  \/ Step(q)
         \/ /\ pc'[q] = pc[q] /\ sid'[q] = sid[q] /\ obs'[q] = obs[q]
            /\ todo'[q] = todo[q] /\ confirmed'[q] = confirmed[q]
            /\ pc[q] \in Holding => UNCHANGED store
<1> DEFINE Still == /\ pc'[q] = pc[q] /\ sid'[q] = sid[q] /\ obs'[q] = obs[q]
                    /\ todo'[q] = todo[q] /\ confirmed'[q] = confirmed[q]
                    /\ pc[q] \in Holding => UNCHANGED store
<1> USE DEF IInv, TypeOK
<1>1. CASE UNCHANGED vars
  BY <1>1 DEF vars
<1>2. ASSUME NEW t \in Targets, Damage(t)
      PROVE  Still
  BY <1>2, LockAssumption DEF Damage, LockInv
<1>3. ASSUME NEW p \in Procs, p # q, Step(p)
      PROVE  Still
  <2>1. CASE Refused(p) \/ Release(p) \/ Crash(p) \/ TearLock(p)
    BY <1>3, <2>1 DEF Refused, Release, Crash, TearLock, Forget
  <2>2. CASE Acquire(p) \/ ScanManifest(p) \/ \E s \in Snapshots : BeginCapture(p, s)
    BY <1>3, <2>2 DEF Acquire, Acquirable, ScanManifest, BeginCapture, Goto
  <2>3. CASE ScanStep(p)
    BY <1>3, <2>3 DEF ScanStep, ScanSnapshots, ScanEvidence, ScanResidue, Goto
  <2>4. CASE CaptureStep(p)
    <3>1. pc[p] \in Holding
      BY <2>4 DEF CaptureStep, CaptureEnds, CaptureRejected, CaptureCommits, CaptureCleans,
                  CaptureMoves, Goto, Holding
    <3>2. pc[q] \notin Holding
      BY <1>3, <3>1, AloneWithTheLock
    <3>3. pc'[q] = pc[q] /\ UNCHANGED <<sid, obs, todo, confirmed>>
      BY <1>3, <2>4 DEF CaptureStep, CaptureEnds, CaptureRejected, CaptureCommits,
                        CaptureCleans, CaptureMoves, Goto
    <3> QED  BY <3>2, <3>3
  <2>5. CASE ApplyStep(p) \/ ApplyFails(p)
    <3>1. pc[p] \in Holding
      BY <2>5 DEF ApplyStep, ApplyFails, RefuseStalePlan, StartApply, Rebuild, WriteReceipt,
                  Preserve, Isolate, Goto, Holding
    <3>2. pc[q] \notin Holding
      BY <1>3, <3>1, AloneWithTheLock
    <3>3. pc'[q] = pc[q] /\ UNCHANGED <<sid, obs>>
      BY <1>3, <2>5 DEF ApplyStep, ApplyFails, RefuseStalePlan, StartApply, Rebuild,
                        WriteReceipt, Preserve, Isolate, Removed, Goto
    <3>4. todo'[q] = todo[q] /\ confirmed'[q] = confirmed[q]
      BY <1>3, <2>5 DEF ApplyStep, ApplyFails, RefuseStalePlan, StartApply, Rebuild,
                        WriteReceipt, Preserve, Isolate, Removed
    <3> QED  BY <3>2, <3>3, <3>4
  <2> QED  BY <1>3, <2>1, <2>2, <2>3, <2>4, <2>5 DEF Step
<1> QED
  BY <1>1, <1>2, <1>3 DEF Next

(* The lock is held exactly in the stages that need it, and a capture      *)
(* knows its snapshot.                                                     *)
LEMMA LockStep ==
  ASSUME IInv, [Next]_vars
  PROVE  LockInv' /\ CaptureInv'
<1> USE LockAssumption DEF IInv, TypeOK, LockInv, CaptureInv, Holding
<1>1. CASE UNCHANGED vars
  BY <1>1 DEF vars
<1>2. ASSUME NEW t \in Targets, Damage(t)
      PROVE  LockInv' /\ CaptureInv'
  BY <1>2 DEF Damage
<1>3. ASSUME NEW p \in Procs, Step(p)
      PROVE  LockInv' /\ CaptureInv'
  <2>1. CASE Refused(p) \/ Release(p) \/ Crash(p) \/ TearLock(p)
    BY <2>1 DEF Refused, Release, Crash, TearLock, Acquirable, Forget
  <2>2. CASE Acquire(p)
    BY <2>2 DEF Acquire, Acquirable, Goto
  <2>3. CASE ScanManifest(p) \/ \E s \in Snapshots : BeginCapture(p, s)
    BY <2>3 DEF ScanManifest, BeginCapture, Goto
  <2>4. CASE ScanStep(p)
    BY <2>4 DEF ScanStep, ScanSnapshots, ScanEvidence, ScanResidue, Goto
  <2>5. CASE CaptureStep(p)
    BY <2>5 DEF CaptureStep, CaptureEnds, CaptureRejected, CaptureCommits, CaptureCleans,
                CaptureMoves, Goto
  <2>6. CASE ApplyStep(p) \/ ApplyFails(p)
    BY <2>6 DEF ApplyStep, ApplyFails, RefuseStalePlan, StartApply, Rebuild, WriteReceipt,
                Preserve, Isolate, Removed, Goto
  <2> QED  BY <1>3, <2>1, <2>2, <2>3, <2>4, <2>5, <2>6 DEF Step
<1> QED
  BY <1>1, <1>2, <1>3 DEF Next

(* No repair removes bytes that are not in quarantine.                     *)
LEMMA OriginalsStep ==
  ASSUME IInv, [Next]_vars
  PROVE  OriginalsPreserved'
<1> USE DEF IInv, OriginalsPreserved
<1>1. CASE isolated' = isolated /\ quarantine \subseteq quarantine'
  BY <1>1
<1>2. ASSUME NEW p \in Procs, NEW t \in Targets, Isolate(p, t)
      PROVE  OriginalsPreserved'
  <2>1. pc[p] = "apply" /\ t \in confirmed[p] /\ t \in todo[p]
    BY <1>2 DEF Isolate, PlanInv
  <2>2. BytesOf(t) \in Bytes /\ <<t, BytesOf(t)>> \in quarantine
    BY <2>1, PlannedStillThere DEF PlanInv
  <2>3. isolated' = isolated \cup {<<t, BytesOf(t)>>} /\ quarantine' = quarantine
    BY <1>2 DEF Isolate, Removed
  <2> QED  BY <2>2, <2>3
<1>3. ASSUME ~ \E p \in Procs, t \in Targets : Isolate(p, t)
      PROVE  isolated' = isolated /\ quarantine \subseteq quarantine'
  <2>1. CASE UNCHANGED vars
    BY <2>1 DEF vars, store
  <2>2. ASSUME NEW t \in Targets, Damage(t)
        PROVE  isolated' = isolated /\ quarantine \subseteq quarantine'
    BY <2>2 DEF Damage
  <2>3. ASSUME NEW p \in Procs, Step(p)
        PROVE  isolated' = isolated /\ quarantine \subseteq quarantine'
    BY <1>3, <2>3
       DEF Step, Refused, Release, Crash, TearLock, Acquire, ScanManifest, BeginCapture, ScanStep,
           ScanSnapshots, ScanEvidence, ScanResidue, CaptureStep, CaptureEnds, CaptureRejected,
           CaptureCommits, CaptureCleans, CaptureMoves, ApplyStep, ApplyFails, RefuseStalePlan,
           StartApply, Rebuild, WriteReceipt, Preserve, store
  <2> QED  BY <2>1, <2>2, <2>3 DEF Next
<1> QED
  BY <1>1, <1>2, <1>3

-----------------------------------------------------------------------------
(* A file that is isolated joins what the plan has done: nothing else of   *)
(* the store moves.                                                        *)
LEMMA PlanRemoves ==
  ASSUME IInv, NEW p \in Procs, NEW t \in Targets, Isolate(p, t)
  PROVE  PlanInv(p)'
<1> USE DEF IInv, TypeOK, Isolate, Removed
<1>1. /\ pc[p] = "apply" /\ pc'[p] = "apply" /\ obs'[p] = obs[p]
      /\ t \in todo[p] /\ todo'[p] = todo[p] \ {t} /\ confirmed'[p] = {}
      /\ todo[p] \subseteq ToIsolate(obs[p])
  BY DEF PlanInv
<1>2. Done(p)' = Done(p) \cup {t}
  BY <1>1 DEF Done
<1>3. obs[p] \in Views /\ obs[p].record \in [Records -> Files]
  BY DEF Views
<1>4. /\ manifest = IF "manifest" \in Done(p) THEN Absent ELSE obs[p].manifest
      /\ record = [r \in Records |-> IF r \in Done(p) THEN Gone ELSE obs[p].record[r]]
  BY <1>1 DEF PlanInv
<1>5. "manifest" \notin Records
  BY NamesAssumption DEF Records
<1>6. /\ manifest' = IF "manifest" \in Done(p)' THEN Absent ELSE obs'[p].manifest
      /\ record' = [r \in Records |-> IF r \in Done(p)' THEN Gone ELSE obs'[p].record[r]]
  <2>1. CASE t = "manifest"
    <3>1. manifest' = Absent /\ record' = record
      BY <2>1
    <3>2. \A r \in Records : r \in Done(p)' <=> r \in Done(p)
      BY <1>2, <1>5, <2>1
    <3> QED  BY <1>1, <1>2, <1>4, <2>1, <3>1, <3>2
  <2>2. CASE t # "manifest"
    <3>1. t \in Records /\ manifest' = manifest /\ record' = [record EXCEPT ![t] = Gone]
      BY <2>2 DEF Targets
    <3>2. "manifest" \in Done(p)' <=> "manifest" \in Done(p)
      BY <1>2, <2>2
    <3> QED  BY <1>1, <1>2, <1>4, <3>1, <3>2
  <2> QED  BY <2>1, <2>2
<1> QED
  BY <1>1, <1>6 DEF PlanInv

(* What a process has done of its plan is all that has changed.            *)
LEMMA PlanStep ==
  ASSUME IInv, [Next]_vars, NEW q \in Procs
  PROVE  PlanInv(q)'
<1> USE DEF IInv, TypeOK
<1> DEFINE Plain == /\ confirmed'[q] \subseteq todo'[q]
                    /\ pc'[q] # "apply"
                    /\ pc'[q] # "release" => confirmed'[q] = {}
<1>1. CASE /\ pc'[q] = pc[q] /\ obs'[q] = obs[q]
           /\ todo'[q] = todo[q] /\ confirmed'[q] = confirmed[q]
           /\ pc[q] \in Holding => UNCHANGED store
  <2>1. CASE pc[q] = "apply"
    <3>1. UNCHANGED store
      BY <1>1, <2>1 DEF Holding
    <3> QED  BY <1>1, <2>1, <3>1 DEF PlanInv, Done, BytesOf, store
  <2> QED  BY <1>1, <2>1 DEF PlanInv
<1>2. CASE Refused(q) \/ Release(q) \/ Crash(q) \/ TearLock(q)
  BY <1>2 DEF Refused, Release, Crash, TearLock, Forget, PlanInv
<1>3. CASE Acquire(q) \/ ScanManifest(q) \/ \E s \in Snapshots : BeginCapture(q, s)
  BY <1>3 DEF Acquire, Acquirable, ScanManifest, BeginCapture, Goto, PlanInv
<1>4. CASE ScanStep(q)
  BY <1>4 DEF ScanStep, ScanSnapshots, ScanEvidence, ScanResidue, Goto, PlanInv
<1>5. CASE CaptureStep(q)
  BY <1>5 DEF CaptureStep, CaptureEnds, CaptureRejected, CaptureCommits, CaptureCleans,
              CaptureMoves, Goto, PlanInv
<1>6. CASE RefuseStalePlan(q) \/ Rebuild(q) \/ WriteReceipt(q) \/ ApplyFails(q)
  BY <1>6 DEF RefuseStalePlan, Rebuild, WriteReceipt, ApplyFails, Goto, PlanInv
<1>7. CASE StartApply(q)
  <2>1. /\ pc'[q] = "apply" /\ obs'[q] = obs[q] /\ confirmed'[q] = {}
        /\ todo'[q] = ToIsolate(obs[q]) /\ manifest' = manifest /\ record' = record
    BY <1>7 DEF StartApply, Goto, store, PlanInv
  <2>2. Done(q)' = {}
    BY <2>1 DEF Done
  <2>3. manifest = obs[q].manifest /\ record = obs[q].record
    BY <1>7 DEF StartApply, Fresh, View
  <2> QED  BY <2>1, <2>2, <2>3 DEF PlanInv
<1>8. ASSUME NEW t \in Targets, Preserve(q, t)
      PROVE  PlanInv(q)'
  BY <1>8 DEF Preserve, PlanInv, Done, BytesOf
<1>9. ASSUME NEW t \in Targets, Isolate(q, t)
      PROVE  PlanInv(q)'
  BY <1>9, PlanRemoves
<1> QED
  BY <1>1, <1>2, <1>3, <1>4, <1>5, <1>6, <1>7, <1>8, <1>9, Frame DEF Step, ApplyStep

(* A rebuilt manifest lists what verifies; one that needed no rebuild did  *)
(* already.                                                                *)
LEMMA RebuildVerifies ==
  ASSUME IInv, NEW p \in Procs, Rebuild(p)
  PROVE  Verifies'
<1> USE DEF IInv, TypeOK, Rebuild
<1>1. /\ pc[p] = "apply" /\ todo[p] = {} /\ record' = record
      /\ manifest = IF "manifest" \in Done(p) THEN Absent ELSE obs[p].manifest
      /\ record = [r \in Records |-> IF r \in Done(p) THEN Gone ELSE obs[p].record[r]]
  BY DEF Goto, PlanInv
<1>2. CASE manifest.is # "readable"
  BY <1>2 DEF Verifies
<1>3. CASE NeedsRebuild(obs[p]) /\ manifest.is = "readable"
  <2>1. manifest.history \in Histories
    BY ManifestForm
  <2>2. /\ manifest' = Rebuilt(p)
        /\ Listings(Rebuilt(p)) \subseteq {r \in Records : Survives(p, r)}
    BY <1>3, <2>1, KeptHistory, ManifestForm DEF Rebuilt, Listing, Listings, Records
  <2> QED  BY <1>1, <2>2 DEF Verifies, Survives
<1>4. CASE ~ NeedsRebuild(obs[p]) /\ manifest.is = "readable"
  <2>1. Done(p) = {} /\ Missing(obs[p]) = {} /\ ToIsolate(obs[p]) = {}
    BY <1>4 DEF NeedsRebuild, Done
  <2>2. manifest' = manifest /\ manifest = obs[p].manifest
    BY <1>1, <1>4, <2>1
  <2>3. obs[p] \in Views /\ obs[p].record \in [Records -> Files]
    BY DEF Views
  <2>4. record = obs[p].record
    BY <1>1, <2>1, <2>3
  <2>5. Listings(manifest) \subseteq Records
    <3>1. manifest.history \in Seq(Snapshots) /\ manifest.evidence \subseteq Evidence
      BY ManifestForm, HistoryForm
    <3> QED  BY <3>1 DEF Listings, ToSet, Records
  <2>6. \A r \in Listings(manifest) : record[r] \notin Bytes /\ record[r] # Gone
    BY <1>4, <2>1, <2>2, <2>4, <2>5 DEF Missing, ToIsolate
  <2> QED  BY <1>1, <2>2, <2>5, <2>6 DEF Verifies, Files
<1> QED
  BY <1>2, <1>3, <1>4

(* The rebuild is the only way to the receipt.                             *)
LEMMA OnlyRebuildEarnsIt ==
  ASSUME IInv, NEW q \in Procs, Step(q), pc'[q] = "receipt"
  PROVE  Rebuild(q)
BY DEF IInv, TypeOK, Step, Refused, Release, Crash, TearLock, Forget, Acquire, ScanManifest, BeginCapture,
       ScanStep, ScanSnapshots, ScanEvidence, ScanResidue, CaptureStep, CaptureEnds,
       CaptureRejected, CaptureCommits, CaptureCleans, CaptureMoves, ApplyStep, ApplyFails,
       RefuseStalePlan, StartApply, WriteReceipt, Preserve, Isolate, Removed, Goto

(* A receipt stays true while its writer holds the lock.                   *)
LEMMA ReceiptStep ==
  ASSUME IInv, [Next]_vars, NEW q \in Procs
  PROVE  ReceiptInv(q)'
<1> USE DEF IInv, TypeOK
<1>1. CASE pc'[q] = pc[q] /\ (pc[q] \in Holding => UNCHANGED store)
  BY <1>1 DEF ReceiptInv, Verifies, Holding, store
<1>2. CASE Step(q) /\ ~ Rebuild(q)
  BY <1>2, OnlyRebuildEarnsIt DEF ReceiptInv
<1>3. CASE Rebuild(q)
  BY <1>3, RebuildVerifies DEF ReceiptInv
<1> QED
  BY <1>1, <1>2, <1>3, Frame

-----------------------------------------------------------------------------
LEMMA InitInv == Init => IInv
<1> SUFFICES ASSUME Init PROVE IInv
  OBVIOUS
<1>1. TypeOK
  BY TypeInit
<1>2. LockInv
  BY LockAssumption DEF Init, LockInv, Holding
<1> QED
  BY <1>1, <1>2 DEF Init, IInv, OriginalsPreserved, CaptureInv, PlanInv, ReceiptInv

(* Every state has the types the model says and the relations the proofs   *)
(* rest on.                                                                *)
THEOREM Invariance == Spec => []IInv
<1>1. IInv /\ [Next]_vars => IInv'
  BY TypeStep, OriginalsStep, LockStep, PlanStep, ReceiptStep DEF IInv
<1> QED
  BY <1>1, InitInv, PTL DEF Spec

(* "There is no reachable stage where the original is gone and no readable *)
(* copy exists" (quarantineOneFile): whatever a repair has removed is in   *)
(* quarantine, byte for byte, and nothing it removed had verified.         *)
THEOREM NothingIsLost == Spec => []OriginalsPreserved
<1>1. IInv => OriginalsPreserved
  BY DEF IInv
<1> QED
  BY <1>1, Invariance, PTL

(* A repair that gets to its receipt leaves every record the manifest      *)
(* lists in place and verifying, although captures and damage came between *)
(* its scan and its apply.                                                 *)
THEOREM ReceiptsAreEarned == Spec => []ReceiptMeansVerified
<1>1. IInv => ReceiptMeansVerified
  BY DEF IInv, ReceiptMeansVerified, ReceiptInv
<1> QED
  BY <1>1, Invariance, PTL

(* "Chronology never regresses": the rebuild keeps each listed record that *)
(* verifies and the order of the snapshots.                                *)
LEMMA RebuildKeeps ==
  ASSUME IInv, NEW p \in Procs, Rebuild(p), manifest.is = "readable"
  PROVE  /\ {r \in Listings(manifest) : record[r] = Good} \subseteq Listings(manifest')
         /\ \A i, j \in DOMAIN manifest'.history : i < j =>
              \E k, l \in DOMAIN manifest.history :
                k < l /\ manifest.history[k] = manifest'.history[i]
                      /\ manifest.history[l] = manifest'.history[j]
<1>1. /\ manifest.history \in Histories /\ manifest.history \in Seq(Snapshots)
      /\ manifest.evidence \subseteq Evidence
  BY ManifestForm, HistoryForm DEF IInv, TypeOK
<1>2. CASE manifest' = manifest
  BY <1>2
<1>3. CASE manifest' = Rebuilt(p)
  <2> DEFINE good == {s \in Snapshots : Survives(p, s)}
  <2>1. /\ manifest'.history = Kept(manifest.history, good)
        /\ manifest'.evidence = {e \in manifest.evidence : Survives(p, e)}
    BY <1>3 DEF Rebuilt, Listing
  <2> HIDE DEF good
  <2> DEFINE kept == Kept(manifest.history, good)
  <2>2. ToSet(manifest'.history) = ToSet(manifest.history) \cap good
    BY <1>1, <2>1, KeptHistory
  <2>3. \A i, j \in DOMAIN manifest'.history : i < j =>
          \E k, l \in DOMAIN manifest.history :
            k < l /\ manifest.history[k] = manifest'.history[i]
                  /\ manifest.history[l] = manifest'.history[j]
    <3>1. \A i, j \in DOMAIN kept : i < j =>
            \E k, l \in DOMAIN manifest.history :
              k < l /\ manifest.history[k] = kept[i] /\ manifest.history[l] = kept[j]
      BY <1>1, KeptHistory
    <3> HIDE DEF kept
    <3>2. manifest'.history = kept
      BY <2>1 DEF kept
    <3> QED  BY <3>1, <3>2
  <2>4. ToSet(manifest.history) \subseteq Snapshots
    BY <1>1 DEF ToSet
  <2>5. {r \in Listings(manifest) : record[r] = Good} \subseteq Listings(manifest')
    BY <2>1, <2>2, <2>4 DEF Listings, Survives, good
  <2> QED  BY <2>3, <2>5
<1> QED
  BY <1>2, <1>3 DEF Rebuild

(* Every step that completes a rebuild keeps the good entries and their    *)
(* order.                                                                  *)
THEOREM RepairsKeepTheGood == Spec => RepairKeepsTheGood
<1>1. ASSUME IInv, [Next]_vars
      PROVE  [\A p \in Procs : Repairing(p) /\ manifest.is = "readable" =>
                /\ {r \in Listings(manifest) : record[r] = Good} \subseteq Listings(manifest')
                /\ \A i, j \in DOMAIN manifest'.history : i < j =>
                     \E k, l \in DOMAIN manifest.history :
                       k < l /\ manifest.history[k] = manifest'.history[i]
                             /\ manifest.history[l] = manifest'.history[j]]_vars
  <2>1. ASSUME NEW p \in Procs, Repairing(p) PROVE Rebuild(p)
    <3>1. pc[p] = "apply" /\ pc'[p] = "receipt"
      BY <2>1 DEF Repairing
    <3>2. Step(p)
      BY <1>1, <3>1, Frame
    <3> QED  BY <1>1, <3>1, <3>2, OnlyRebuildEarnsIt
  <2> QED  BY <1>1, <2>1, RebuildKeeps
<1> QED
  BY <1>1, Invariance, PTL DEF Spec, RepairKeepsTheGood
=============================================================================
