-------------------------- MODULE ProjectStoreProofs --------------------------
(* Theorems about ProjectStore and about ProjectStoreReaders, for every    *)
(* set of processes, snapshots and evidence, every citation relation,      *)
(* every limit and every bound on faults.                                  *)
EXTENDS ProjectStoreReaders, FiniteSetTheorems, TLAPS

(* Appending a snapshot to a chronology lists it and nothing else.         *)
LEMMA ListedAppend ==
  ASSUME NEW m \in Manifest, NEW n, NEW s \in Snapshots,
         n.history = Append(m.history, s)
  PROVE  Listed(n) = Listed(m) \cup {s}
<1> DEFINE h == m.history
<1>0. h \in Seq(Snapshots)
  BY DEF Manifest
<1>1. /\ DOMAIN Append(h, s) = 1 .. Len(h) + 1
      /\ DOMAIN h = 1 .. Len(h)
      /\ Len(h) \in Nat
      /\ Append(h, s)[Len(h) + 1] = s
      /\ \A i \in 1 .. Len(h) : Append(h, s)[i] = h[i]
  BY <1>0
<1> HIDE DEF h
<1>2. {Append(h, s)[i] : i \in DOMAIN Append(h, s)} = {h[i] : i \in DOMAIN h} \cup {s}
  BY <1>1
<1>3. QED
  BY <1>2 DEF Listed, h

(* What the commit point does to the manifest: the manifest built from the *)
(* one read under the lock is built from the current one.                  *)
LEMMA WrittenManifest ==
  ASSUME TypeOK, BundleInv, BaseInv, NEW p \in Procs, WriteManifest(p)
  PROVE  /\ sid[p] \in Snapshots
         /\ base[p] = manifest
         /\ Listed(manifest') = Listed(manifest) \cup {sid[p]}
         /\ manifest'.evidence = manifest.evidence \cup Bundle(p)
<1>1. sid[p] \in Snapshots /\ base[p] = manifest
  BY DEF WriteManifest, NextManifest, Goto, BundleInv, BaseInv, Committing
<1>2. /\ manifest'.history = Append(manifest.history, sid[p])
      /\ manifest'.evidence = manifest.evidence \cup Bundle(p)
  BY <1>1 DEF WriteManifest, NextManifest
<1>3. manifest \in Manifest
  BY DEF TypeOK
<1>4. QED
  BY <1>1, <1>2, <1>3, ListedAppend

LEMMA NoListed == Listed(NoManifest) = {}
  BY DEF Listed, NoManifest

LEMMA InitType == Init => TypeOK
<1> SUFFICES ASSUME Init PROVE TypeOK
  OBVIOUS
<1>1. /\ manifest \in Manifest
      /\ base \in [Procs -> Manifest]
  BY DEF Init, Manifest, NoManifest
<1>2. /\ snaps \in SUBSET Snapshots
      /\ acked \in SUBSET Snapshots
      /\ dir \in BOOLEAN
      /\ lock \in Procs \cup {Free, DeadOwner, TornLock}
      /\ overtaken \in SUBSET Procs
  BY DEF Init
<1>3. /\ evs \in [Evidence -> Snapshots \cup {None}]
      /\ stagingDir \in BOOLEAN
      /\ stagedSnap \in SUBSET Snapshots
      /\ stagedEvs \in [Evidence -> Snapshots \cup {None}]
  BY DEF Init, NoEvidence
<1>4. /\ pc \in [Procs -> Stages]
      /\ outcome \in [Procs -> Outcomes]
  BY DEF Init, Stages, Outcomes
<1>5. /\ sid \in [Procs -> Snapshots \cup {None}]
      /\ ev \in [Procs -> [Evidence -> Snapshots \cup {None}]]
      /\ todo \in [Procs -> SUBSET Evidence]
  BY DEF Init, NoEvidence
<1>6. QED
  BY <1>1, <1>2, <1>3, <1>4, <1>5 DEF TypeOK

(* Every step keeps every variable in its type.  The bundle invariant is   *)
(* needed: a process that stages a snapshot has one.                       *)
LEMMA TypeStep ==
  ASSUME TypeOK, BundleInv, OutcomeInv, [Next]_vars
  PROVE  TypeOK'
<1> USE DEF TypeOK, Stages, Outcomes, Goto, Finish, Forget, disk, staging, past
<1>1. ASSUME NEW p \in Procs, NEW s \in Snapshots, NEW E \in SUBSET Refs[s],
             BeginCapture(p, s, E)
      PROVE  TypeOK'
  BY <1>1 DEF BeginCapture
<1>2. ASSUME NEW p \in Procs, ReadInventory(p) PROVE TypeOK'
  BY <1>2 DEF ReadInventory, Reading, Bundle
<1>3. ASSUME NEW p \in Procs, NEW e \in Evidence, ReuseEvidence(p, e)
      PROVE  TypeOK'
  BY <1>3 DEF ReuseEvidence, Reading
<1>4. ASSUME NEW p \in Procs, Acquire(p) PROVE TypeOK'
  BY <1>4 DEF Acquire, Acquirable
<1>5. ASSUME NEW p \in Procs, Refused(p) PROVE TypeOK'
  BY <1>5 DEF Refused, NoEvidence, NoManifest, Manifest
<1>6. ASSUME NEW p \in Procs, Release(p) PROVE TypeOK'
  <2>1. Listed(manifest) \subseteq Snapshots
    BY DEF Listed, Manifest
  <2>2. outcome[p] \in Success => sid[p] \in Snapshots
    BY <1>6, <2>1 DEF Release, OutcomeInv
  <2>3. acked' \in SUBSET Snapshots
    BY <1>6, <2>2 DEF Release
  <2>4. QED
    BY <1>6, <2>3 DEF Release, NoEvidence, NoManifest, Manifest
<1>7. ASSUME NEW p \in Procs, CheckRejects(p) \/ CheckIdempotent(p) \/ CheckProceeds(p)
      PROVE  TypeOK'
  <2>1. CASE CheckRejects(p)
    BY <2>1 DEF CheckRejects, Rejections
  <2>2. CASE CheckIdempotent(p)
    BY <2>2 DEF CheckIdempotent
  <2>3. CASE CheckProceeds(p)
    BY <2>3 DEF CheckProceeds
  <2>4. QED
    BY <1>7, <2>1, <2>2, <2>3
<1>8. ASSUME NEW p \in Procs, MakeDirectories(p) \/ AllStaged(p) \/ AllMoved(p)
      PROVE  TypeOK'
  BY <1>8 DEF MakeDirectories, AllStaged, AllMoved
<1>9. ASSUME NEW p \in Procs, StageSnapshot(p) PROVE TypeOK'
  BY <1>9 DEF StageSnapshot, Bundle, BundleInv, Committing
<1>10. ASSUME NEW p \in Procs, NEW e \in Evidence, StageEvidence(p, e) PROVE TypeOK'
  BY <1>10 DEF StageEvidence
<1>11. ASSUME NEW p \in Procs, MoveSnapshot(p) PROVE TypeOK'
  BY <1>11 DEF MoveSnapshot, Bundle, BundleInv, Committing
<1>12. ASSUME NEW p \in Procs, NEW e \in Evidence, MoveEvidence(p, e) PROVE TypeOK'
  BY <1>12 DEF MoveEvidence
<1>13. ASSUME NEW p \in Procs, BuildRejects(p) \/ RemoveStaging(p) PROVE TypeOK'
  BY <1>13 DEF BuildRejects, RemoveStaging, StagingRemoved, NoEvidence
<1>14. ASSUME NEW p \in Procs, WriteManifest(p) PROVE TypeOK'
  BY <1>14 DEF WriteManifest, Overtake, NextManifest, Manifest, Bundle, BundleInv, Committing
<1>15. ASSUME NEW p \in Procs, BeginDelete(p) \/ VerifyForDelete(p) \/ RemoveTombstone(p)
       PROVE  TypeOK'
  BY <1>15 DEF BeginDelete, VerifyForDelete, RemoveTombstone
<1>16. ASSUME NEW p \in Procs, MoveToTombstone(p) PROVE TypeOK'
  <2>1. CASE dir
    <3>1. /\ manifest' = NoManifest /\ evs' = NoEvidence /\ stagedEvs' = NoEvidence
          /\ snaps' = {} /\ stagedSnap' = {} /\ acked' = {}
          /\ stagingDir' = FALSE /\ dir' = FALSE /\ overtaken' \in SUBSET Procs
      BY <1>16, <2>1 DEF MoveToTombstone, StagingRemoved, Overtake
    <3>2. NoManifest \in Manifest
      BY DEF NoManifest, Manifest
    <3>3. NoEvidence \in [Evidence -> Snapshots \cup {None}]
      BY DEF NoEvidence
    <3>4. QED
      BY <1>16, <2>1, <3>1, <3>2, <3>3 DEF MoveToTombstone
  <2>2. CASE ~ dir
    BY <1>16, <2>2 DEF MoveToTombstone, past
  <2>3. QED
    BY <2>1, <2>2
<1>17. ASSUME NEW p \in Procs, Fail(p) PROVE TypeOK'
  BY <1>17 DEF Fail
<1>18. ASSUME NEW p \in Procs, Crash(p) PROVE TypeOK'
  BY <1>18 DEF Crash, NoEvidence, NoManifest, Manifest
<1>19. ASSUME NEW p \in Procs, TearLock(p) PROVE TypeOK'
  BY <1>19 DEF TearLock, NoEvidence, NoManifest, Manifest
<1>20. CASE UNCHANGED vars
  BY <1>20 DEF vars, local
<1>21. QED
  BY <1>1, <1>2, <1>3, <1>4, <1>5, <1>6, <1>7, <1>8, <1>9, <1>10, <1>11, <1>12,
     <1>13, <1>14, <1>15, <1>16, <1>17, <1>18, <1>19, <1>20
     DEF Next, Capture, LockStep, CommitStep, DeleteStep, Fault

(* Who is in the locked section owns the lock, and nobody else does.       *)
LEMMA LockStepInv ==
  ASSUME TypeOK, LockInv, [Next]_vars
  PROVE  LockInv'
<1> USE LockAssumption DEF TypeOK, LockInv, Locked, Goto, Finish, Forget
<1>1. ASSUME NEW p \in Procs, NEW s \in Snapshots, NEW E \in SUBSET Refs[s],
             BeginCapture(p, s, E)
      PROVE  LockInv'
  BY <1>1 DEF BeginCapture
<1>2. ASSUME NEW p \in Procs, ReadInventory(p) PROVE LockInv'
  BY <1>2 DEF ReadInventory, Reading
<1>3. ASSUME NEW p \in Procs, NEW e \in Evidence, ReuseEvidence(p, e)
      PROVE LockInv'
  BY <1>3 DEF ReuseEvidence, Reading
<1>4. ASSUME NEW p \in Procs, Acquire(p) PROVE LockInv'
  BY <1>4 DEF Acquire, Acquirable
<1>5. ASSUME NEW p \in Procs, Refused(p) PROVE LockInv'
  BY <1>5 DEF Refused
<1>6. ASSUME NEW p \in Procs, Release(p) PROVE LockInv'
  BY <1>6 DEF Release
<1>7. ASSUME NEW p \in Procs, CheckRejects(p) PROVE LockInv'
  BY <1>7 DEF CheckRejects, Rejections
<1>8. ASSUME NEW p \in Procs, CheckIdempotent(p) PROVE LockInv'
  BY <1>8 DEF CheckIdempotent
<1>9. ASSUME NEW p \in Procs, CheckProceeds(p) PROVE LockInv'
  BY <1>9 DEF CheckProceeds
<1>10. ASSUME NEW p \in Procs, MakeDirectories(p) PROVE LockInv'
  BY <1>10 DEF MakeDirectories
<1>11. ASSUME NEW p \in Procs, StageSnapshot(p) PROVE LockInv'
  BY <1>11 DEF StageSnapshot
<1>12. ASSUME NEW p \in Procs, NEW e \in Evidence, StageEvidence(p, e)
      PROVE  LockInv'
  BY <1>12 DEF StageEvidence
<1>13. ASSUME NEW p \in Procs, AllStaged(p) PROVE LockInv'
  BY <1>13 DEF AllStaged
<1>14. ASSUME NEW p \in Procs, MoveSnapshot(p) PROVE LockInv'
  BY <1>14 DEF MoveSnapshot
<1>15. ASSUME NEW p \in Procs, NEW e \in Evidence, MoveEvidence(p, e)
      PROVE  LockInv'
  BY <1>15 DEF MoveEvidence
<1>16. ASSUME NEW p \in Procs, AllMoved(p) PROVE LockInv'
  BY <1>16 DEF AllMoved
<1>17. ASSUME NEW p \in Procs, BuildRejects(p) PROVE LockInv'
  BY <1>17 DEF BuildRejects
<1>18. ASSUME NEW p \in Procs, WriteManifest(p) PROVE LockInv'
  BY <1>18 DEF WriteManifest, NextManifest
<1>19. ASSUME NEW p \in Procs, RemoveStaging(p) PROVE LockInv'
  BY <1>19 DEF RemoveStaging
<1>20. ASSUME NEW p \in Procs, BeginDelete(p) PROVE LockInv'
  BY <1>20 DEF BeginDelete
<1>21. ASSUME NEW p \in Procs, VerifyForDelete(p) PROVE LockInv'
  BY <1>21 DEF VerifyForDelete
<1>22. ASSUME NEW p \in Procs, MoveToTombstone(p) PROVE LockInv'
  BY <1>22 DEF MoveToTombstone
<1>23. ASSUME NEW p \in Procs, RemoveTombstone(p) PROVE LockInv'
  BY <1>23 DEF RemoveTombstone
<1>24. ASSUME NEW p \in Procs, Fail(p) PROVE LockInv'
  BY <1>24 DEF Fail
<1>25. ASSUME NEW p \in Procs, Crash(p) PROVE LockInv'
  BY <1>25 DEF Crash
<1>26. ASSUME NEW p \in Procs, TearLock(p) PROVE LockInv'
  BY <1>26 DEF TearLock, Acquirable
<1>27. CASE UNCHANGED vars
  BY <1>27 DEF vars, local, disk, staging
<1>28. QED
  BY <1>1, <1>2, <1>3, <1>4, <1>5, <1>6, <1>7, <1>8, <1>9, <1>10, <1>11, <1>12, <1>13, <1>14, <1>15, <1>16, <1>17, <1>18, <1>19, <1>20, <1>21, <1>22, <1>23, <1>24, <1>25, <1>26, <1>27
     DEF Next, Capture, LockStep, CommitStep, DeleteStep, Fault

(* A capture has a snapshot and submits evidence that snapshot cites.      *)
LEMMA BundleStep ==
  ASSUME TypeOK, BundleInv, [Next]_vars
  PROVE  BundleInv'
<1> USE NoneAssumption DEF TypeOK, BundleInv, Bundle, Committing, Goto, Finish, Forget, NoEvidence
<1>1. ASSUME NEW p \in Procs, NEW s \in Snapshots, NEW E \in SUBSET Refs[s],
             BeginCapture(p, s, E)
      PROVE  BundleInv'
  BY <1>1 DEF BeginCapture
<1>2. ASSUME NEW p \in Procs, ReadInventory(p) PROVE BundleInv'
  BY <1>2 DEF ReadInventory, Reading
<1>3. ASSUME NEW p \in Procs, NEW e \in Evidence, ReuseEvidence(p, e)
      PROVE BundleInv'
  BY <1>3 DEF ReuseEvidence, Reading
<1>4. ASSUME NEW p \in Procs, Acquire(p) PROVE BundleInv'
  BY <1>4 DEF Acquire, Acquirable
<1>5. ASSUME NEW p \in Procs, Refused(p) PROVE BundleInv'
  BY <1>5 DEF Refused
<1>6. ASSUME NEW p \in Procs, Release(p) PROVE BundleInv'
  BY <1>6 DEF Release
<1>7. ASSUME NEW p \in Procs, CheckRejects(p) PROVE BundleInv'
  BY <1>7 DEF CheckRejects, Rejections
<1>8. ASSUME NEW p \in Procs, CheckIdempotent(p) PROVE BundleInv'
  BY <1>8 DEF CheckIdempotent
<1>9. ASSUME NEW p \in Procs, CheckProceeds(p) PROVE BundleInv'
  BY <1>9 DEF CheckProceeds
<1>10. ASSUME NEW p \in Procs, MakeDirectories(p) PROVE BundleInv'
  BY <1>10 DEF MakeDirectories
<1>11. ASSUME NEW p \in Procs, StageSnapshot(p) PROVE BundleInv'
  BY <1>11 DEF StageSnapshot
<1>12. ASSUME NEW p \in Procs, NEW e \in Evidence, StageEvidence(p, e)
      PROVE  BundleInv'
  BY <1>12 DEF StageEvidence
<1>13. ASSUME NEW p \in Procs, AllStaged(p) PROVE BundleInv'
  BY <1>13 DEF AllStaged
<1>14. ASSUME NEW p \in Procs, MoveSnapshot(p) PROVE BundleInv'
  BY <1>14 DEF MoveSnapshot
<1>15. ASSUME NEW p \in Procs, NEW e \in Evidence, MoveEvidence(p, e)
      PROVE  BundleInv'
  BY <1>15 DEF MoveEvidence
<1>16. ASSUME NEW p \in Procs, AllMoved(p) PROVE BundleInv'
  BY <1>16 DEF AllMoved
<1>17. ASSUME NEW p \in Procs, BuildRejects(p) PROVE BundleInv'
  BY <1>17 DEF BuildRejects
<1>18. ASSUME NEW p \in Procs, WriteManifest(p) PROVE BundleInv'
  BY <1>18 DEF WriteManifest, NextManifest
<1>19. ASSUME NEW p \in Procs, RemoveStaging(p) PROVE BundleInv'
  BY <1>19 DEF RemoveStaging
<1>20. ASSUME NEW p \in Procs, BeginDelete(p) PROVE BundleInv'
  BY <1>20 DEF BeginDelete
<1>21. ASSUME NEW p \in Procs, VerifyForDelete(p) PROVE BundleInv'
  BY <1>21 DEF VerifyForDelete
<1>22. ASSUME NEW p \in Procs, MoveToTombstone(p) PROVE BundleInv'
  BY <1>22 DEF MoveToTombstone
<1>23. ASSUME NEW p \in Procs, RemoveTombstone(p) PROVE BundleInv'
  BY <1>23 DEF RemoveTombstone
<1>24. ASSUME NEW p \in Procs, Fail(p) PROVE BundleInv'
  BY <1>24 DEF Fail
<1>25. ASSUME NEW p \in Procs, Crash(p) PROVE BundleInv'
  BY <1>25 DEF Crash
<1>26. ASSUME NEW p \in Procs, TearLock(p) PROVE BundleInv'
  BY <1>26 DEF TearLock, Acquirable
<1>27. CASE UNCHANGED vars
  BY <1>27 DEF vars, local, disk, staging
<1>28. QED
  BY <1>1, <1>2, <1>3, <1>4, <1>5, <1>6, <1>7, <1>8, <1>9, <1>10, <1>11, <1>12, <1>13, <1>14, <1>15, <1>16, <1>17, <1>18, <1>19, <1>20, <1>21, <1>22, <1>23, <1>24, <1>25, <1>26, <1>27
     DEF Next, Capture, LockStep, CommitStep, DeleteStep, Fault

(* What a capture re-uses stays what is stored until it is overtaken, so   *)
(* that under the lock it conflicts with nothing.                          *)
LEMMA ReuseStep ==
  ASSUME TypeOK, LockInv, BundleInv, OutcomeInv, RecordsBeforeManifest, ReuseInv, [Next]_vars
  PROVE  ReuseInv'
<1> USE DEF TypeOK, ReuseInv, Known, Conflicting, Bundle, Goto, Finish, Forget, disk, past
<1>1. ASSUME NEW p \in Procs, NEW s \in Snapshots, NEW E \in SUBSET Refs[s],
             BeginCapture(p, s, E)
      PROVE  ReuseInv'
  BY <1>1 DEF BeginCapture
<1>2. ASSUME NEW p \in Procs, ReadInventory(p) PROVE ReuseInv'
  BY <1>2 DEF ReadInventory, Reading
<1>3. ASSUME NEW p \in Procs, NEW e \in Evidence, ReuseEvidence(p, e)
      PROVE  ReuseInv'
  BY <1>3 DEF ReuseEvidence, Reading, BundleInv
<1>4. ASSUME NEW p \in Procs, Acquire(p) PROVE ReuseInv'
  BY <1>4 DEF Acquire
<1>5. ASSUME NEW p \in Procs, Refused(p) \/ Crash(p) \/ TearLock(p) PROVE ReuseInv'
  BY <1>5 DEF Refused, Crash, TearLock
<1>6. ASSUME NEW p \in Procs, Release(p) PROVE ReuseInv'
  BY <1>6 DEF Release
<1>7. ASSUME NEW p \in Procs, CheckRejects(p) PROVE ReuseInv'
  BY <1>7 DEF CheckRejects, Rejections
<1>8. ASSUME NEW p \in Procs, NEW e \in Evidence, StageEvidence(p, e)
      PROVE  ReuseInv'
  BY <1>8 DEF StageEvidence
<1>9. ASSUME NEW p \in Procs, NEW e \in Evidence, MoveEvidence(p, e)
      PROVE  ReuseInv'
  BY <1>9 DEF MoveEvidence, RecordsBeforeManifest, Verifies
<1>10. ASSUME NEW p \in Procs, WriteManifest(p) PROVE ReuseInv'
  BY <1>10 DEF WriteManifest, Overtake
<1>11. ASSUME NEW p \in Procs, MoveToTombstone(p) PROVE ReuseInv'
  BY <1>11 DEF MoveToTombstone, Overtake
<1>12. ASSUME NEW p \in Procs, CheckIdempotent(p) PROVE ReuseInv'
  BY <1>12 DEF CheckIdempotent
<1>13. ASSUME NEW p \in Procs, CheckProceeds(p) PROVE ReuseInv'
  BY <1>13 DEF CheckProceeds
<1>14. ASSUME NEW p \in Procs, MakeDirectories(p) PROVE ReuseInv'
  BY <1>14 DEF MakeDirectories
<1>15. ASSUME NEW p \in Procs, StageSnapshot(p) PROVE ReuseInv'
  BY <1>15 DEF StageSnapshot
<1>16. ASSUME NEW p \in Procs, AllStaged(p) PROVE ReuseInv'
  BY <1>16 DEF AllStaged
<1>17. ASSUME NEW p \in Procs, MoveSnapshot(p) PROVE ReuseInv'
  BY <1>17 DEF MoveSnapshot
<1>18. ASSUME NEW p \in Procs, AllMoved(p) PROVE ReuseInv'
  BY <1>18 DEF AllMoved
<1>19. ASSUME NEW p \in Procs, BuildRejects(p) PROVE ReuseInv'
  BY <1>19 DEF BuildRejects
<1>20. ASSUME NEW p \in Procs, RemoveStaging(p) PROVE ReuseInv'
  BY <1>20 DEF RemoveStaging, OutcomeInv, Success
<1>21. ASSUME NEW p \in Procs, BeginDelete(p) PROVE ReuseInv'
  BY <1>21 DEF BeginDelete
<1>22. ASSUME NEW p \in Procs, VerifyForDelete(p) PROVE ReuseInv'
  BY <1>22 DEF VerifyForDelete
<1>23. ASSUME NEW p \in Procs, RemoveTombstone(p) PROVE ReuseInv'
  BY <1>23 DEF RemoveTombstone
<1>24. ASSUME NEW p \in Procs, Fail(p) PROVE ReuseInv'
  BY <1>24 DEF Fail
<1>25. CASE UNCHANGED vars
  BY <1>25 DEF vars, local
<1>26. QED
  BY <1>1, <1>2, <1>3, <1>4, <1>5, <1>6, <1>7, <1>8, <1>9, <1>10, <1>11, <1>12, <1>13, <1>14, <1>15, <1>16, <1>17, <1>18, <1>19, <1>20, <1>21, <1>22, <1>23, <1>24, <1>25
     DEF Next, Capture, LockStep, CommitStep, DeleteStep, Fault

(* The manifest a commit started from is still the current one: nobody else*)
(* can be between its checks and its commit point.                         *)
LEMMA BaseStep ==
  ASSUME TypeOK, LockInv, BundleInv, BaseInv, InventoryIsCited, [Next]_vars
  PROVE  BaseInv'
<1> USE NoneAssumption DEF TypeOK, LockInv, BaseInv, Locked, Committing, Goto, Finish, Forget, disk, Bundle
<1>1. ASSUME NEW p \in Procs, NEW s \in Snapshots, NEW E \in SUBSET Refs[s],
             BeginCapture(p, s, E)
      PROVE  BaseInv'
  BY <1>1 DEF BeginCapture
<1>2. ASSUME NEW p \in Procs, ReadInventory(p) PROVE BaseInv'
  BY <1>2 DEF ReadInventory, Reading
<1>3. ASSUME NEW p \in Procs, NEW e \in Evidence, ReuseEvidence(p, e)
      PROVE BaseInv'
  BY <1>3 DEF ReuseEvidence, Reading
<1>4. ASSUME NEW p \in Procs, Acquire(p) PROVE BaseInv'
  BY <1>4 DEF Acquire, Acquirable
<1>5. ASSUME NEW p \in Procs, Refused(p) PROVE BaseInv'
  BY <1>5 DEF Refused
<1>6. ASSUME NEW p \in Procs, Release(p) PROVE BaseInv'
  BY <1>6 DEF Release
<1>7. ASSUME NEW p \in Procs, CheckRejects(p) PROVE BaseInv'
  BY <1>7 DEF CheckRejects, Rejections
<1>8. ASSUME NEW p \in Procs, CheckIdempotent(p) PROVE BaseInv'
  BY <1>8 DEF CheckIdempotent
<1>9. ASSUME NEW p \in Procs, CheckProceeds(p) PROVE BaseInv'
  <2>1. sid[p] \in Snapshots /\ Bundle(p) \subseteq Refs[sid[p]]
    BY <1>9 DEF CheckProceeds, BundleInv
  <2>2. sid[p] \notin Listed(manifest)
    BY <1>9, <2>1 DEF CheckProceeds, AlreadyCommitted, InventoryIsCited
  <2>3. Refs[sid[p]] \subseteq Bundle(p) \cup manifest.evidence
    BY <1>9 DEF CheckProceeds, Reconciled, Rejections, UnknownRefs
  <2>4. QED
    BY <1>9, <2>2, <2>3 DEF CheckProceeds
<1>10. ASSUME NEW p \in Procs, MakeDirectories(p) PROVE BaseInv'
  BY <1>10 DEF MakeDirectories
<1>11. ASSUME NEW p \in Procs, StageSnapshot(p) PROVE BaseInv'
  BY <1>11 DEF StageSnapshot
<1>12. ASSUME NEW p \in Procs, NEW e \in Evidence, StageEvidence(p, e)
      PROVE  BaseInv'
  BY <1>12 DEF StageEvidence
<1>13. ASSUME NEW p \in Procs, AllStaged(p) PROVE BaseInv'
  BY <1>13 DEF AllStaged
<1>14. ASSUME NEW p \in Procs, MoveSnapshot(p) PROVE BaseInv'
  BY <1>14 DEF MoveSnapshot
<1>15. ASSUME NEW p \in Procs, NEW e \in Evidence, MoveEvidence(p, e)
      PROVE  BaseInv'
  BY <1>15 DEF MoveEvidence
<1>16. ASSUME NEW p \in Procs, AllMoved(p) PROVE BaseInv'
  BY <1>16 DEF AllMoved
<1>17. ASSUME NEW p \in Procs, BuildRejects(p) PROVE BaseInv'
  BY <1>17 DEF BuildRejects
<1>18. ASSUME NEW p \in Procs, WriteManifest(p) PROVE BaseInv'
  BY <1>18 DEF WriteManifest, NextManifest
<1>19. ASSUME NEW p \in Procs, RemoveStaging(p) PROVE BaseInv'
  BY <1>19 DEF RemoveStaging
<1>20. ASSUME NEW p \in Procs, BeginDelete(p) PROVE BaseInv'
  BY <1>20 DEF BeginDelete
<1>21. ASSUME NEW p \in Procs, VerifyForDelete(p) PROVE BaseInv'
  BY <1>21 DEF VerifyForDelete
<1>22. ASSUME NEW p \in Procs, MoveToTombstone(p) PROVE BaseInv'
  BY <1>22 DEF MoveToTombstone
<1>23. ASSUME NEW p \in Procs, RemoveTombstone(p) PROVE BaseInv'
  BY <1>23 DEF RemoveTombstone
<1>24. ASSUME NEW p \in Procs, Fail(p) PROVE BaseInv'
  BY <1>24 DEF Fail
<1>25. ASSUME NEW p \in Procs, Crash(p) PROVE BaseInv'
  BY <1>25 DEF Crash
<1>26. ASSUME NEW p \in Procs, TearLock(p) PROVE BaseInv'
  BY <1>26 DEF TearLock, Acquirable
<1>27. CASE UNCHANGED vars
  BY <1>27 DEF vars, local, disk, staging
<1>28. QED
  BY <1>1, <1>2, <1>3, <1>4, <1>5, <1>6, <1>7, <1>8, <1>9, <1>10, <1>11, <1>12, <1>13, <1>14, <1>15, <1>16, <1>17, <1>18, <1>19, <1>20, <1>21, <1>22, <1>23, <1>24, <1>25, <1>26, <1>27
     DEF Next, Capture, LockStep, CommitStep, DeleteStep, Fault

(* Record by record, what has been staged and what has been moved.         *)
LEMMA StagedStep ==
  ASSUME TypeOK, LockInv, BundleInv, StagedInv, [Next]_vars
  PROVE  StagedInv'
<1> USE NoneAssumption DEF TypeOK, LockInv, StagedInv, Locked, Committing, Goto, Finish, Forget, disk, staging, Bundle
<1>1. ASSUME NEW p \in Procs, NEW s \in Snapshots, NEW E \in SUBSET Refs[s],
             BeginCapture(p, s, E)
      PROVE  StagedInv'
  BY <1>1 DEF BeginCapture
<1>2. ASSUME NEW p \in Procs, ReadInventory(p) PROVE StagedInv'
  BY <1>2 DEF ReadInventory, Reading
<1>3. ASSUME NEW p \in Procs, NEW e \in Evidence, ReuseEvidence(p, e)
      PROVE StagedInv'
  BY <1>3 DEF ReuseEvidence, Reading
<1>4. ASSUME NEW p \in Procs, Acquire(p) PROVE StagedInv'
  BY <1>4 DEF Acquire, Acquirable
<1>5. ASSUME NEW p \in Procs, Refused(p) PROVE StagedInv'
  BY <1>5 DEF Refused
<1>6. ASSUME NEW p \in Procs, Release(p) PROVE StagedInv'
  BY <1>6 DEF Release
<1>7. ASSUME NEW p \in Procs, CheckRejects(p) PROVE StagedInv'
  BY <1>7 DEF CheckRejects, Rejections
<1>8. ASSUME NEW p \in Procs, CheckIdempotent(p) PROVE StagedInv'
  BY <1>8 DEF CheckIdempotent
<1>9. ASSUME NEW p \in Procs, CheckProceeds(p) PROVE StagedInv'
  BY <1>9 DEF CheckProceeds
<1>10. ASSUME NEW p \in Procs, MakeDirectories(p) PROVE StagedInv'
  BY <1>10 DEF MakeDirectories
<1>11. ASSUME NEW p \in Procs, StageSnapshot(p) PROVE StagedInv'
  BY <1>11 DEF StageSnapshot, BundleInv
<1>12. ASSUME NEW p \in Procs, NEW e \in Evidence, StageEvidence(p, e)
      PROVE  StagedInv'
  BY <1>12 DEF StageEvidence, BundleInv
<1>13. ASSUME NEW p \in Procs, AllStaged(p) PROVE StagedInv'
  BY <1>13 DEF AllStaged
<1>14. ASSUME NEW p \in Procs, MoveSnapshot(p) PROVE StagedInv'
  BY <1>14 DEF MoveSnapshot, BundleInv
<1>15. ASSUME NEW p \in Procs, NEW e \in Evidence, MoveEvidence(p, e)
      PROVE  StagedInv'
  BY <1>15 DEF MoveEvidence, BundleInv
<1>16. ASSUME NEW p \in Procs, AllMoved(p) PROVE StagedInv'
  BY <1>16 DEF AllMoved
<1>17. ASSUME NEW p \in Procs, BuildRejects(p) PROVE StagedInv'
  BY <1>17 DEF BuildRejects
<1>18. ASSUME NEW p \in Procs, WriteManifest(p) PROVE StagedInv'
  BY <1>18 DEF WriteManifest, NextManifest
<1>19. ASSUME NEW p \in Procs, RemoveStaging(p) PROVE StagedInv'
  BY <1>19 DEF RemoveStaging
<1>20. ASSUME NEW p \in Procs, BeginDelete(p) PROVE StagedInv'
  BY <1>20 DEF BeginDelete
<1>21. ASSUME NEW p \in Procs, VerifyForDelete(p) PROVE StagedInv'
  BY <1>21 DEF VerifyForDelete
<1>22. ASSUME NEW p \in Procs, MoveToTombstone(p) PROVE StagedInv'
  BY <1>22 DEF MoveToTombstone
<1>23. ASSUME NEW p \in Procs, RemoveTombstone(p) PROVE StagedInv'
  BY <1>23 DEF RemoveTombstone
<1>24. ASSUME NEW p \in Procs, Fail(p) PROVE StagedInv'
  BY <1>24 DEF Fail
<1>25. ASSUME NEW p \in Procs, Crash(p) PROVE StagedInv'
  BY <1>25 DEF Crash
<1>26. ASSUME NEW p \in Procs, TearLock(p) PROVE StagedInv'
  BY <1>26 DEF TearLock, Acquirable
<1>27. CASE UNCHANGED vars
  BY <1>27 DEF vars, local, disk, staging
<1>28. QED
  BY <1>1, <1>2, <1>3, <1>4, <1>5, <1>6, <1>7, <1>8, <1>9, <1>10, <1>11, <1>12, <1>13, <1>14, <1>15, <1>16, <1>17, <1>18, <1>19, <1>20, <1>21, <1>22, <1>23, <1>24, <1>25, <1>26, <1>27
     DEF Next, Capture, LockStep, CommitStep, DeleteStep, Fault

(* A success that is about to be reported is in the chronology.            *)
LEMMA OutcomeStep ==
  ASSUME TypeOK, LockInv, BundleInv, BaseInv, OutcomeInv, [Next]_vars
  PROVE  OutcomeInv'
<1> USE DEF TypeOK, LockInv, OutcomeInv, Locked, Goto, Finish, Forget, Success, disk
<1>1. ASSUME NEW p \in Procs, NEW s \in Snapshots, NEW E \in SUBSET Refs[s],
             BeginCapture(p, s, E)
      PROVE  OutcomeInv'
  BY <1>1 DEF BeginCapture
<1>2. ASSUME NEW p \in Procs, ReadInventory(p) PROVE OutcomeInv'
  BY <1>2 DEF ReadInventory, Reading
<1>3. ASSUME NEW p \in Procs, NEW e \in Evidence, ReuseEvidence(p, e)
      PROVE OutcomeInv'
  BY <1>3 DEF ReuseEvidence, Reading
<1>4. ASSUME NEW p \in Procs, Acquire(p) PROVE OutcomeInv'
  BY <1>4 DEF Acquire, Acquirable
<1>5. ASSUME NEW p \in Procs, Refused(p) PROVE OutcomeInv'
  BY <1>5 DEF Refused
<1>6. ASSUME NEW p \in Procs, Release(p) PROVE OutcomeInv'
  BY <1>6 DEF Release
<1>7. ASSUME NEW p \in Procs, CheckRejects(p) PROVE OutcomeInv'
  BY <1>7 DEF CheckRejects, Rejections
<1>8. ASSUME NEW p \in Procs, CheckIdempotent(p) PROVE OutcomeInv'
  BY <1>8 DEF CheckIdempotent, AlreadyCommitted
<1>9. ASSUME NEW p \in Procs, CheckProceeds(p) PROVE OutcomeInv'
  BY <1>9 DEF CheckProceeds
<1>10. ASSUME NEW p \in Procs, MakeDirectories(p) PROVE OutcomeInv'
  BY <1>10 DEF MakeDirectories
<1>11. ASSUME NEW p \in Procs, StageSnapshot(p) PROVE OutcomeInv'
  BY <1>11 DEF StageSnapshot
<1>12. ASSUME NEW p \in Procs, NEW e \in Evidence, StageEvidence(p, e)
      PROVE  OutcomeInv'
  BY <1>12 DEF StageEvidence
<1>13. ASSUME NEW p \in Procs, AllStaged(p) PROVE OutcomeInv'
  BY <1>13 DEF AllStaged
<1>14. ASSUME NEW p \in Procs, MoveSnapshot(p) PROVE OutcomeInv'
  BY <1>14 DEF MoveSnapshot
<1>15. ASSUME NEW p \in Procs, NEW e \in Evidence, MoveEvidence(p, e)
      PROVE  OutcomeInv'
  BY <1>15 DEF MoveEvidence
<1>16. ASSUME NEW p \in Procs, AllMoved(p) PROVE OutcomeInv'
  BY <1>16 DEF AllMoved
<1>17. ASSUME NEW p \in Procs, BuildRejects(p) PROVE OutcomeInv'
  BY <1>17 DEF BuildRejects
<1>18. ASSUME NEW p \in Procs, WriteManifest(p) PROVE OutcomeInv'
  <2>1. sid[p] \in Listed(manifest')
    BY <1>18, WrittenManifest
  <2>2. QED
    BY <1>18, <2>1 DEF WriteManifest, NextManifest
<1>19. ASSUME NEW p \in Procs, RemoveStaging(p) PROVE OutcomeInv'
  BY <1>19 DEF RemoveStaging
<1>20. ASSUME NEW p \in Procs, BeginDelete(p) PROVE OutcomeInv'
  BY <1>20 DEF BeginDelete
<1>21. ASSUME NEW p \in Procs, VerifyForDelete(p) PROVE OutcomeInv'
  BY <1>21 DEF VerifyForDelete
<1>22. ASSUME NEW p \in Procs, MoveToTombstone(p) PROVE OutcomeInv'
  BY <1>22 DEF MoveToTombstone
<1>23. ASSUME NEW p \in Procs, RemoveTombstone(p) PROVE OutcomeInv'
  BY <1>23 DEF RemoveTombstone
<1>24. ASSUME NEW p \in Procs, Fail(p) PROVE OutcomeInv'
  BY <1>24 DEF Fail
<1>25. ASSUME NEW p \in Procs, Crash(p) PROVE OutcomeInv'
  BY <1>25 DEF Crash
<1>26. ASSUME NEW p \in Procs, TearLock(p) PROVE OutcomeInv'
  BY <1>26 DEF TearLock, Acquirable
<1>27. CASE UNCHANGED vars
  BY <1>27 DEF vars, local, disk, staging
<1>28. QED
  BY <1>1, <1>2, <1>3, <1>4, <1>5, <1>6, <1>7, <1>8, <1>9, <1>10, <1>11, <1>12, <1>13, <1>14, <1>15, <1>16, <1>17, <1>18, <1>19, <1>20, <1>21, <1>22, <1>23, <1>24, <1>25, <1>26, <1>27
     DEF Next, Capture, LockStep, CommitStep, DeleteStep, Fault

(* A success is only reported after the staging directory is removed.      *)
LEMMA CleanStep ==
  ASSUME TypeOK, LockInv, OutcomeInv, SuccessLeavesNoStaging, [Next]_vars
  PROVE  SuccessLeavesNoStaging'
<1> USE DEF TypeOK, LockInv, OutcomeInv, SuccessLeavesNoStaging, Locked, Success, StagingRemoved, Goto, Finish, Forget, disk, staging
<1>1. ASSUME NEW p \in Procs, NEW s \in Snapshots, NEW E \in SUBSET Refs[s],
             BeginCapture(p, s, E)
      PROVE  SuccessLeavesNoStaging'
  BY <1>1 DEF BeginCapture
<1>2. ASSUME NEW p \in Procs, ReadInventory(p)
      PROVE  SuccessLeavesNoStaging'
  BY <1>2 DEF ReadInventory, Reading
<1>3. ASSUME NEW p \in Procs, NEW e \in Evidence, ReuseEvidence(p, e)
      PROVE  SuccessLeavesNoStaging'
  BY <1>3 DEF ReuseEvidence, Reading
<1>4. ASSUME NEW p \in Procs, Acquire(p)
      PROVE  SuccessLeavesNoStaging'
  BY <1>4 DEF Acquire, Acquirable
<1>5. ASSUME NEW p \in Procs, Refused(p)
      PROVE  SuccessLeavesNoStaging'
  BY <1>5 DEF Refused
<1>6. ASSUME NEW p \in Procs, Release(p)
      PROVE  SuccessLeavesNoStaging'
  BY <1>6 DEF Release
<1>7. ASSUME NEW p \in Procs, CheckRejects(p)
      PROVE  SuccessLeavesNoStaging'
  BY <1>7 DEF CheckRejects, Rejections
<1>8. ASSUME NEW p \in Procs, CheckIdempotent(p)
      PROVE  SuccessLeavesNoStaging'
  BY <1>8 DEF CheckIdempotent
<1>9. ASSUME NEW p \in Procs, CheckProceeds(p)
      PROVE  SuccessLeavesNoStaging'
  BY <1>9 DEF CheckProceeds
<1>10. ASSUME NEW p \in Procs, MakeDirectories(p)
      PROVE  SuccessLeavesNoStaging'
  BY <1>10 DEF MakeDirectories
<1>11. ASSUME NEW p \in Procs, StageSnapshot(p)
      PROVE  SuccessLeavesNoStaging'
  BY <1>11 DEF StageSnapshot
<1>12. ASSUME NEW p \in Procs, NEW e \in Evidence, StageEvidence(p, e)
      PROVE  SuccessLeavesNoStaging'
  BY <1>12 DEF StageEvidence
<1>13. ASSUME NEW p \in Procs, AllStaged(p)
      PROVE  SuccessLeavesNoStaging'
  BY <1>13 DEF AllStaged
<1>14. ASSUME NEW p \in Procs, MoveSnapshot(p)
      PROVE  SuccessLeavesNoStaging'
  BY <1>14 DEF MoveSnapshot
<1>15. ASSUME NEW p \in Procs, NEW e \in Evidence, MoveEvidence(p, e)
      PROVE  SuccessLeavesNoStaging'
  BY <1>15 DEF MoveEvidence
<1>16. ASSUME NEW p \in Procs, AllMoved(p)
      PROVE  SuccessLeavesNoStaging'
  BY <1>16 DEF AllMoved
<1>17. ASSUME NEW p \in Procs, BuildRejects(p)
      PROVE  SuccessLeavesNoStaging'
  BY <1>17 DEF BuildRejects
<1>18. ASSUME NEW p \in Procs, WriteManifest(p)
      PROVE  SuccessLeavesNoStaging'
  BY <1>18 DEF WriteManifest, NextManifest
<1>19. ASSUME NEW p \in Procs, RemoveStaging(p)
      PROVE  SuccessLeavesNoStaging'
  BY <1>19 DEF RemoveStaging
<1>20. ASSUME NEW p \in Procs, BeginDelete(p)
      PROVE  SuccessLeavesNoStaging'
  BY <1>20 DEF BeginDelete
<1>21. ASSUME NEW p \in Procs, VerifyForDelete(p)
      PROVE  SuccessLeavesNoStaging'
  BY <1>21 DEF VerifyForDelete
<1>22. ASSUME NEW p \in Procs, MoveToTombstone(p)
      PROVE  SuccessLeavesNoStaging'
  BY <1>22 DEF MoveToTombstone
<1>23. ASSUME NEW p \in Procs, RemoveTombstone(p)
      PROVE  SuccessLeavesNoStaging'
  BY <1>23 DEF RemoveTombstone
<1>24. ASSUME NEW p \in Procs, Fail(p) PROVE SuccessLeavesNoStaging'
  BY <1>24 DEF Fail
<1>25. ASSUME NEW p \in Procs, Crash(p) PROVE SuccessLeavesNoStaging'
  BY <1>25 DEF Crash
<1>26. ASSUME NEW p \in Procs, TearLock(p) PROVE SuccessLeavesNoStaging'
  BY <1>26 DEF TearLock, Acquirable
<1>27. CASE UNCHANGED vars
  BY <1>27 DEF vars, local, disk, staging
<1>28. QED
  BY <1>1, <1>2, <1>3, <1>4, <1>5, <1>6, <1>7, <1>8, <1>9, <1>10, <1>11, <1>12, <1>13, <1>14, <1>15, <1>16, <1>17, <1>18, <1>19, <1>20, <1>21, <1>22, <1>23, <1>24, <1>25, <1>26, <1>27
     DEF Next, Capture, LockStep, CommitStep, DeleteStep, Fault

(* The steps that touch what the store keeps for good.                     *)
LEMMA RecordSteps ==
  ASSUME [Next]_vars
  PROVE  \/ UNCHANGED <<manifest, snaps, evs, acked>>
         \/ \E p \in Procs :
              \/ MoveSnapshot(p) \/ WriteManifest(p)
              \/ \E e \in Evidence : MoveEvidence(p, e)
              \/ MoveToTombstone(p) /\ dir
              \/ Release(p)
<1>1. ASSUME NEW p \in Procs,
             Capture(p) \/ Acquire(p) \/ Refused(p) \/ Fault(p)
      PROVE  UNCHANGED <<manifest, snaps, evs, acked>>
  BY <1>1 DEF Capture, BeginCapture, ReadInventory, ReuseEvidence, Acquire,
     Refused, Fault, Fail, Crash, TearLock, disk, past
<1>2. ASSUME NEW p \in Procs,
             \/ CheckRejects(p) \/ CheckIdempotent(p) \/ CheckProceeds(p)
             \/ MakeDirectories(p) \/ StageSnapshot(p) \/ AllStaged(p)
             \/ \E e \in Evidence : StageEvidence(p, e)
             \/ AllMoved(p) \/ BuildRejects(p) \/ RemoveStaging(p)
      PROVE  UNCHANGED <<manifest, snaps, evs, acked>>
  BY <1>2 DEF CheckRejects, Rejections, CheckIdempotent, CheckProceeds, MakeDirectories,
     StageSnapshot, AllStaged, StageEvidence, AllMoved, BuildRejects,
     RemoveStaging, disk, past
<1>3. ASSUME NEW p \in Procs,
             BeginDelete(p) \/ VerifyForDelete(p) \/ RemoveTombstone(p)
             \/ (MoveToTombstone(p) /\ ~ dir)
      PROVE  UNCHANGED <<manifest, snaps, evs, acked>>
  BY <1>3 DEF BeginDelete, VerifyForDelete, MoveToTombstone, RemoveTombstone, disk, past
<1>4. CASE UNCHANGED vars
  BY <1>4 DEF vars, disk, past
<1>5. QED
  BY <1>1, <1>2, <1>3, <1>4 DEF Next, LockStep, CommitStep, DeleteStep

(* A manifest only ever lists records that are on disk.                    *)
LEMMA RecordsStep ==
  ASSUME TypeOK, BundleInv, BaseInv, StagedInv, RecordsBeforeManifest, [Next]_vars
  PROVE  RecordsBeforeManifest'
<1> USE DEF RecordsBeforeManifest, Verifies
<1>1. CASE UNCHANGED <<manifest, snaps, evs, acked>>
  BY <1>1
<1>2. ASSUME NEW p \in Procs, MoveSnapshot(p) PROVE RecordsBeforeManifest'
  BY <1>2 DEF MoveSnapshot
<1>3. ASSUME NEW p \in Procs, NEW e \in Evidence, MoveEvidence(p, e)
      PROVE  RecordsBeforeManifest'
  BY <1>3 DEF MoveEvidence, TypeOK, Manifest
<1>4. ASSUME NEW p \in Procs, WriteManifest(p) PROVE RecordsBeforeManifest'
  <2>1. /\ sid[p] \in Snapshots
        /\ base[p] = manifest
        /\ sid[p] \in snaps
        /\ \A e \in Bundle(p) : evs[e] # None
    BY <1>4 DEF WriteManifest, NextManifest, Goto, BundleInv, BaseInv, StagedInv, Committing
  <2>2. Listed(manifest') = Listed(manifest) \cup {sid[p]}
    BY <1>4, WrittenManifest
  <2>3. manifest'.evidence = manifest.evidence \cup Bundle(p)
    BY <1>4, <2>1 DEF WriteManifest, NextManifest
  <2>4. QED
    BY <1>4, <2>1, <2>2, <2>3 DEF WriteManifest, NextManifest
<1>5. ASSUME NEW p \in Procs, MoveToTombstone(p), dir PROVE RecordsBeforeManifest'
  <2>1. manifest' = NoManifest
    BY <1>5 DEF MoveToTombstone
  <2>2. NoManifest.evidence = {}
    BY DEF NoManifest
  <2>3. QED
    BY <2>1, <2>2, NoListed
<1>6. ASSUME NEW p \in Procs, Release(p) PROVE RecordsBeforeManifest'
  BY <1>6 DEF Release, disk
<1>7. QED
  BY <1>1, <1>2, <1>3, <1>4, <1>5, <1>6, RecordSteps

(* The inventory stays exactly what the chronology cites.                  *)
LEMMA InventoryStep ==
  ASSUME TypeOK, BundleInv, BaseInv, InventoryIsCited, [Next]_vars
  PROVE  InventoryIsCited'
<1> USE DEF InventoryIsCited
<1>1. CASE UNCHANGED <<manifest, snaps, evs, acked>>
  BY <1>1 DEF Listed
<1>2. ASSUME NEW p \in Procs, MoveSnapshot(p) \/ Release(p)
      PROVE  InventoryIsCited'
  BY <1>2 DEF MoveSnapshot, Release, disk
<1>3. ASSUME NEW p \in Procs, NEW e \in Evidence, MoveEvidence(p, e)
      PROVE  InventoryIsCited'
  BY <1>3 DEF MoveEvidence
<1>4. ASSUME NEW p \in Procs, WriteManifest(p) PROVE InventoryIsCited'
  <2>1. Listed(manifest') = Listed(manifest) \cup {sid[p]}
    BY <1>4, WrittenManifest
  <2>2. manifest'.evidence = manifest.evidence \cup Bundle(p)
    BY <1>4, WrittenManifest
  <2>3. /\ Bundle(p) \subseteq Refs[sid[p]]
        /\ Refs[sid[p]] \subseteq Bundle(p) \cup manifest.evidence
    BY <1>4 DEF WriteManifest, NextManifest, Goto, BundleInv, BaseInv, Committing
  <2>4. manifest'.evidence = manifest.evidence \cup Refs[sid[p]]
    BY <2>2, <2>3
  <2>5. UNION {Refs[s] : s \in Listed(manifest')}
          = (UNION {Refs[s] : s \in Listed(manifest)}) \cup Refs[sid[p]]
    BY <2>1
  <2>6. QED
    BY <2>4, <2>5
<1>5. ASSUME NEW p \in Procs, MoveToTombstone(p), dir PROVE InventoryIsCited'
  <2>1. manifest' = NoManifest
    BY <1>5 DEF MoveToTombstone
  <2>2. NoManifest.evidence = {}
    BY DEF NoManifest
  <2>3. QED
    BY <2>1, <2>2, NoListed
<1>6. QED
  BY <1>1, <1>2, <1>3, <1>4, <1>5, RecordSteps

(* A success that was reported stays in the chronology.                    *)
LEMMA AckedStep ==
  ASSUME TypeOK, BundleInv, BaseInv, OutcomeInv, AckedIsDurable, [Next]_vars
  PROVE  AckedIsDurable'
<1> USE DEF AckedIsDurable
<1>1. CASE UNCHANGED <<manifest, snaps, evs, acked>>
  BY <1>1
<1>2. ASSUME NEW p \in Procs, MoveSnapshot(p) PROVE AckedIsDurable'
  BY <1>2 DEF MoveSnapshot, past
<1>3. ASSUME NEW p \in Procs, NEW e \in Evidence, MoveEvidence(p, e)
      PROVE  AckedIsDurable'
  BY <1>3 DEF MoveEvidence, past
<1>4. ASSUME NEW p \in Procs, WriteManifest(p) PROVE AckedIsDurable'
  <2>1. sid[p] \in Snapshots /\ base[p] = manifest
    BY <1>4 DEF WriteManifest, NextManifest, Goto, BundleInv, BaseInv, Committing
  <2>2. Listed(manifest') = Listed(manifest) \cup {sid[p]}
    BY <1>4, WrittenManifest
  <2>3. QED
    BY <1>4, <2>2 DEF WriteManifest, NextManifest
<1>5. ASSUME NEW p \in Procs, MoveToTombstone(p), dir PROVE AckedIsDurable'
  BY <1>5 DEF MoveToTombstone
<1>6. ASSUME NEW p \in Procs, Release(p) PROVE AckedIsDurable'
  BY <1>6 DEF Release, OutcomeInv, disk
<1>7. QED
  BY <1>1, <1>2, <1>3, <1>4, <1>5, <1>6, RecordSteps

(* The chronology lists a snapshot once, so that the limit the commit      *)
(* checks, on the set of listed snapshots, bounds its length.              *)
LEMMA LimitsStep ==
  ASSUME TypeOK, BundleInv, BaseInv, NoRepeats, WithinLimits, [Next]_vars
  PROVE  NoRepeats' /\ WithinLimits'
<1> USE DEF NoRepeats, WithinLimits
<1>1. CASE UNCHANGED <<manifest, snaps, evs, acked>>
  BY <1>1 DEF Listed
<1>2. ASSUME NEW p \in Procs, MoveSnapshot(p) \/ Release(p)
      PROVE  NoRepeats' /\ WithinLimits'
  BY <1>2 DEF MoveSnapshot, Release, disk, Listed
<1>3. ASSUME NEW p \in Procs, NEW e \in Evidence, MoveEvidence(p, e)
      PROVE  NoRepeats' /\ WithinLimits'
  BY <1>3 DEF MoveEvidence, Listed
<1>4. ASSUME NEW p \in Procs, WriteManifest(p) PROVE NoRepeats' /\ WithinLimits'
  <2>1. /\ sid[p] \in Snapshots
        /\ base[p] = manifest
        /\ Listed(manifest') = Listed(manifest) \cup {sid[p]}
        /\ manifest'.evidence = manifest.evidence \cup Bundle(p)
    BY <1>4, WrittenManifest
  <2>2. manifest'.history = Append(manifest.history, sid[p])
    BY <1>4, <2>1 DEF WriteManifest, NextManifest
  <2>3. Len(manifest'.history) = Len(manifest.history) + 1
    BY <2>1, <2>2 DEF TypeOK, Manifest
  <2>4. IsFiniteSet(Listed(manifest))
    <3>1. Listed(manifest) \subseteq Snapshots
      BY DEF Listed, TypeOK, Manifest
    <3>2. QED
      BY <3>1, FiniteAssumption, FS_Subset
  <2>5. sid[p] \notin Listed(manifest)
    BY <1>4, <2>1 DEF WriteManifest
  <2>6. Cardinality(Listed(manifest')) = Cardinality(Listed(manifest)) + 1
    BY <2>1, <2>4, <2>5, FS_AddElement
  <2>7. /\ ~ (Cardinality(Listed(manifest')) > MaxSnapshots)
        /\ ~ (Cardinality(manifest'.evidence) > MaxEvidence)
    BY <1>4, <2>1 DEF WriteManifest, OverLimit
  <2>8. /\ Len(manifest.history) \in Nat
        /\ Cardinality(manifest'.evidence) \in Nat
    <3>1. manifest'.evidence \subseteq Evidence
      BY <2>1 DEF TypeOK, Manifest, Bundle
    <3>2. QED
      BY <3>1, FiniteAssumption, FS_Subset, FS_CardinalityType DEF TypeOK, Manifest
  <2>9. QED
    BY <2>3, <2>6, <2>7, <2>8, LimitsAssumption
<1>5. ASSUME NEW p \in Procs, MoveToTombstone(p), dir
      PROVE  NoRepeats' /\ WithinLimits'
  <2>1. manifest' = NoManifest
    BY <1>5 DEF MoveToTombstone
  <2>2. manifest'.history = << >> /\ manifest'.evidence = {}
    BY <2>1 DEF NoManifest
  <2>3. Listed(manifest') = {}
    BY <2>1, NoListed
  <2>4. QED
    BY <2>2, <2>3, FS_EmptySet, LimitsAssumption
<1>6. QED
  BY <1>1, <1>2, <1>3, <1>4, <1>5, RecordSteps
-----------------------------------------------------------------------------
(* The inductive invariant holds in every reachable state.                 *)
LEMMA InitInvariant == Init => IInv
<1> SUFFICES ASSUME Init PROVE IInv
  OBVIOUS
<1>1. TypeOK
  BY InitType
<1>2. Listed(manifest) = {} /\ manifest.evidence = {}
  BY NoListed DEF Init, NoManifest
<1>3. InventoryIsCited /\ RecordsBeforeManifest /\ AckedIsDurable
  BY <1>2 DEF InventoryIsCited, RecordsBeforeManifest, Verifies, AckedIsDurable, Init
<1>4. LockInv /\ SuccessLeavesNoStaging
  BY LockAssumption DEF Init, LockInv, Locked, SuccessLeavesNoStaging
<1>5. BundleInv
  BY NoneAssumption DEF Init, BundleInv, Bundle, NoEvidence, Committing
<1>6. BaseInv /\ StagedInv /\ OutcomeInv /\ ReuseInv
  BY DEF Init, BaseInv, StagedInv, OutcomeInv, ReuseInv, Committing
<1>7. NoRepeats /\ WithinLimits
  <2>1. manifest.history = << >>
    BY DEF Init, NoManifest
  <2>2. QED
    BY <1>2, <2>1, FS_EmptySet, LimitsAssumption DEF NoRepeats, WithinLimits
<1>8. QED
  BY <1>1, <1>3, <1>4, <1>5, <1>6, <1>7 DEF IInv

LEMMA NextInvariant == IInv /\ [Next]_vars => IInv'
<1> SUFFICES ASSUME IInv, [Next]_vars PROVE IInv'
  OBVIOUS
<1> USE DEF IInv
<1>1. TypeOK'
  BY TypeStep
<1>2. LockInv' /\ BundleInv' /\ ReuseInv' /\ BaseInv'
  BY LockStepInv, BundleStep, ReuseStep, BaseStep
<1>3. StagedInv' /\ OutcomeInv' /\ SuccessLeavesNoStaging'
  BY StagedStep, OutcomeStep, CleanStep
<1>4. RecordsBeforeManifest' /\ InventoryIsCited' /\ AckedIsDurable'
  BY RecordsStep, InventoryStep, AckedStep
<1>5. NoRepeats' /\ WithinLimits'
  BY LimitsStep
<1>6. QED
  BY <1>1, <1>2, <1>3, <1>4, <1>5

LEMMA Invariance == Spec => []IInv
<1>1. QED
  BY InitInvariant, NextInvariant, PTL DEF Spec

(* The store's state is well formed whatever happens.                      *)
THEOREM TypeCorrect == Spec => []TypeOK
<1>1. IInv => TypeOK
  BY DEF IInv
<1>2. QED
  BY <1>1, Invariance, PTL

(* Crash safety: no interleaving of captures, deletions, failed file       *)
(* operations and crashes leaves a manifest that lists a missing record.   *)
THEOREM ManifestNeverDangles == Spec => []RecordsBeforeManifest
<1>1. IInv => RecordsBeforeManifest
  BY DEF IInv
<1>2. QED
  BY <1>1, Invariance, PTL

(* The evidence inventory is exactly what the chronology cites.            *)
THEOREM InventoryExact == Spec => []InventoryIsCited
<1>1. IInv => InventoryIsCited
  BY DEF IInv
<1>2. QED
  BY <1>1, Invariance, PTL

(* No commit reaches buildNextManifest with a snapshot that is listed.     *)
THEOREM AppendsAreFresh == Spec => []AppendIsFresh
<1>1. IInv => AppendIsFresh
  BY DEF IInv, BaseInv, Committing, AppendIsFresh
<1>2. QED
  BY <1>1, Invariance, PTL

(* A capture that was reported to succeed is never lost.                   *)
THEOREM SuccessIsDurable == Spec => []AckedIsDurable
<1>1. IInv => AckedIsDurable
  BY DEF IInv
<1>2. QED
  BY <1>1, Invariance, PTL

(* A capture that was reported to succeed left no staging directory.       *)
THEOREM SuccessIsClean == Spec => []SuccessLeavesNoStaging
<1>1. IInv => SuccessLeavesNoStaging
  BY DEF IInv
<1>2. QED
  BY <1>1, Invariance, PTL

(* A capture is refused for the payload of its evidence only if it was     *)
(* overtaken, between its look at the inventory and the lock.              *)
THEOREM ConflictsNeedRaces == Spec => []ConflictsAreRaces
<1>1. IInv => ConflictsAreRaces
  BY DEF IInv, ReuseInv, ConflictsAreRaces
<1>2. QED
  BY <1>1, Invariance, PTL

(* No manifest lists more than the limits allow, although the commit       *)
(* checks them against the manifest it read when it took the lock.         *)
THEOREM LimitsHold == Spec => []WithinLimits
<1>1. IInv => WithinLimits
  BY DEF IInv
<1>2. QED
  BY <1>1, Invariance, PTL

-----------------------------------------------------------------------------
(* The store implements the append-only log.  Only the commit point and    *)
(* the removal of the whole directory are visible there: every other step, *)
(* those that move records to their final names included, is a stutter.    *)
LEMMA StepRefines ==
  ASSUME IInv, IInv', [Next]_vars
  PROVE  [Log!LogNext]_(Log!logVars)
<1> DEFINE obs == [e \in Evidence |->
                     IF e \in manifest.evidence THEN evs[e] ELSE None]
<1>1. CASE UNCHANGED <<manifest, snaps, evs, acked>>
  BY <1>1 DEF Log!logVars
<1>2. ASSUME NEW p \in Procs, MoveSnapshot(p) \/ Release(p)
      PROVE  UNCHANGED Log!logVars
  BY <1>2 DEF MoveSnapshot, Release, disk, Log!logVars
<1>3. ASSUME NEW p \in Procs, NEW e \in Evidence, MoveEvidence(p, e)
      PROVE  UNCHANGED Log!logVars
  <2>1. manifest' = manifest
    BY <1>3 DEF MoveEvidence
  <2>2. \A f \in manifest.evidence : evs'[f] = evs[f]
    BY <1>3 DEF MoveEvidence, IInv, TypeOK, Manifest, RecordsBeforeManifest, Verifies
  <2>3. QED
    BY <2>1, <2>2 DEF Log!logVars
<1>4. ASSUME NEW p \in Procs, WriteManifest(p)
      PROVE  Log!LogNext
  <2>1. /\ sid[p] \in Snapshots
        /\ base[p] = manifest
        /\ manifest'.evidence = manifest.evidence \cup Bundle(p)
    BY <1>4, WrittenManifest DEF IInv
  <2>2. manifest'.history = Append(manifest.history, sid[p])
    BY <1>4, <2>1 DEF WriteManifest, NextManifest
  <2>3. ~ Log!InLog(sid[p])
    BY <1>4 DEF WriteManifest, NextManifest, Goto, IInv, BaseInv, Committing, Listed, Log!InLog
  <2>4. /\ Bundle(p) \subseteq Refs[sid[p]]
        /\ Refs[sid[p]] \subseteq Bundle(p) \cup manifest.evidence
    BY <1>4 DEF WriteManifest, NextManifest, Goto, IInv, BundleInv, BaseInv, Committing
  <2>5. evs' = evs /\ evs \in [Evidence -> Snapshots \cup {None}]
    BY <1>4 DEF WriteManifest, NextManifest, IInv, TypeOK
  <2>6. \A e \in manifest'.evidence : evs[e] # None
    BY <2>5 DEF IInv, RecordsBeforeManifest, Verifies
  <2>7. obs' \in [Evidence -> Snapshots \cup {None}]
    BY <2>5
  <2>8. \A e \in Evidence :
          /\ obs[e] # None => obs'[e] = obs[e]
          /\ e \in Refs[sid[p]] => obs'[e] # None
          /\ obs'[e] # obs[e] => e \in Refs[sid[p]]
    BY <2>1, <2>4, <2>5, <2>6
  <2>9. \E s \in Snapshots : Log!AppendSnapshot(s)
    BY <2>1, <2>2, <2>3, <2>7, <2>8 DEF Log!AppendSnapshot
  <2>10. QED
    BY <2>9 DEF Log!LogNext
<1>5. ASSUME NEW p \in Procs, MoveToTombstone(p), dir
      PROVE  [Log!LogNext]_(Log!logVars)
  <2>1. manifest' = NoManifest
    BY <1>5 DEF MoveToTombstone
  <2>2. manifest'.history = << >> /\ obs' = [e \in Evidence |-> None]
    BY <2>1 DEF NoManifest
  <2>3. CASE manifest.history = << >>
    <3>1. Listed(manifest) = {}
      BY <2>3 DEF Listed
    <3>2. manifest.evidence = {}
      BY <3>1 DEF IInv, InventoryIsCited
    <3>3. QED
      BY <2>2, <2>3, <3>2 DEF Log!logVars
  <2>4. CASE manifest.history # << >>
    BY <2>2, <2>4 DEF Log!LogNext, Log!Erase, Log!LogInit
  <2>5. QED
    BY <2>3, <2>4
<1>6. QED
  BY <1>1, <1>2, <1>3, <1>4, <1>5, RecordSteps

(* The store, with its files, its crashes and its concurrent writers, is   *)
(* an append-only log in which the observation recorded for a piece of     *)
(* evidence never changes.                                                 *)
THEOREM Refinement == Spec => AppendOnlyLog
<1>1. Init => Log!LogInit
  BY DEF Init, NoManifest, Log!LogInit
<1>2. IInv /\ IInv' /\ [Next]_vars => [Log!LogNext]_(Log!logVars)
  BY StepRefines
<1>3. QED
  BY <1>1, <1>2, Invariance, PTL DEF Spec, AppendOnlyLog, Log!LogSpec

(* Of the lock the store uses no more than ProjectLock promises.           *)
THEOREM LockIsOwnLock == Spec => LockIsOwn
<1>1. Init => Lock!LockInit
  BY DEF Init, Lock!LockInit
<1>2. ASSUME IInv, [Next]_vars
      PROVE  [Lock!LockNext]_lock
  <2> USE DEF Lock!LockNext, Lock!Take, Lock!GiveBack, Lock!Die
  <2>1. ASSUME NEW p \in Procs, Acquire(p) PROVE Lock!Take(p)
    BY <2>1 DEF Acquire, Acquirable
  <2>2. ASSUME NEW p \in Procs, Release(p) PROVE Lock!GiveBack(p)
    BY <1>2, <2>2 DEF Release, IInv, LockInv, Locked
  <2>3. ASSUME NEW p \in Procs, Crash(p) \/ TearLock(p)
        PROVE  Lock!Die(p) \/ UNCHANGED lock
    BY <2>3 DEF Crash, TearLock, Acquirable
  <2>4. ASSUME NEW p \in Procs,
               Capture(p) \/ CommitStep(p) \/ DeleteStep(p) \/ Refused(p) \/ Fail(p)
        PROVE  UNCHANGED lock
    BY <2>4 DEF Capture, BeginCapture, ReadInventory, ReuseEvidence, CommitStep,
       CheckRejects, CheckIdempotent, CheckProceeds, MakeDirectories, StageSnapshot,
       AllStaged, MoveSnapshot, AllMoved, StageEvidence, MoveEvidence, BuildRejects,
       WriteManifest, RemoveStaging, DeleteStep, BeginDelete, VerifyForDelete,
       MoveToTombstone, RemoveTombstone, Refused, Fail
  <2>5. CASE UNCHANGED vars
    BY <2>5 DEF vars
  <2>6. QED
    BY <1>2, <2>1, <2>2, <2>3, <2>4, <2>5 DEF Next, LockStep, Fault
<1>3. QED
  BY <1>1, <1>2, Invariance, PTL DEF Spec, LockIsOwn, Lock!LockSpec

-----------------------------------------------------------------------------
(* Readers, which take no lock: what they can rely on.                     *)

(* A step of the store either takes the whole memory away or lets it grow. *)
LEMMA StoreGrows ==
  ASSUME IInv, [Next]_vars
  PROVE  manifest' = NoManifest \/ Grown(manifest, manifest')
<1> USE DEF IInv
<1>1. CASE UNCHANGED <<manifest, snaps, evs, acked>>
  BY <1>1 DEF Grown, TypeOK, Manifest
<1>2. ASSUME NEW p \in Procs, MoveSnapshot(p) \/ Release(p)
      PROVE  Grown(manifest, manifest')
  BY <1>2 DEF MoveSnapshot, Release, disk, Grown, TypeOK, Manifest
<1>3. ASSUME NEW p \in Procs, NEW e \in Evidence, MoveEvidence(p, e)
      PROVE  Grown(manifest, manifest')
  BY <1>3 DEF MoveEvidence, Grown, TypeOK, Manifest
<1>4. ASSUME NEW p \in Procs, WriteManifest(p)
      PROVE  Grown(manifest, manifest')
  <2>1. /\ sid[p] \in Snapshots
        /\ base[p] = manifest
        /\ manifest'.evidence = manifest.evidence \cup Bundle(p)
    BY <1>4, WrittenManifest
  <2>2. manifest'.history = Append(manifest.history, sid[p])
    BY <1>4, <2>1 DEF WriteManifest, NextManifest
  <2>3. manifest.history \in Seq(Snapshots)
    BY DEF TypeOK, Manifest
  <2>4. /\ Len(manifest'.history) = Len(manifest.history) + 1
        /\ \A i \in 1 .. Len(manifest.history) : manifest'.history[i] = manifest.history[i]
    BY <2>1, <2>2, <2>3
  <2>5. QED
    BY <2>1, <2>3, <2>4 DEF Grown
<1>5. ASSUME NEW p \in Procs, MoveToTombstone(p), dir
      PROVE  manifest' = NoManifest
  BY <1>5 DEF MoveToTombstone
<1>6. QED
  BY <1>1, <1>2, <1>3, <1>4, <1>5, RecordSteps

LEMMA GrownTransitive ==
  ASSUME NEW l \in Manifest, NEW m \in Manifest, NEW n \in Manifest,
         Grown(l, m), Grown(m, n)
  PROVE  Grown(l, n)
<1>1. Len(l.history) \in Nat /\ Len(m.history) \in Nat /\ Len(n.history) \in Nat
  BY DEF Manifest
<1>2. QED
  BY <1>1 DEF Grown

(* A manifest that has grown lists what it listed.                         *)
LEMMA GrownListings ==
  ASSUME NEW m \in Manifest, NEW n \in Manifest, Grown(m, n)
  PROVE  Listings(m) \subseteq Listings(n)
<1>1. /\ DOMAIN m.history = 1 .. Len(m.history) /\ Len(m.history) \in Nat
      /\ DOMAIN n.history = 1 .. Len(n.history) /\ Len(n.history) \in Nat
  BY DEF Manifest
<1>2. Listed(m) \subseteq Listed(n)
  BY <1>1 DEF Listed, Grown
<1>3. QED
  BY <1>2 DEF Listings, Grown

(* No manifest at all can grow into any; none can grow into no manifest.   *)
LEMMA GrownFromNothing ==
  ASSUME NEW m \in Manifest
  PROVE  /\ Grown(NoManifest, m)
         /\ Grown(m, NoManifest) => m = NoManifest
<1>1. NoManifest.history = << >> /\ NoManifest.evidence = {}
  BY DEF NoManifest
<1>2. Grown(NoManifest, m)
  BY <1>1 DEF Grown, Manifest
<1>3. ASSUME Grown(m, NoManifest) PROVE m = NoManifest
  <2>1. m.history = << >> /\ m.evidence = {}
    BY <1>1, <1>3 DEF Grown, Manifest
  <2>2. QED
    BY <2>1 DEF Manifest, NoManifest
<1>4. QED
  BY <1>2, <1>3

(* What the manifest lists is on disk: snapshots and evidence alike.       *)
LEMMA ListedIsOnDisk ==
  ASSUME IInv, NEW r \in Listings(manifest)
  PROVE  OnDisk(r)
<1>1. Listed(manifest) \subseteq Snapshots /\ manifest.evidence \subseteq Evidence
  BY DEF Listed, IInv, TypeOK, Manifest
<1>2. QED
  BY <1>1, RecordsAssumption
  DEF Listings, OnDisk, IInv, RecordsBeforeManifest, Verifies

(* The evidence that a listed snapshot cites is listed.                    *)
LEMMA CitedIsListed ==
  ASSUME IInv, NEW s \in Snapshots, s \in Listings(manifest)
  PROVE  Refs[s] \subseteq Listings(manifest)
<1>1. manifest.evidence \subseteq Evidence
  BY DEF IInv, TypeOK, Manifest
<1>2. s \in Listed(manifest)
  BY <1>1, RecordsAssumption DEF Listings
<1>3. Refs[s] \subseteq manifest.evidence
  BY <1>2 DEF IInv, InventoryIsCited
<1>4. QED
  BY <1>3 DEF Listings

-----------------------------------------------------------------------------
(* A reader changes nothing of the store; a writer's step is one of the    *)
(* store's.                                                                *)
LEMMA StepsOfTheStore ==
  /\ ReaderStep => UNCHANGED vars
  /\ WriterStep => Next
<1>1. ReaderStep => UNCHANGED vars
  BY DEF ReaderStep, BeginRead, ReadFirst, ReadChronology, AllLoaded, AllVerified, Look,
     VerifyRecord, CopyRecord, RequireManifest, Open, CopyManifest, Publish, ExportFails,
     EndRead
<1>2. WriterStep => Next
  BY DEF WriterStep, Next
<1>3. QED
  BY <1>1, <1>2

LEMMA StoreInvariance == ReadersSpec => []IInv
<1>1. ReadersInit => IInv
  BY InitInvariant DEF ReadersInit
<1>2. [ReadersNext]_readerVars => [Next]_vars
  BY StepsOfTheStore DEF ReadersNext, readerVars
<1>3. IInv /\ [ReadersNext]_readerVars => IInv'
  BY <1>2, NextInvariant
<1>4. QED
  BY <1>1, <1>3, PTL DEF ReadersSpec

(* What a writer's step means to the reader.                               *)
LEMMA WriterKeeps ==
  ASSUME IInv, IInv', ReadersTypeOK, WriterStep
  PROVE  /\ UNCHANGED reader
         /\ {disturbed', overlapped'} \subseteq BOOLEAN
         /\ ~ disturbed' => ~ disturbed /\ Grown(manifest, manifest')
         /\ ~ overlapped' => ~ overlapped /\ manifest' = manifest
         /\ manifest \in Manifest /\ manifest' \in Manifest
         /\ disturbed => disturbed'
         /\ overlapped => overlapped'
<1>1. UNCHANGED reader
  BY DEF WriterStep
<1>2. manifest \in Manifest /\ manifest' \in Manifest
  BY DEF IInv, TypeOK
<1>3. /\ disturbed' = (disturbed \/ (manifest # NoManifest /\ manifest' = NoManifest))
      /\ overlapped' = (overlapped \/ manifest' # manifest)
  BY DEF WriterStep
<1>4. manifest' = NoManifest \/ Grown(manifest, manifest')
  BY StepsOfTheStore, StoreGrows
<1>5. ASSUME ~ disturbed' PROVE Grown(manifest, manifest')
  <2>1. CASE manifest' = NoManifest
    <3>1. manifest = NoManifest
      BY <1>3, <1>5, <2>1
    <3>2. QED
      BY <1>2, <3>1, GrownFromNothing
  <2>2. QED
    BY <1>4, <2>1
<1>6. QED
  BY <1>1, <1>2, <1>3, <1>5

(* The steps of the system, one disjunct each.                             *)
LEMMA ReaderSteps ==
  ASSUME [ReadersNext]_readerVars
  PROVE  \/ \E k \in Kinds, named \in {<< >>} \cup (Snapshots \X Snapshots) :
              BeginRead(k, named)
         \/ ReadFirst \/ ReadChronology \/ AllLoaded \/ AllVerified
         \/ \E r \in Records : Look(r) \/ VerifyRecord(r) \/ CopyRecord(r)
         \/ \E exists \in BOOLEAN : RequireManifest(exists)
         \/ Open \/ CopyManifest \/ Publish \/ ExportFails \/ EndRead
         \/ WriterStep
         \/ UNCHANGED readerVars
<1>1. ASSUME NEW s \in Snapshots, NEW t \in Snapshots, BeginRead("compare", <<s, t>>)
      PROVE  \E k \in Kinds, named \in {<< >>} \cup (Snapshots \X Snapshots) :
               BeginRead(k, named)
  <2>1. "compare" \in Kinds /\ <<s, t>> \in {<< >>} \cup (Snapshots \X Snapshots)
    BY DEF Kinds
  <2>2. QED
    BY <1>1, <2>1
<1>2. ASSUME NEW k \in Kinds, BeginRead(k, << >>)
      PROVE  \E l \in Kinds, named \in {<< >>} \cup (Snapshots \X Snapshots) :
               BeginRead(l, named)
  BY <1>2
<1>3. QED
  BY <1>1, <1>2, Zenon DEF ReadersNext, ReaderStep

-----------------------------------------------------------------------------
LEMMA ReadersTypeStep ==
  ASSUME IInv, IInv', ReadersTypeOK, [ReadersNext]_readerVars
  PROVE  ReadersTypeOK'
<1> USE DEF ReadersTypeOK, Kinds, Answers, Answer, NoExport
<1>1. manifest \in Manifest /\ NoManifest \in Manifest
  BY DEF IInv, TypeOK, Manifest, NoManifest
<1>2. Listings(manifest) \subseteq Records
  BY DEF Listings, Listed, Records, IInv, TypeOK, Manifest
<1>3. ASSUME NEW k \in Kinds, NEW named \in {<< >>} \cup (Snapshots \X Snapshots),
             BeginRead(k, named)
      PROVE  ReadersTypeOK'
  BY <1>3 DEF BeginRead
<1>4. CASE ReadFirst
  BY <1>1, <1>2, <1>4 DEF ReadFirst, Records, history
<1>5. CASE ReadChronology
  <2>1. LatestPair(manifest) \in Snapshots \X Snapshots \/ Len(manifest.history) < 2
    BY <1>1 DEF LatestPair, Manifest
  <2>2. pair' \in {<< >>} \cup (Snapshots \X Snapshots)
    BY <1>5, <2>1, <1>1 DEF ReadChronology, Manifest
  <2>3. wanted' \subseteq Records
    <3>1. CASE stage' = "look" /\ kind = "compare"
      <4>1. Len(manifest.history) > 1 /\ pair' = LatestPair(manifest)
            /\ wanted' = {pair'[1], pair'[2]}
        BY <1>5, <3>1 DEF ReadChronology
      <4>2. QED
        BY <1>1, <2>1, <4>1 DEF Records, Manifest
    <3>2. CASE ~ (stage' = "look" /\ kind = "compare")
      BY <1>2, <1>5, <3>2 DEF ReadChronology, Listings
    <3>3. QED
      BY <3>1, <3>2
  <2>4. QED
    BY <1>1, <1>5, <2>2, <2>3 DEF ReadChronology, history
<1>6. CASE AllLoaded
  BY <1>6 DEF AllLoaded, history
<1>7. CASE AllVerified
  BY <1>7 DEF AllVerified, history
<1>8. ASSUME NEW r \in Records, Look(r) PROVE ReadersTypeOK'
  BY <1>8 DEF Look, history
<1>9. ASSUME NEW r \in Records, VerifyRecord(r) PROVE ReadersTypeOK'
  BY <1>9 DEF VerifyRecord, history
<1>10. ASSUME NEW r \in Records, CopyRecord(r) PROVE ReadersTypeOK'
  BY <1>10 DEF CopyRecord, history
<1>11. ASSUME NEW d \in BOOLEAN, RequireManifest(d) PROVE ReadersTypeOK'
  BY <1>1, <1>2, <1>11 DEF RequireManifest, history
<1>12. CASE Open
  BY <1>12, RefsAssumption DEF Open, Records, history
<1>13. CASE CopyManifest
  BY <1>1, <1>13 DEF CopyManifest, history
<1>14. CASE Publish
  BY <1>14 DEF Publish, history
<1>15. CASE ExportFails
  BY <1>15 DEF ExportFails, history
<1>16. CASE EndRead
  BY <1>1, <1>16 DEF EndRead
<1>17. CASE WriterStep
  BY <1>17, WriterKeeps DEF reader
<1>18. CASE UNCHANGED readerVars
  BY <1>18 DEF readerVars, reader, history
<1>19. QED
  BY <1>3, <1>4, <1>5, <1>6, <1>7, <1>8, <1>9, <1>10, <1>11, <1>12, <1>13, <1>14, <1>15,
     <1>16, <1>17, <1>18, ReaderSteps

LEMMA StageStep ==
  ASSUME IInv, IInv', ReadersTypeOK, StageInv, [ReadersNext]_readerVars
  PROVE  StageInv'
<1> USE DEF StageInv, ReadersTypeOK, Kinds, Answer
<1>1. ASSUME NEW k \in Kinds, NEW named \in {<< >>} \cup (Snapshots \X Snapshots),
             BeginRead(k, named)
      PROVE  StageInv'
  BY <1>1 DEF BeginRead
<1>2. CASE ReadFirst
  BY <1>2 DEF ReadFirst
<1>3. CASE ReadChronology
  BY <1>3 DEF ReadChronology
<1>4. CASE AllLoaded \/ AllVerified
  BY <1>4 DEF AllLoaded, AllVerified
<1>5. ASSUME NEW r \in Records, Look(r) \/ VerifyRecord(r) \/ CopyRecord(r)
      PROVE  StageInv'
  BY <1>5 DEF Look, VerifyRecord, CopyRecord
<1>6. ASSUME NEW d \in BOOLEAN, RequireManifest(d) PROVE StageInv'
  BY <1>6 DEF RequireManifest
<1>7. CASE Open
  BY <1>7 DEF Open
<1>8. CASE CopyManifest \/ Publish \/ ExportFails
  BY <1>8 DEF CopyManifest, Publish, ExportFails
<1>9. CASE EndRead
  BY <1>9 DEF EndRead
<1>10. CASE WriterStep
  BY <1>10, WriterKeeps DEF reader
<1>11. CASE UNCHANGED readerVars
  BY <1>11 DEF readerVars, reader
<1>12. QED
  BY <1>1, <1>2, <1>3, <1>4, <1>5, <1>6, <1>7, <1>8, <1>9, <1>10, <1>11, ReaderSteps

(* The manifests that were read can have grown into the present one, as    *)
(* long as the memory is not deleted.                                      *)
LEMMA GrowthStep ==
  ASSUME IInv, IInv', ReadersTypeOK, StageInv, GrowthInv, [ReadersNext]_readerVars
  PROVE  GrowthInv'
<1> USE DEF GrowthInv
<1>1. manifest \in Manifest /\ Grown(manifest, manifest) /\ Grown(NoManifest, manifest)
  <2>1. manifest \in Manifest
    BY DEF IInv, TypeOK
  <2>2. Grown(manifest, manifest)
    BY <2>1 DEF Grown, Manifest
  <2>3. QED
    BY <2>1, <2>2, GrownFromNothing
<1>2. ASSUME NEW k \in Kinds, NEW named \in {<< >>} \cup (Snapshots \X Snapshots),
             BeginRead(k, named)
      PROVE  GrowthInv'
  BY <1>1, <1>2 DEF BeginRead, StageInv, vars, disk
<1>3. CASE ReadFirst
  BY <1>1, <1>3 DEF ReadFirst, history, vars, disk
<1>4. CASE ReadChronology
  BY <1>1, <1>4 DEF ReadChronology, history, vars, disk
<1>5. CASE AllLoaded \/ AllVerified
  BY <1>5 DEF AllLoaded, AllVerified, history, vars, disk
<1>6. ASSUME NEW r \in Records, Look(r) \/ VerifyRecord(r) \/ CopyRecord(r)
      PROVE  GrowthInv'
  BY <1>6 DEF Look, VerifyRecord, CopyRecord, history, vars, disk
<1>7. ASSUME NEW d \in BOOLEAN, RequireManifest(d) PROVE GrowthInv'
  BY <1>1, <1>7 DEF RequireManifest, history, vars, disk
<1>8. CASE Open \/ CopyManifest \/ Publish \/ ExportFails
  BY <1>8 DEF Open, CopyManifest, Publish, ExportFails, history, vars, disk
<1>9. CASE EndRead
  BY <1>1, <1>9 DEF EndRead, vars, disk
<1>10. CASE WriterStep
  <2>1. seen \in Manifest /\ chron \in Manifest
    BY DEF ReadersTypeOK
  <2>2. seen' = seen /\ chron' = chron
    BY <1>10, WriterKeeps DEF reader
  <2>3. QED
    BY <1>10, <2>1, <2>2, WriterKeeps, GrownTransitive
<1>11. CASE UNCHANGED readerVars
  BY <1>11 DEF readerVars, reader, history, vars, disk
<1>12. QED
  BY <1>2, <1>3, <1>4, <1>5, <1>6, <1>7, <1>8, <1>9, <1>10, <1>11, ReaderSteps

(* A manifest that nobody has replaced is still the one that was read.     *)
LEMMA StillStep ==
  ASSUME IInv, IInv', ReadersTypeOK, StageInv, StillInv, [ReadersNext]_readerVars
  PROVE  StillInv'
<1> USE DEF StillInv, StageInv, Exporting, Answer
<1>1. ASSUME NEW k \in Kinds, NEW named \in {<< >>} \cup (Snapshots \X Snapshots),
             BeginRead(k, named)
      PROVE  StillInv'
  BY <1>1 DEF BeginRead
<1>2. CASE ReadFirst
  BY <1>2 DEF ReadFirst, history, vars, disk
<1>3. CASE ReadChronology
  BY <1>3 DEF ReadChronology, history, vars, disk
<1>4. CASE AllLoaded \/ AllVerified
  BY <1>4 DEF AllLoaded, AllVerified, history, vars, disk
<1>5. ASSUME NEW r \in Records, Look(r) \/ VerifyRecord(r) \/ CopyRecord(r)
      PROVE  StillInv'
  BY <1>5 DEF Look, VerifyRecord, CopyRecord, history, vars, disk
<1>6. ASSUME NEW d \in BOOLEAN, RequireManifest(d) PROVE StillInv'
  BY <1>6 DEF RequireManifest, history, vars, disk
<1>7. CASE Open
  BY <1>7 DEF Open, history, vars, disk
<1>8. CASE CopyManifest
  BY <1>8 DEF CopyManifest, history, vars, disk, ReadersTypeOK
<1>9. CASE Publish \/ ExportFails
  BY <1>9 DEF Publish, ExportFails, history, vars, disk
<1>10. CASE EndRead
  BY <1>10 DEF EndRead
<1>11. CASE WriterStep
  BY <1>11, WriterKeeps DEF reader
<1>12. CASE UNCHANGED readerVars
  BY <1>12 DEF readerVars, reader, history, vars, disk
<1>13. QED
  BY <1>1, <1>2, <1>3, <1>4, <1>5, <1>6, <1>7, <1>8, <1>9, <1>10, <1>11, <1>12,
     ReaderSteps

(* What is still to be loaded is listed by the present manifest.           *)
LEMMA WantedStep ==
  ASSUME IInv, IInv', ReadersTypeOK, StageInv, WantedInv, [ReadersNext]_readerVars
  PROVE  WantedInv'
<1> USE DEF WantedInv, StageInv, Answer
<1>1. ASSUME NEW k \in Kinds, NEW named \in {<< >>} \cup (Snapshots \X Snapshots),
             BeginRead(k, named)
      PROVE  WantedInv'
  BY <1>1 DEF BeginRead
<1>2. CASE ReadFirst
  BY <1>2 DEF ReadFirst, history, vars, disk, Listings, Listed
<1>3. CASE ReadChronology
  <2>1. ASSUME Len(manifest.history) > 1
        PROVE  {LatestPair(manifest)[1], LatestPair(manifest)[2]} \subseteq Listed(manifest)
    BY <2>1 DEF LatestPair, Listed, IInv, TypeOK, Manifest
  <2>2. stage' = "look" => wanted' \subseteq Listed(manifest)
    BY <1>3, <2>1 DEF ReadChronology
  <2>3. QED
    BY <1>3, <2>2 DEF ReadChronology, history, vars, disk, Listings, Listed
<1>4. CASE AllLoaded \/ AllVerified
  BY <1>4 DEF AllLoaded, AllVerified
<1>5. ASSUME NEW r \in Records, Look(r)
      PROVE  WantedInv'
  BY <1>5 DEF Look, history, vars, disk, Listings, Listed
<1>6. ASSUME NEW r \in Records, VerifyRecord(r) \/ CopyRecord(r)
      PROVE  WantedInv'
  BY <1>6 DEF VerifyRecord, CopyRecord, history, vars, disk, Listings, Listed
<1>7. ASSUME NEW d \in BOOLEAN, RequireManifest(d) PROVE WantedInv'
  BY <1>7 DEF RequireManifest, history, vars, disk, Listings, Listed
<1>8. CASE Open
  <2>1. manifest' = manifest /\ disturbed' = disturbed
    BY <1>8 DEF Open, history, vars, disk
  <2>2. ASSUME ~ disturbed, OnDisk(looked) PROVE wanted' \subseteq Listings(manifest)
    BY <1>8, <2>2, CitedIsListed DEF Open
  <2>3. QED
    BY <1>8, <2>1, <2>2 DEF Open, Listings, Listed
<1>9. CASE CopyManifest \/ Publish \/ ExportFails
  BY <1>9 DEF CopyManifest, Publish, ExportFails
<1>10. CASE EndRead
  BY <1>10 DEF EndRead
<1>11. CASE WriterStep
  <2>1. stage' = stage /\ wanted' = wanted /\ looked' = looked
    BY <1>11, WriterKeeps DEF reader
  <2>2. ~ disturbed' => ~ disturbed /\ Listings(manifest) \subseteq Listings(manifest')
    BY <1>11, WriterKeeps, GrownListings
  <2>3. ~ disturbed' => ~ disturbed /\ Listings(manifest) \subseteq Listings(manifest)'
    BY <2>2 DEF Listings, Listed
  <2>4. QED
    BY <2>1, <2>3
<1>12. CASE UNCHANGED readerVars
  BY <1>12 DEF readerVars, reader, history, vars, disk, Listings, Listed
<1>13. QED
  BY <1>1, <1>2, <1>3, <1>4, <1>5, <1>6, <1>7, <1>8, <1>9, <1>10, <1>11, <1>12,
     ReaderSteps

(* The captures that compare chose stay neighbours: a chronology only gets *)
(* longer.                                                                 *)
LEMMA PairStep ==
  ASSUME IInv, IInv', ReadersTypeOK, StageInv, PairInv, [ReadersNext]_readerVars
  PROVE  PairInv'
<1> USE DEF PairInv, StageInv, Answer
<1>1. ASSUME NEW k \in Kinds, NEW named \in {<< >>} \cup (Snapshots \X Snapshots),
             BeginRead(k, named)
      PROVE  PairInv'
  BY <1>1 DEF BeginRead
<1>2. CASE ReadFirst
  BY <1>2 DEF ReadFirst
<1>3. CASE ReadChronology
  <2>1. ASSUME stage' = "look", kind = "compare"
        PROVE  \E i \in 2 .. Len(manifest.history) :
                 pair' = <<manifest.history[i - 1], manifest.history[i]>>
    <3>1. Len(manifest.history) > 1 /\ pair' = LatestPair(manifest)
      BY <1>3, <2>1 DEF ReadChronology
    <3>2. Len(manifest.history) \in 2 .. Len(manifest.history)
      BY <3>1 DEF IInv, TypeOK, Manifest
    <3>3. QED
      BY <3>1, <3>2 DEF LatestPair
  <2>2. QED
    BY <1>3, <2>1 DEF ReadChronology, vars, disk
<1>4. CASE AllLoaded \/ AllVerified
  BY <1>4 DEF AllLoaded, AllVerified, history, vars, disk
<1>5. ASSUME NEW r \in Records, Look(r) \/ VerifyRecord(r) \/ CopyRecord(r)
      PROVE  PairInv'
  BY <1>5 DEF Look, VerifyRecord, CopyRecord, history, vars, disk
<1>6. ASSUME NEW d \in BOOLEAN, RequireManifest(d) PROVE PairInv'
  BY <1>6 DEF RequireManifest
<1>7. CASE Open
  BY <1>7 DEF Open, history, vars, disk
<1>8. CASE CopyManifest \/ Publish \/ ExportFails
  BY <1>8 DEF CopyManifest, Publish, ExportFails
<1>9. CASE EndRead
  BY <1>9 DEF EndRead
<1>10. CASE WriterStep
  <2>1. /\ UNCHANGED <<stage, kind, pair, chron, answer>>
        /\ ~ disturbed' => ~ disturbed /\ Grown(manifest, manifest')
        /\ manifest \in Manifest /\ manifest' \in Manifest
    BY <1>10, WriterKeeps DEF reader
  <2>2. ASSUME NEW i \in 2 .. Len(manifest.history), ~ disturbed'
        PROVE  /\ i \in 2 .. Len(manifest'.history)
               /\ manifest'.history[i - 1] = manifest.history[i - 1]
               /\ manifest'.history[i] = manifest.history[i]
    <3>1. Len(manifest.history) \in Nat /\ Len(manifest'.history) \in Nat
      BY <2>1 DEF Manifest
    <3>2. i \in 1 .. Len(manifest.history) /\ i - 1 \in 1 .. Len(manifest.history)
      BY <3>1
    <3>3. QED
      BY <2>1, <2>2, <3>1, <3>2 DEF Grown
  <2>3. QED
    BY <2>1, <2>2
<1>11. CASE UNCHANGED readerVars
  BY <1>11 DEF readerVars, reader, history, vars, disk
<1>12. QED
  BY <1>1, <1>2, <1>3, <1>4, <1>5, <1>6, <1>7, <1>8, <1>9, <1>10, <1>11, ReaderSteps

(* An export holds what the manifest read before the copying lists, which  *)
(* is what the manifest it verified lists, and possibly more.              *)
LEMMA CopyStep ==
  ASSUME IInv, IInv', ReadersTypeOK, StageInv, GrowthInv, CopyInv,
         [ReadersNext]_readerVars
  PROVE  CopyInv'
<1> USE DEF CopyInv, StageInv, Exporting, Answer
<1>1. Listings(seen)' = Listings(seen') /\ Listings(chron)' = Listings(chron')
  BY DEF Listings, Listed
<1>2. Listings(exported.manifest)' = Listings(exported'.manifest)
  BY DEF Listings, Listed
<1>3. ASSUME NEW k \in Kinds, NEW named \in {<< >>} \cup (Snapshots \X Snapshots),
             BeginRead(k, named)
      PROVE  CopyInv'
  BY <1>3 DEF BeginRead
<1>4. CASE ReadFirst
  BY <1>4 DEF ReadFirst
<1>5. CASE ReadChronology
  BY <1>5 DEF ReadChronology
<1>6. CASE AllLoaded \/ AllVerified
  BY <1>6 DEF AllLoaded, AllVerified
<1>7. ASSUME NEW r \in Records, Look(r) \/ VerifyRecord(r)
      PROVE  CopyInv'
  BY <1>7 DEF Look, VerifyRecord
<1>8. ASSUME NEW r \in Records, CopyRecord(r) PROVE CopyInv'
  <2>1. chron' = chron /\ seen' = seen /\ disturbed' = disturbed
    BY <1>8 DEF CopyRecord, history
  <2>2. CASE OnDisk(r)
    <3>1. /\ exported'.records = exported.records \cup {r}
          /\ wanted' = wanted \ {r}
          /\ stage = "copy" /\ stage' = stage /\ answer' = answer /\ r \in wanted
      BY <1>8, <2>2 DEF CopyRecord, ReadersTypeOK
    <3>2. QED
      BY <1>1, <2>1, <3>1
  <2>3. CASE ~ OnDisk(r)
    BY <1>1, <1>8, <2>1, <2>3 DEF CopyRecord
  <2>4. QED
    BY <2>2, <2>3
<1>9. ASSUME NEW d \in BOOLEAN, RequireManifest(d) PROVE CopyInv'
  <2>1. ASSUME ~ disturbed PROVE Listings(seen) \subseteq Listings(manifest)
    <3>1. seen \in Manifest /\ manifest \in Manifest
      BY DEF ReadersTypeOK, IInv, TypeOK
    <3>2. QED
      BY <2>1, <3>1, GrownListings DEF GrowthInv
  <2>2. /\ exported' = exported /\ seen' = seen /\ disturbed' = disturbed
        /\ chron' = manifest /\ stage = "require"
    BY <1>9 DEF RequireManifest, history
  <2>3. exported.records = {}
    BY <2>2 DEF NoExport
  <2>4. QED
    BY <1>1, <1>9, <2>1, <2>2, <2>3 DEF RequireManifest
<1>10. CASE Open
  BY <1>10 DEF Open
<1>11. CASE CopyManifest
  <2>1. /\ chron' = chron /\ seen' = seen /\ disturbed' = disturbed
        /\ stage = "copy" /\ wanted = {}
    BY <1>11 DEF CopyManifest, history
  <2>2. CASE manifest = NoManifest
    BY <1>1, <1>11, <2>1, <2>2 DEF CopyManifest
  <2>3. CASE manifest # NoManifest
    <3>1. /\ exported'.manifest = manifest
          /\ exported'.records = exported.records
          /\ stage' = "publish" /\ answer' = answer
      BY <1>11, <2>3 DEF CopyManifest, ReadersTypeOK
    <3>2. ~ disturbed => Listings(chron) \subseteq Listings(manifest)
      <4>1. chron \in Manifest /\ manifest \in Manifest
        BY DEF ReadersTypeOK, IInv, TypeOK
      <4>2. QED
        BY <4>1, GrownListings DEF GrowthInv
    <3>3. QED
      BY <1>1, <1>2, <2>1, <3>1, <3>2
  <2>4. QED
    BY <2>2, <2>3
<1>12. CASE Publish
  BY <1>1, <1>2, <1>12 DEF Publish, history
<1>13. CASE ExportFails
  BY <1>1, <1>13 DEF ExportFails
<1>14. CASE EndRead
  BY <1>14 DEF EndRead
<1>15. CASE WriterStep
  BY <1>1, <1>2, <1>15, WriterKeeps DEF reader
<1>16. CASE UNCHANGED readerVars
  BY <1>1, <1>2, <1>16 DEF readerVars, reader, history
<1>17. QED
  BY <1>3, <1>4, <1>5, <1>6, <1>7, <1>8, <1>9, <1>10, <1>11, <1>12, <1>13, <1>14, <1>15,
     <1>16, ReaderSteps

(* A read fails on a missing record only if the memory was deleted.        *)
LEMMA FindStep ==
  ASSUME IInv, IInv', ReadersTypeOK, ReadersTypeOK', StageInv, WantedInv,
         ReadersFindTheirRecords, [ReadersNext]_readerVars
  PROVE  ReadersFindTheirRecords'
<1> USE DEF ReadersFindTheirRecords, StageInv, WantedInv, Answer
<1>1. ASSUME NEW k \in Kinds, NEW named \in {<< >>} \cup (Snapshots \X Snapshots),
             BeginRead(k, named)
      PROVE  ReadersFindTheirRecords'
  BY <1>1 DEF BeginRead
<1>2. CASE ReadFirst
  BY <1>2 DEF ReadFirst, history
<1>3. CASE ReadChronology
  BY <1>3 DEF ReadChronology, history
<1>4. CASE AllLoaded \/ AllVerified
  BY <1>4 DEF AllLoaded, AllVerified, history
<1>5. ASSUME NEW r \in Records, Look(r)
      PROVE  ReadersFindTheirRecords'
  BY <1>5 DEF Look, history
<1>6. ASSUME NEW r \in Records, VerifyRecord(r)
      PROVE  ReadersFindTheirRecords'
  <2>1. ~ disturbed => OnDisk(r)
    BY <1>6, ListedIsOnDisk DEF VerifyRecord
  <2>2. QED
    BY <1>6, <2>1 DEF VerifyRecord, history
<1>7. ASSUME NEW r \in Records, CopyRecord(r)
      PROVE  ReadersFindTheirRecords'
  BY <1>7 DEF CopyRecord, history
<1>8. ASSUME NEW d \in BOOLEAN, RequireManifest(d) PROVE ReadersFindTheirRecords'
  BY <1>8 DEF RequireManifest, history
<1>9. CASE Open
  <2>1. ~ disturbed => OnDisk(looked)
    BY <1>9, ListedIsOnDisk DEF Open
  <2>2. QED
    BY <1>9, <2>1 DEF Open, history
<1>10. CASE CopyManifest \/ Publish \/ ExportFails
  BY <1>10 DEF CopyManifest, Publish, ExportFails, history
<1>11. CASE EndRead
  BY <1>11 DEF EndRead
<1>12. CASE WriterStep
  BY <1>12, WriterKeeps DEF reader
<1>13. CASE UNCHANGED readerVars
  BY <1>13 DEF readerVars, reader, history
<1>14. QED
  BY <1>1, <1>2, <1>3, <1>4, <1>5, <1>6, <1>7, <1>8, <1>9, <1>10, <1>11, <1>12, <1>13,
     ReaderSteps

(* The two reads of the manifest disagree only if it was replaced.         *)
LEMMA RaceStep ==
  ASSUME IInv, IInv', ReadersTypeOK, StageInv, StillInv, DisagreementsAreRaces,
         [ReadersNext]_readerVars
  PROVE  DisagreementsAreRaces'
<1> USE DEF DisagreementsAreRaces, StageInv, Answer
<1>1. ASSUME NEW k \in Kinds, NEW named \in {<< >>} \cup (Snapshots \X Snapshots),
             BeginRead(k, named)
      PROVE  DisagreementsAreRaces'
  BY <1>1 DEF BeginRead
<1>2. CASE ReadFirst
  BY <1>2 DEF ReadFirst, history
<1>3. CASE ReadChronology
  BY <1>3 DEF ReadChronology, Agrees, StillInv, history
<1>4. CASE AllLoaded \/ AllVerified
  BY <1>4 DEF AllLoaded, AllVerified, history
<1>5. ASSUME NEW r \in Records, Look(r) \/ VerifyRecord(r) \/ CopyRecord(r)
      PROVE  DisagreementsAreRaces'
  BY <1>5 DEF Look, VerifyRecord, CopyRecord, history
<1>6. ASSUME NEW d \in BOOLEAN, RequireManifest(d) PROVE DisagreementsAreRaces'
  BY <1>6 DEF RequireManifest, history
<1>7. CASE Open \/ CopyManifest \/ Publish \/ ExportFails
  BY <1>7 DEF Open, CopyManifest, Publish, ExportFails, history
<1>8. CASE EndRead
  BY <1>8 DEF EndRead
<1>9. CASE WriterStep
  BY <1>9, WriterKeeps DEF reader
<1>10. CASE UNCHANGED readerVars
  BY <1>10 DEF readerVars, reader, history
<1>11. QED
  BY <1>1, <1>2, <1>3, <1>4, <1>5, <1>6, <1>7, <1>8, <1>9, <1>10, ReaderSteps

-----------------------------------------------------------------------------
LEMMA ReadersInitInvariant == ReadersInit => ReadersInv
<1> SUFFICES ASSUME ReadersInit PROVE ReadersInv
  OBVIOUS
<1>1. NoManifest \in Manifest
  BY DEF NoManifest, Manifest
<1>2. manifest = NoManifest
  BY DEF ReadersInit, Init
<1>3. ReadersTypeOK
  BY <1>1 DEF ReadersInit, ReadersTypeOK, Kinds, Answers, NoExport
<1>4. StageInv
  BY DEF ReadersInit, StageInv
<1>5. GrowthInv
  BY <1>1, <1>2, GrownFromNothing DEF ReadersInit, GrowthInv
<1>6. StillInv /\ WantedInv /\ PairInv /\ CopyInv
  BY DEF ReadersInit, StillInv, WantedInv, PairInv, CopyInv, Exporting
<1>7. ReadersFindTheirRecords /\ DisagreementsAreRaces
  BY <1>3 DEF ReadersInit, ReadersFindTheirRecords, DisagreementsAreRaces
<1>8. QED
  BY <1>3, <1>4, <1>5, <1>6, <1>7 DEF ReadersInv

LEMMA ReadersNextInvariant ==
  ASSUME IInv, IInv', ReadersInv, [ReadersNext]_readerVars
  PROVE  ReadersInv'
<1> USE DEF ReadersInv
<1>1. ReadersTypeOK' /\ StageInv'
  BY ReadersTypeStep, StageStep
<1>2. GrowthInv' /\ StillInv' /\ WantedInv'
  BY GrowthStep, StillStep, WantedStep
<1>3. PairInv' /\ CopyInv'
  BY PairStep, CopyStep
<1>4. ReadersFindTheirRecords' /\ DisagreementsAreRaces'
  BY <1>1, FindStep, RaceStep
<1>5. QED
  BY <1>1, <1>2, <1>3, <1>4

LEMMA ReadersInvariance == ReadersSpec => []ReadersInv
<1>1. IInv /\ IInv' /\ ReadersInv /\ [ReadersNext]_readerVars => ReadersInv'
  BY ReadersNextInvariant
<1>2. QED
  BY <1>1, ReadersInitInvariant, StoreInvariance, PTL DEF ReadersSpec

(* verify, compare and timeline read without a lock, several files one     *)
(* after the other, and still never meet a missing record while captures   *)
(* commit, fail and crash: only a deletion takes records away.             *)
THEOREM LockFreeReads == ReadersSpec => []ReadersFindTheirRecords
<1>1. ReadersInv => ReadersFindTheirRecords
  BY DEF ReadersInv
<1>2. QED
  BY <1>1, ReadersInvariance, PTL

(* What compare reports as the latest change is a pair of neighbours of    *)
(* the chronology, although selectPair reads the manifest twice.           *)
THEOREM ComparesNeighbours == ReadersSpec => []ComparedAreNeighbours
<1>1. ReadersInv => ComparedAreNeighbours
  BY DEF ReadersInv, StageInv, PairInv, ComparedAreNeighbours
<1>2. QED
  BY <1>1, ReadersInvariance, PTL

(* compare and timeline report an inconsistent store only if a commit or a *)
(* deletion came between their two reads of the manifest.                  *)
THEOREM DisagreementNeedsRace == ReadersSpec => []DisagreementsAreRaces
<1>1. ReadersInv => DisagreementsAreRaces
  BY DEF ReadersInv
<1>2. QED
  BY <1>1, ReadersInvariance, PTL

(* An export holds what it verified; it lacks a record its manifest lists  *)
(* only if a commit ended while it ran.                                    *)
THEOREM ExportsWhatItVerified == ReadersSpec => []ExportHoldsWhatItVerified
<1>1. ASSUME ReadersInv, answer = "exported", ~ overlapped
      PROVE  ExportComplete
  BY <1>1 DEF ReadersInv, CopyInv, StillInv, Exporting, ExportComplete
<1>2. ASSUME ReadersInv, answer = "exported", ~ disturbed
      PROVE  /\ Listings(seen) \subseteq published.records
             /\ published.records \subseteq Listings(published.manifest)
  BY <1>2 DEF ReadersInv, CopyInv, Exporting
<1>3. ReadersInv => ExportHoldsWhatItVerified
  BY <1>1, <1>2 DEF ExportHoldsWhatItVerified
<1>4. QED
  BY <1>3, ReadersInvariance, PTL
=============================================================================
