-------------------------- MODULE StoreMigrationProofs --------------------------
(***************************************************************************)
(* Theorems of StoreMigration, for any inventory, any capture times and    *)
(* any number of processes that migrate and capture at the same time.      *)
(*                                                                         *)
(* The inductive invariant is IInv.  A migration only ever rebuilds the    *)
(* one manifest of format 1 there was (MigratingInv), so every later       *)
(* manifest begins with the chronology recovered from it (ManifestInv);    *)
(* that this chronology is the right one is a fact about Ranked, proved    *)
(* from the order of migration1to2 alone (RecoveredInOrder).               *)
(***************************************************************************)
EXTENDS StoreMigration

(* What migration1to2 recovers: the inventory, each entry once, the latest *)
(* at the end and the others by their time.                                *)
LEMMA RecoveredInOrder ==
  /\ Recovered \in Seq(Snapshots) /\ Len(Recovered) = Cardinality(Inherited)
  /\ Len(Recovered) \in Nat \ {0}
  /\ ToSet(Recovered) = Inherited
  /\ Recovered[Len(Recovered)] = LatestV1
  /\ \A i, j \in 1 .. Len(Recovered) - 1 :
       i < j => Time[Recovered[i]] <= Time[Recovered[j]]
<1> DEFINE before == {ab \in Inherited \X Inherited : Earlier(LatestV1, ab[1], ab[2])}
           N == Cardinality(Inherited)
<1> USE MigrationAssumption
<1>1. \A a, b \in Inherited : <<a, b>> \in before <=> Earlier(LatestV1, a, b)
  OBVIOUS
<1> HIDE DEF before
<1>2. Orders(before, Inherited)
  <2>1. \A a \in Inherited : Time[a] \in Nat /\ a \in Nat
    OBVIOUS
  <2> QED  BY <1>1, <2>1 DEF Orders, Earlier
<1>3. /\ N \in Nat
      /\ Recovered \in [1 .. N -> Inherited]
      /\ \A x \in Inherited : \E n \in 1 .. N : Recovered[n] = x
      /\ \A m, n \in 1 .. N : m < n => <<Recovered[m], Recovered[n]>> \in before
  BY <1>2, RankedInOrder DEF Recovered, RecoveredHistory, before
<1>4. /\ Recovered \in Seq(Snapshots) /\ Len(Recovered) = N
      /\ DOMAIN Recovered = 1 .. N
  <2> HIDE DEF N
  <2>1. Recovered \in [1 .. N -> Snapshots] /\ N \in Nat
    BY <1>3
  <2>2. Recovered \in Seq(Snapshots) /\ DOMAIN Recovered = 1 .. N
    BY <2>1
  <2>3. Len(Recovered) = N
    BY <2>1, <2>2
  <2> QED  BY <2>2, <2>3 DEF N
<1> HIDE DEF N
<1>5. ToSet(Recovered) = Inherited
  BY <1>3, <1>4 DEF ToSet
<1>6. PICK last \in 1 .. N : Recovered[last] = LatestV1
  BY <1>3
<1>7. last = N
  <2> SUFFICES ASSUME last < N PROVE FALSE
    BY <1>3
  <2>1. last \in 1 .. N /\ N \in 1 .. N /\ Recovered[N] \in Inherited
    BY <1>3
  <2>2. <<Recovered[last], Recovered[N]>> \in before
    BY <1>3, <2>1
  <2>3. Earlier(LatestV1, LatestV1, Recovered[N])
    BY <1>1, <1>6, <2>1, <2>2
  <2> QED  BY <2>3 DEF Earlier
<1>8. ASSUME NEW i \in 1 .. N - 1, NEW j \in 1 .. N - 1, i < j
      PROVE  Time[Recovered[i]] <= Time[Recovered[j]]
  <2>1. /\ Recovered[i] \in Inherited /\ Recovered[j] \in Inherited
        /\ Earlier(LatestV1, Recovered[i], Recovered[j])
    <3>1. i \in 1 .. N /\ j \in 1 .. N
      BY <1>3
    <3>2. Recovered[i] \in Inherited /\ Recovered[j] \in Inherited
      BY <1>3, <3>1
    <3>3. <<Recovered[i], Recovered[j]>> \in before
      BY <1>3, <1>8, <3>1
    <3> QED  BY <1>1, <3>2, <3>3
  <2>2. Earlier(LatestV1, Recovered[j], LatestV1)
    <3>1. j \in 1 .. N /\ N \in 1 .. N /\ j < N
      BY <1>3
    <3>2. <<Recovered[j], Recovered[N]>> \in before
      BY <1>3, <3>1
    <3>3. Recovered[N] = LatestV1
      BY <1>6, <1>7
    <3> QED  BY <1>1, <2>1, <3>2, <3>3
  <2>3. Recovered[j] # LatestV1
    BY <2>2 DEF Earlier
  <2>4. Time[Recovered[i]] \in Nat /\ Time[Recovered[j]] \in Nat
    BY <2>1
  <2> QED  BY <2>1, <2>3, <2>4 DEF Earlier
<1> QED
  BY <1>3, <1>4, <1>5, <1>6, <1>7, <1>8 DEF N

(* Prefixes.                                                               *)
LEMMA PrefixForm ==
  ASSUME NEW s \in Seq(Snapshots), NEW t \in Seq(Snapshots)
  PROVE  IsPrefix(s, t) <=> Len(s) <= Len(t) /\ \A i \in 1 .. Len(s) : s[i] = t[i]
<1>1. ASSUME Len(s) <= Len(t), SubSeq(s, 1, Len(s)) = SubSeq(t, 1, Len(s))
      PROVE  \A i \in 1 .. Len(s) : s[i] = t[i]
  <2> TAKE i \in 1 .. Len(s)
  <2>1. SubSeq(s, 1, Len(s))[i] = s[i] /\ SubSeq(t, 1, Len(s))[i] = t[i]
    BY <1>1
  <2> QED  BY <1>1, <2>1
<1>2. ASSUME Len(s) <= Len(t), \A i \in 1 .. Len(s) : s[i] = t[i]
      PROVE  SubSeq(s, 1, Len(s)) = SubSeq(t, 1, Len(s))
  BY <1>2
<1> QED
  BY <1>1, <1>2 DEF IsPrefix

(* A capture appends or leaves the chronology alone.                       *)
LEMMA NextHistoryForm ==
  ASSUME NEW h \in Seq(Snapshots), NEW s \in Snapshots
  PROVE  /\ NextHistory(h, s) \in Seq(Snapshots)
         /\ IsPrefix(h, NextHistory(h, s))
         /\ ToSet(NextHistory(h, s)) = ToSet(h) \cup {s}
<1>1. CASE s \in ToSet(h)
  BY <1>1, PrefixForm DEF NextHistory
<1>2. CASE s \notin ToSet(h)
  <2>1. NextHistory(h, s) = Append(h, s) /\ Append(h, s) \in Seq(Snapshots)
    BY <1>2 DEF NextHistory
  <2>2. /\ Len(Append(h, s)) = Len(h) + 1 /\ Len(h) \in Nat
        /\ \A i \in 1 .. Len(h) : Append(h, s)[i] = h[i]
        /\ Append(h, s)[Len(h) + 1] = s
        /\ DOMAIN h = 1 .. Len(h) /\ DOMAIN Append(h, s) = 1 .. Len(h) + 1
    OBVIOUS
  <2>3. IsPrefix(h, Append(h, s))
    <3> DEFINE t == Append(h, s)
    <3>1. t \in Seq(Snapshots) /\ Len(h) <= Len(t) /\ \A i \in 1 .. Len(h) : h[i] = t[i]
      BY <2>1, <2>2
    <3> HIDE DEF t
    <3>2. IsPrefix(h, t)
      BY <3>1, PrefixForm
    <3> QED  BY <3>2 DEF t
  <2>4. ToSet(Append(h, s)) = ToSet(h) \cup {s}
    <3>1. ASSUME NEW x \in ToSet(Append(h, s)) PROVE x \in ToSet(h) \cup {s}
      <4>1. PICK i \in 1 .. Len(h) + 1 : Append(h, s)[i] = x
        BY <2>2, <3>1 DEF ToSet
      <4> QED  BY <2>2, <4>1 DEF ToSet
    <3>2. ASSUME NEW x \in ToSet(h) PROVE x \in ToSet(Append(h, s))
      <4>1. PICK i \in 1 .. Len(h) : h[i] = x
        BY <2>2, <3>2 DEF ToSet
      <4>2. i \in DOMAIN Append(h, s) /\ Append(h, s)[i] = x
        BY <2>2, <4>1
      <4> QED  BY <4>2 DEF ToSet
    <3>3. s \in ToSet(Append(h, s))
      <4>1. Len(h) + 1 \in DOMAIN Append(h, s)
        BY <2>2
      <4> QED  BY <2>2, <4>1 DEF ToSet
    <3> QED  BY <3>1, <3>2, <3>3
  <2> QED  BY <2>1, <2>3, <2>4
<1> QED
  BY <1>1, <1>2

LEMMA PrefixTransitive ==
  ASSUME NEW s \in Seq(Snapshots), NEW t \in Seq(Snapshots), NEW u \in Seq(Snapshots),
         IsPrefix(s, t), IsPrefix(t, u)
  PROVE  IsPrefix(s, u)
<1>1. Len(s) \in Nat /\ Len(t) \in Nat /\ Len(u) \in Nat
  OBVIOUS
<1> QED
  BY <1>1, PrefixForm

(* A manifest of format 2 made of a chronology that is not empty.          *)
LEMMA FormatTwoForm ==
  ASSUME NEW h \in Seq(Snapshots), Len(h) > 0
  PROVE  /\ FormatTwo(h) \in Manifests
         /\ FormatTwo(h).history = h /\ FormatTwo(h).format = 2
         /\ FormatTwo(h).ids = ToSet(h)
<1>1. Last(h) \in Snapshots /\ ToSet(h) \subseteq Snapshots
  BY DEF Last, ToSet
<1> QED
  BY <1>1 DEF FormatTwo, Manifests

LEMMA OldForm ==
  /\ OldManifest \in Manifests
  /\ OldManifest.format = 1 /\ OldManifest.ids = Inherited /\ OldManifest.latest = LatestV1
BY MigrationAssumption DEF OldManifest, FormatOne, Manifests

(* What migrating the inherited manifest gives.                            *)
LEMMA MigratedForm ==
  /\ Migrated(OldManifest) = FormatTwo(Recovered)
  /\ FormatTwo(Recovered) \in Manifests
  /\ FormatTwo(Recovered).history = Recovered /\ FormatTwo(Recovered).format = 2
  /\ FormatTwo(Recovered).ids = Inherited
BY RecoveredInOrder, FormatTwoForm, OldForm DEF Migrated, Recovered

-----------------------------------------------------------------------------
(* The steps that replace the manifest.                                    *)
LEMMA WriteStep ==
  ASSUME IInv, NEW p \in Procs, WriteMigrated(p)
  PROVE  /\ manifest' = FormatTwo(Recovered)
         /\ ~ raced' => ~ raced /\ manifest = OldManifest /\ source[p] = OldManifest
  BY MigratedForm DEF IInv, MigratingInv, WriteMigrated

LEMMA CaptureStep ==
  ASSUME IInv, NEW p \in Procs, Capture(p)
  PROVE  /\ manifest.history \in Seq(Snapshots) /\ target[p] \in Snapshots
         /\ manifest = FormatTwo(manifest.history)
         /\ manifest.ids = ToSet(manifest.history)
         /\ manifest'.history = NextHistory(manifest.history, target[p])
         /\ manifest'.ids = manifest.ids \cup {target[p]}
         /\ manifest' \in Manifests /\ manifest' = FormatTwo(manifest'.history)
         /\ manifest'.format = 2
         /\ IsPrefix(manifest.history, manifest'.history)
         /\ IsPrefix(Recovered, manifest'.history)
<1>1. /\ manifest.history \in Seq(Snapshots) /\ target[p] \in Snapshots
      /\ manifest.format = 2
  BY DEF IInv, TypeOK, MigratingInv, Capture, Manifests
<1>2. manifest = FormatTwo(manifest.history) /\ IsPrefix(Recovered, manifest.history)
  BY <1>1, OldForm DEF IInv, ManifestInv
<1> DEFINE h == manifest.history
           n == NextHistory(h, target[p])
<1>3. n \in Seq(Snapshots) /\ IsPrefix(h, n) /\ ToSet(n) = ToSet(h) \cup {target[p]}
  BY <1>1, NextHistoryForm
<1>4. IsPrefix(Recovered, n)
  BY <1>1, <1>2, <1>3, RecoveredInOrder, PrefixTransitive
<1>5. Len(n) > 0
  BY <1>3, <1>4, RecoveredInOrder, PrefixForm
<1>6. manifest.ids = ToSet(h)
  BY <1>2 DEF FormatTwo
<1>7. manifest' = FormatTwo(n)
  BY DEF Capture
<1> HIDE DEF n
<1> QED
  BY <1>1, <1>2, <1>3, <1>4, <1>5, <1>6, <1>7, FormatTwoForm DEF n

-----------------------------------------------------------------------------
LEMMA InitInv == Init => IInv
<1> SUFFICES ASSUME Init PROVE IInv
  OBVIOUS
<1>1. TypeOK
  BY OldForm, MigrationAssumption DEF Init, TypeOK, OldManifest, Stages
<1>2. ManifestInv /\ NothingForgotten
  BY OldForm DEF Init, ManifestInv, NothingForgotten, OldManifest
<1>3. BackupIsWhatWasMigrated
  BY DEF Init, BackupIsWhatWasMigrated
<1>4. \A p \in Procs : MigratingInv(p)
  BY MigrationAssumption DEF Init, MigratingInv
<1> QED
  BY <1>1, <1>2, <1>3, <1>4 DEF IInv

LEMMA TypeStep ==
  ASSUME IInv, [Next]_migrationVars
  PROVE  TypeOK'
<1> USE DEF IInv, TypeOK
<1>1. CASE UNCHANGED migrationVars
  BY <1>1 DEF migrationVars
<1>2. ASSUME NEW p \in Procs, NEW s \in Snapshots, NEW flag \in BOOLEAN, Begin(p, s, flag)
      PROVE  TypeOK'
  BY <1>2 DEF Begin, Stages
<1>3. ASSUME NEW p \in Procs, Inspect(p) \/ LockForMigration(p) \/ StoreLocked(p)
      PROVE  TypeOK'
  BY <1>3 DEF Inspect, LockForMigration, StoreLocked, Says, Stages
<1>4. ASSUME NEW p \in Procs, LoadSource(p)
      PROVE  TypeOK'
  <2>1. CASE manifest.format = 1
    <3>1. manifest = OldManifest
      BY <2>1 DEF ManifestInv, FormatTwo
    <3> QED  BY <1>4, <2>1, <3>1 DEF LoadSource, Stages
  <2>2. CASE manifest.format # 1
    BY <1>4, <2>2 DEF LoadSource, Says, Stages
  <2> QED  BY <2>1, <2>2
<1>5. ASSUME NEW p \in Procs, BackUp(p)
      PROVE  TypeOK'
  BY <1>5 DEF BackUp, Stages
<1>6. ASSUME NEW p \in Procs, WriteMigrated(p)
      PROVE  TypeOK'
  <2>1. manifest' \in Manifests
    BY <1>6, WriteStep, MigratedForm
  <2> QED  BY <1>6, <2>1 DEF WriteMigrated, Stages
<1>7. ASSUME NEW p \in Procs, VerifyMigrated(p) \/ MigrationFails(p) \/ Death(p)
      PROVE  TypeOK'
  BY <1>7 DEF VerifyMigrated, MigrationFails, Death, Says, Stages
<1>8. ASSUME NEW p \in Procs, Capture(p)
      PROVE  TypeOK'
  <2>1. manifest' \in Manifests /\ target[p] \in Snapshots
    BY <1>8, CaptureStep
  <2> QED  BY <1>8, <2>1 DEF Capture, Says, Stages
<1> QED
  BY <1>1, <1>2, <1>3, <1>4, <1>5, <1>6, <1>7, <1>8 DEF Next, Step

(* The other steps leave the manifest and the history variables alone.     *)
LEMMA QuietSteps ==
  ASSUME IInv, [Next]_migrationVars,
         ~ \E p \in Procs : WriteMigrated(p) \/ Capture(p)
  PROVE  UNCHANGED <<manifest, acked, raced>>
BY DEF migrationVars, Next, Step, Begin, Inspect, LoadSource, LockForMigration, StoreLocked,
       BackUp, VerifyMigrated, MigrationFails, Death

LEMMA ManifestStep ==
  ASSUME IInv, [Next]_migrationVars
  PROVE  ManifestInv' /\ NothingForgotten'
<1> USE DEF IInv
<1>1. CASE UNCHANGED <<manifest, acked, raced>>
  BY <1>1 DEF ManifestInv, NothingForgotten
<1>2. ASSUME NEW p \in Procs, WriteMigrated(p)
      PROVE  ManifestInv' /\ NothingForgotten'
  <2>1. manifest' = FormatTwo(Recovered) /\ acked' = acked
    BY <1>2, WriteStep DEF WriteMigrated
  <2>2. ManifestInv'
    BY <2>1, MigratedForm, RecoveredInOrder, PrefixForm DEF ManifestInv
  <2>3. ~ raced' => acked \subseteq Inherited
    BY <1>2, WriteStep, OldForm DEF NothingForgotten
  <2> QED  BY <2>1, <2>2, <2>3, MigratedForm DEF NothingForgotten
<1>3. ASSUME NEW p \in Procs, Capture(p)
      PROVE  ManifestInv' /\ NothingForgotten'
  <2>1. acked' = acked \cup {target[p]} /\ raced' = raced
    BY <1>3 DEF Capture
  <2> QED  BY <1>3, <2>1, CaptureStep DEF ManifestInv, NothingForgotten
<1> QED
  BY <1>1, <1>2, <1>3, QuietSteps

(* A process that migrates has the lock, so its backup is the manifest     *)
(* until it replaces it.                                                   *)
LEMMA MigratingStep ==
  ASSUME IInv, [Next]_migrationVars, NEW q \in Procs
  PROVE  MigratingInv(q)'
<1> USE MigrationAssumption DEF IInv, TypeOK
<1>1. CASE UNCHANGED migrationVars
  BY <1>1 DEF migrationVars, MigratingInv
<1>2. ASSUME NEW p \in Procs, NEW s \in Snapshots, NEW flag \in BOOLEAN, Begin(p, s, flag)
      PROVE  MigratingInv(q)'
  BY <1>2 DEF Begin, MigratingInv
<1>3. ASSUME NEW p \in Procs, Inspect(p)
      PROVE  MigratingInv(q)'
  BY <1>3 DEF Inspect, Says, MigratingInv
<1>4. ASSUME NEW p \in Procs, LoadSource(p)
      PROVE  MigratingInv(q)'
  <2>1. manifest.format = 1 => manifest = OldManifest
    BY DEF ManifestInv, FormatTwo
  <2> QED  BY <1>4, <2>1 DEF LoadSource, Says, MigratingInv
<1>5. ASSUME NEW p \in Procs, LockForMigration(p)
      PROVE  MigratingInv(q)'
  BY <1>5 DEF LockForMigration, MigratingInv
<1>6. ASSUME NEW p \in Procs, StoreLocked(p)
      PROVE  MigratingInv(q)'
  BY <1>6 DEF StoreLocked, Says, MigratingInv
<1>7. ASSUME NEW p \in Procs, BackUp(p)
      PROVE  MigratingInv(q)'
  BY <1>7 DEF BackUp, MigratingInv
<1>8. ASSUME NEW p \in Procs, WriteMigrated(p)
      PROVE  MigratingInv(q)'
  <2>1. manifest'.format = 2
    BY <1>8, WriteStep, MigratedForm
  <2>2. lock = p
    BY <1>8 DEF WriteMigrated, MigratingInv
  <2> QED  BY <1>8, <2>1, <2>2 DEF WriteMigrated, MigratingInv
<1>9. ASSUME NEW p \in Procs, VerifyMigrated(p)
      PROVE  MigratingInv(q)'
  BY <1>9 DEF VerifyMigrated, MigratingInv
<1>10. ASSUME NEW p \in Procs, MigrationFails(p)
       PROVE  MigratingInv(q)'
  BY <1>10 DEF MigrationFails, Says, MigratingInv
<1>11. ASSUME NEW p \in Procs, Death(p)
       PROVE  MigratingInv(q)'
  BY <1>11 DEF Death, Says, MigratingInv
<1>12. ASSUME NEW p \in Procs, Capture(p)
       PROVE  MigratingInv(q)'
  <2>1. manifest'.format = 2 /\ lock = Free
    BY <1>12, CaptureStep DEF Capture
  <2> QED  BY <1>12, <2>1 DEF Capture, Says, MigratingInv
<1> QED
  BY <1>1, <1>2, <1>3, <1>4, <1>5, <1>6, <1>7, <1>8, <1>9, <1>10, <1>11, <1>12 DEF Next, Step

(* The backup is made before the manifest is replaced, and stays.          *)
LEMMA BackupStep ==
  ASSUME IInv, [Next]_migrationVars
  PROVE  BackupIsWhatWasMigrated'
<1> USE DEF IInv, TypeOK
<1> SUFFICES ASSUME NEW q \in Procs, (pc'[q] = "verify" \/ migrated'[q]), ~ raced'
             PROVE  backups'[q] = source'[q]
  BY DEF BackupIsWhatWasMigrated
<1>1. CASE UNCHANGED migrationVars
  BY <1>1 DEF migrationVars, BackupIsWhatWasMigrated
<1>2. ASSUME NEW p \in Procs, NEW s \in Snapshots, NEW flag \in BOOLEAN, Begin(p, s, flag)
      PROVE  backups'[q] = source'[q]
  BY <1>2 DEF Begin, BackupIsWhatWasMigrated
<1>3. ASSUME NEW p \in Procs,
             Inspect(p) \/ LockForMigration(p) \/ StoreLocked(p) \/ VerifyMigrated(p)
               \/ MigrationFails(p) \/ Death(p) \/ Capture(p)
      PROVE  backups'[q] = source'[q]
  BY <1>3 DEF Inspect, LockForMigration, StoreLocked, VerifyMigrated, MigrationFails, Death,
              Capture, Says, BackupIsWhatWasMigrated
<1>4. ASSUME NEW p \in Procs, LoadSource(p)
      PROVE  backups'[q] = source'[q]
  <2>1. q # p
    BY <1>4 DEF LoadSource, Says, MigratingInv
  <2> QED  BY <1>4, <2>1 DEF LoadSource, Says, BackupIsWhatWasMigrated
<1>5. ASSUME NEW p \in Procs, BackUp(p)
      PROVE  backups'[q] = source'[q]
  <2>1. q # p
    BY <1>5 DEF BackUp, MigratingInv
  <2> QED  BY <1>5, <2>1 DEF BackUp, BackupIsWhatWasMigrated
<1>6. ASSUME NEW p \in Procs, WriteMigrated(p)
      PROVE  backups'[q] = source'[q]
  <2>1. ~ raced /\ manifest = source[p]
    BY <1>6 DEF WriteMigrated
  <2>2. CASE q = p
    BY <1>6, <2>1, <2>2 DEF WriteMigrated, MigratingInv
  <2>3. CASE q # p
    BY <1>6, <2>1, <2>3 DEF WriteMigrated, BackupIsWhatWasMigrated
  <2> QED  BY <2>2, <2>3
<1> QED
  BY <1>1, <1>2, <1>3, <1>4, <1>5, <1>6 DEF Next, Step

-----------------------------------------------------------------------------
(* Every state has the types the model says and the relations the proofs   *)
(* rest on.                                                                *)
THEOREM Invariance == Spec => []IInv
<1>1. IInv /\ [Next]_migrationVars => IInv'
  BY TypeStep, ManifestStep, MigratingStep, BackupStep DEF IInv
<1> QED
  BY <1>1, InitInv, PTL DEF Spec

(* The chronology every manifest of format 2 begins with.                  *)
LEMMA ChronologyFollows == IInv => ChronologyRecovered
<1> SUFFICES ASSUME IInv, manifest.format = 2
             PROVE  LET old == SubSeq(manifest.history, 1, Cardinality(Inherited)) IN
                    /\ ToSet(old) = Inherited
                    /\ Last(old) = LatestV1
                    /\ \A i, j \in 1..(Len(old) - 1) : i < j => Time[old[i]] <= Time[old[j]]
  BY DEF ChronologyRecovered
<1> DEFINE h == manifest.history
<1>1. h \in Seq(Snapshots) /\ IsPrefix(Recovered, h)
  BY OldForm DEF IInv, TypeOK, ManifestInv, Manifests
<1>2. SubSeq(h, 1, Cardinality(Inherited)) = SubSeq(Recovered, 1, Len(Recovered))
  BY <1>1, RecoveredInOrder DEF IsPrefix
<1>3. SubSeq(Recovered, 1, Len(Recovered)) = Recovered
  BY RecoveredInOrder
<1> QED
  BY <1>2, <1>3, RecoveredInOrder DEF Last

(* A migration loses nothing: what the old store listed, and each capture  *)
(* reported since unless two migrations overlapped, are in the manifest,   *)
(* and the chronology begins with what migration1to2 recovers: the         *)
(* inventory by capture time, the known latest last.                       *)
THEOREM MigrationLosesNothing == Spec => []MigrationKeepsAll
<1>1. IInv => MigrationKeepsAll
  BY ChronologyFollows DEF IInv, MigrationKeepsAll
<1> QED
  BY <1>1, Invariance, PTL

(* "The pre-migration backup is intact": a migration that replaced the     *)
(* manifest it had loaded has a backup of just that manifest.              *)
THEOREM BackupsAreIntact == Spec => []BackupIsWhatWasMigrated
<1>1. IInv => BackupIsWhatWasMigrated
  BY DEF IInv
<1> QED
  BY <1>1, Invariance, PTL

(* Unless two migrations overlap, no step takes the store back to format 1 *)
(* or moves a snapshot in the chronology.                                  *)
THEOREM ChronologyStays == Spec => ChronologyIsKept
<1>1. ASSUME IInv, [Next]_migrationVars
      PROVE  [manifest.format = 2 /\ ~ raced' =>
                IsPrefix(manifest.history, manifest'.history)]_migrationVars
  <2> SUFFICES ASSUME manifest.format = 2, ~ raced'
               PROVE  IsPrefix(manifest.history, manifest'.history)
    OBVIOUS
  <2>1. CASE UNCHANGED <<manifest, acked, raced>>
    BY <1>1, <2>1, PrefixForm DEF IInv, TypeOK, Manifests
  <2>2. ASSUME NEW p \in Procs, WriteMigrated(p)
        PROVE  IsPrefix(manifest.history, manifest'.history)
    BY <1>1, <2>2, WriteStep, OldForm
  <2>3. ASSUME NEW p \in Procs, Capture(p)
        PROVE  IsPrefix(manifest.history, manifest'.history)
    BY <1>1, <2>3, CaptureStep
  <2> QED  BY <1>1, <2>1, <2>2, <2>3, QuietSteps
<1> QED
  BY <1>1, Invariance, PTL DEF Spec, ChronologyIsKept
=============================================================================
