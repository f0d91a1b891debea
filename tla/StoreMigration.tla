---------------------------- MODULE StoreMigration ----------------------------
(***************************************************************************)
(* A store of format 1 kept no chronology: an inventory of snapshots and   *)
(* the latest of them.  "memory capture --migrate-store --apply" turns it  *)
(* into format 2 once (ProjectMemoryStore.migrateProject) and captures.    *)
(* The source is loaded before the lock is taken; several processes may do *)
(* this at the same time, die, and fail.                                   *)
(*                                                                         *)
(* Abstractions.                                                           *)
(*  - A snapshot is a number; Time gives the place of its capturedAt among *)
(*    all times as the migration compares them: as text, so that of two    *)
(*    forms of writing a time the later instant may come first.  Evidence  *)
(*    is left out: the migration takes the records over as they are.       *)
(*  - The commit of a capture is one step under the lock: its parts are    *)
(*    module ProjectStore.  So is the lock (module StoreLock): one whose   *)
(*    owner died counts as free, a torn one only stops all that follows.   *)
(***************************************************************************)
EXTENDS Integers, Sequences, SequencesExt, FiniteSets, Ranking

CONSTANTS
  Procs,
  Snapshots,  \* the identities of all snapshots, numbers
  Time,       \* where each snapshot's capturedAt comes among all of them
  Inherited,  \* the inventory of the format 1 store
  LatestV1,   \* its latestSnapshotId
  None,       \* no manifest; no backup
  Free        \* the lock is held by nobody

ASSUME MigrationAssumption ==
  /\ Inherited \subseteq Snapshots
  /\ LatestV1 \in Inherited
  /\ IsFiniteSet(Inherited)
  /\ Snapshots \subseteq Nat
  /\ Time \in [Snapshots -> Nat]
  /\ Free \notin Procs

VARIABLES
  manifest,   \* manifest.json
  records,    \* the snapshot records on disk
  lock,       \* the process that holds the project lock, or Free
  pc,         \* where each process is
  target,     \* the snapshot it captures
  migrateFlag,\* it was given --migrate-store
  source,     \* the manifest its migration loaded
  backups,    \* backups/<operation id>: the manifest each process copied
  migrated,   \* storeMigrated: its own migration went through
  outcome,    \* what it reported last
  acked,      \* history: snapshots whose capture was reported as written
  raced       \* history: a migration replaced a manifest it had not loaded

migrationVars == <<manifest, records, lock, pc, target, migrateFlag, source, backups, migrated,
                   outcome, acked, raced>>

FormatOne(ids, latest) == [format |-> 1, ids |-> ids, latest |-> latest, history |-> << >>]
FormatTwo(history) == [format |-> 2, ids |-> ToSet(history), latest |-> Last(history),
                       history |-> history]

Init ==
  /\ manifest = FormatOne(Inherited, LatestV1)
  /\ records = Inherited
  /\ lock = Free
  /\ pc = [p \in Procs |-> "idle"]
  /\ target = [p \in Procs |-> LatestV1]
  /\ migrateFlag = [p \in Procs |-> FALSE]
  /\ source = [p \in Procs |-> None]
  /\ backups = [p \in Procs |-> None]
  /\ migrated = [p \in Procs |-> FALSE]
  /\ outcome = [p \in Procs |-> "none"]
  /\ acked = {}
  /\ raced = FALSE

(* Mutant: the latest capture is sorted by its time like the others.       *)
LaterUnpinned(latest, a, b) ==
  Time[a] < Time[b] \/ (Time[a] = Time[b] /\ a < b)

(* migration1to2's order: by capturedAt, then by identity; the one known   *)
(* to be the latest is last.                                               *)
Earlier(latest, a, b) ==
  \/ b = latest /\ a # latest
  \/ a # latest /\ (Time[a] < Time[b] \/ (Time[a] = Time[b] /\ a < b))

RecoveredHistory(ids, latest) ==
  Ranked(ids, {ab \in ids \X ids : Earlier(latest, ab[1], ab[2])})

(* migration1to2 and applyMigrationPlan: every inventory entry needs a     *)
(* readable record.                                                        *)
CanMigrate(m) == m # None /\ m.format = 1 /\ m.ids \subseteq records

Migrated(m) == FormatTwo(RecoveredHistory(m.ids, m.latest))

Says(p, what) ==
  /\ pc' = [pc EXCEPT ![p] = "idle"]
  /\ outcome' = [outcome EXCEPT ![p] = what]

(* runCapture: the command starts.                                         *)
Begin(p, s, flag) ==
  /\ pc[p] = "idle"
  /\ s \notin Inherited
  /\ pc' = [pc EXCEPT ![p] = "inspect"]
  /\ target' = [target EXCEPT ![p] = s]
  /\ migrateFlag' = [migrateFlag EXCEPT ![p] = flag]
  /\ source' = [source EXCEPT ![p] = None]
  /\ backups' = [backups EXCEPT ![p] = None]
  /\ migrated' = [migrated EXCEPT ![p] = FALSE]
  /\ outcome' = [outcome EXCEPT ![p] = "none"]
  /\ UNCHANGED <<manifest, records, lock, acked, raced>>

(* inspect, and runCaptureApply's decision.                                *)
Inspect(p) ==
  /\ pc[p] = "inspect"
  /\ \/ /\ manifest.format = 2
        /\ pc' = [pc EXCEPT ![p] = "capture"]
        /\ UNCHANGED outcome
     \/ /\ manifest.format = 1 /\ migrateFlag[p]
        /\ pc' = [pc EXCEPT ![p] = "load"]
        /\ UNCHANGED outcome
     \/ /\ manifest.format = 1 /\ ~ migrateFlag[p]
        /\ Says(p, "migrationRequired")
  /\ UNCHANGED <<manifest, records, lock, target, migrateFlag, source, backups, migrated, acked,
                 raced>>

(* loadMigrationSource: without the lock.                                  *)
LoadSource(p) ==
  /\ pc[p] = "load"
  /\ IF manifest.format = 1
     THEN /\ source' = [source EXCEPT ![p] = manifest]
          /\ pc' = [pc EXCEPT ![p] = "lock"]
          /\ UNCHANGED outcome
     ELSE /\ Says(p, "alreadyCurrent")
          /\ UNCHANGED source
  /\ UNCHANGED <<manifest, records, lock, target, migrateFlag, backups, migrated, acked, raced>>

LockForMigration(p) ==
  /\ pc[p] = "lock"
  /\ lock = Free
  /\ lock' = p
  /\ pc' = [pc EXCEPT ![p] = "backup"]
  /\ UNCHANGED <<manifest, records, target, migrateFlag, source, backups, migrated, outcome, acked,
                 raced>>

(* acquireLock: another process holds the lock.                            *)
StoreLocked(p) ==
  /\ pc[p] \in {"lock", "capture"}
  /\ lock # Free
  /\ Says(p, "locked")
  /\ UNCHANGED <<manifest, records, lock, target, migrateFlag, source, backups, migrated, acked,
                 raced>>

(* Mutant: the rebuilt manifest is what is saved.                          *)
BackUpRebuilt(p) ==
  /\ pc[p] = "backup"
  /\ backups' = [backups EXCEPT ![p] = Migrated(source[p])]
  /\ pc' = [pc EXCEPT ![p] = "write"]
  /\ UNCHANGED <<manifest, records, lock, target, migrateFlag, source, migrated, outcome, acked,
                 raced>>

(* The manifest that is there now is copied, not the one that was loaded.  *)
BackUp(p) ==
  /\ pc[p] = "backup"
  /\ backups' = [backups EXCEPT ![p] = manifest]
  /\ pc' = [pc EXCEPT ![p] = "write"]
  /\ UNCHANGED <<manifest, records, lock, target, migrateFlag, source, migrated, outcome, acked,
                 raced>>

(* The migrated manifest replaces whatever manifest is there.              *)
WriteMigrated(p) ==
  /\ pc[p] = "write"
  /\ CanMigrate(source[p])
  /\ manifest' = Migrated(source[p])
  /\ raced' = (raced \/ manifest # source[p])
  /\ pc' = [pc EXCEPT ![p] = "verify"]
  /\ UNCHANGED <<records, lock, target, migrateFlag, source, backups, migrated, outcome, acked>>

(* Every listed record is opened again; then the lock is released.         *)
VerifyMigrated(p) ==
  /\ pc[p] = "verify"
  /\ manifest.ids \subseteq records
  /\ migrated' = [migrated EXCEPT ![p] = TRUE]
  /\ pc' = [pc EXCEPT ![p] = "capture"]
  /\ lock' = Free
  /\ UNCHANGED <<manifest, records, target, migrateFlag, source, backups, outcome, acked, raced>>

(* A file operation under the lock throws; finally releases.               *)
MigrationFails(p) ==
  /\ pc[p] \in {"backup", "write", "verify"}
  /\ lock' = Free
  /\ Says(p, "migrationFailed")
  /\ UNCHANGED <<manifest, records, target, migrateFlag, source, backups, migrated, acked, raced>>

Death(p) ==
  /\ pc[p] # "idle"
  /\ lock' = IF lock = p THEN Free ELSE lock
  /\ Says(p, "died")
  /\ UNCHANGED <<manifest, records, target, migrateFlag, source, backups, migrated, acked, raced>>

(* Mutant: a snapshot that is captured again moves to the end.             *)
MovedToEnd(history, s) == Append(SelectSeq(history, LAMBDA x : x # s), s)

(* buildNextManifest: a snapshot is listed once.                           *)
NextHistory(history, s) == IF s \in ToSet(history) THEN history ELSE Append(history, s)

(* captureProject and commitSnapshotBundle.                                *)
Capture(p) ==
  /\ pc[p] = "capture"
  /\ lock = Free
  /\ manifest' = FormatTwo(NextHistory(manifest.history, target[p]))
  /\ records' = records \cup {target[p]}
  /\ acked' = acked \cup {target[p]}
  /\ Says(p, "written")
  /\ UNCHANGED <<lock, target, migrateFlag, source, backups, migrated, raced>>

Step(p) ==
  \/ Inspect(p) \/ LoadSource(p) \/ LockForMigration(p) \/ StoreLocked(p) \/ BackUp(p)
  \/ WriteMigrated(p) \/ VerifyMigrated(p) \/ MigrationFails(p) \/ Capture(p)

Next == \E p \in Procs :
  \/ \E s \in Snapshots, flag \in BOOLEAN : Begin(p, s, flag)
  \/ Step(p)
  \/ Death(p)

Spec == Init /\ [][Next]_migrationVars

-----------------------------------------------------------------------------
OldManifest == FormatOne(Inherited, LatestV1)
Manifests == [format : {1, 2}, ids : SUBSET Snapshots, latest : Snapshots,
              history : Seq(Snapshots)]

Stages == {"idle", "inspect", "load", "lock", "backup", "write", "verify", "capture"}

TypeOK ==
  /\ manifest \in Manifests
  /\ records \in SUBSET Snapshots
  /\ lock \in Procs \cup {Free}
  /\ pc \in [Procs -> Stages]
  /\ target \in [Procs -> Snapshots]
  /\ migrateFlag \in [Procs -> BOOLEAN]
  /\ source \in [Procs -> {None, OldManifest}]
  /\ backups \in [Procs -> {None} \cup Manifests]
  /\ migrated \in [Procs -> BOOLEAN]
  /\ acked \in SUBSET Snapshots
  /\ raced \in BOOLEAN

(* Nothing of the old store is lost and nothing written since is forgotten:*)
(* the manifest lists what it inherited and every capture that was         *)
(* reported, unless two migrations overlapped (migrateProject loads its    *)
(* source before the lock).                                                *)
NothingForgotten ==
  /\ Inherited \subseteq manifest.ids
  /\ ~ raced => acked \subseteq manifest.ids

(* The recovered chronology: the snapshots the store inherited come first, *)
(* the known latest of them last among them, the others by their time.     *)
ChronologyRecovered ==
  manifest.format = 2 =>
    LET old == SubSeq(manifest.history, 1, Cardinality(Inherited)) IN
    /\ ToSet(old) = Inherited
    /\ Last(old) = LatestV1
    /\ \A i, j \in 1..(Len(old) - 1) : i < j => Time[old[i]] <= Time[old[j]]

(* A migration loses nothing, be it an entry or the order of them.         *)
MigrationKeepsAll == NothingForgotten /\ ChronologyRecovered

(* "The pre-migration backup is intact" (store.ts): a process that got as  *)
(* far as replacing the manifest has a backup of what it migrated, unless  *)
(* two migrations overlapped.                                              *)
BackupIsWhatWasMigrated == \A p \in Procs :
  (pc[p] = "verify" \/ migrated[p]) /\ ~ raced => backups[p] = source[p]

(* What the proofs need besides.  The manifest is the inherited one, or a  *)
(* chronology that begins with the recovered one.                          *)
Recovered == RecoveredHistory(Inherited, LatestV1)
ManifestInv ==
  \/ manifest = OldManifest
  \/ manifest = FormatTwo(manifest.history) /\ IsPrefix(Recovered, manifest.history)

(* A migration holds the lock from its backup to its verification: until   *)
(* it has replaced the manifest, its backup is the manifest.               *)
MigratingInv(p) ==
  /\ pc[p] \in {"backup", "write", "verify"} <=> lock = p
  /\ pc[p] \in {"lock", "backup", "write", "verify"} => source[p] = OldManifest
  /\ pc[p] = "write" => backups[p] = manifest
  /\ pc[p] \in {"verify", "capture"} => manifest.format = 2
  /\ migrated[p] => pc[p] \in {"capture", "idle"}

IInv ==
  /\ TypeOK /\ ManifestInv /\ NothingForgotten /\ BackupIsWhatWasMigrated
  /\ \A p \in Procs : MigratingInv(p)

(* A store is migrated once: no step takes it back to format 1, and no     *)
(* snapshot changes its place in the chronology, unless migrations overlap.*)
ChronologyIsKept ==
  [][manifest.format = 2 /\ ~ raced' => IsPrefix(manifest.history, manifest'.history)]_migrationVars
=============================================================================
