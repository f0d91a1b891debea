--------------------------- MODULE MemoryCommands ---------------------------
(***************************************************************************)
(* The memory subcommands over a store: what a preview says, what an apply *)
(* does, and the exit code (application/src: memory-process.ts,            *)
(* memory-preview.ts, memory-project.ts).                                  *)
(*                                                                         *)
(* A store is a record: whether its directory is there, its manifest       *)
(* ("none", "damaged", "newer", "older", "current", or "odd": another      *)
(* schema), the snapshots and the evidence that manifest lists, the        *)
(* records whose file is damaged, the listed ones whose file is gone, the  *)
(* files no manifest lists (stray), whether an unfinished commit has left  *)
(* files staged (staging; those of other records), and whether another     *)
(* process holds the lock.  How a store operation takes effect in steps is *)
(* the matter of ProjectStore, StoreRepair and StoreMigration; here nobody *)
(* comes between them.                                                     *)
(***************************************************************************)
EXTENDS Integers, Sequences, FiniteSets, SequencesExt

CONSTANTS
  MaxSnapshots,  \* MAX_SNAPSHOTS_PER_PROJECT
  Cites          \* the evidence each snapshot cites

None == [o \in {} |-> 0]
Succeeds(says, store) == [ok |-> TRUE, exit |-> 0, says |-> says, store |-> store, code |-> "none"]
Fails(code, exit, says, store) == [ok |-> FALSE, exit |-> exit, says |-> says, store |-> store, code |-> code]
Escapes(code, store) == Fails(code, 1, [uncaught |-> TRUE], store)   \* nothing catches what was thrown

\* memoryErrorExitCode: by what the store complains of.
MemoryErrorExitCode(code) ==
  CASE code \in {"invalid input", "confirmation mismatch"} -> 2
    [] code \in {"path escape", "locked", "corruption", "integrity", "newer", "migration required", "export conflict"} -> 4
    [] OTHER -> 1

StoreFails(code, store) == Fails(code, MemoryErrorExitCode(code), None, store)

-----------------------------------------------------------------------------
(* What the store answers. *)

Members(s) == ToSet(s.snaps) \union s.evid
Broken(s) == (s.damaged \union s.gone) \intersect Members(s)
NoStore == [dir |-> FALSE, manifest |-> "none", snaps |-> <<>>, evid |-> {}, damaged |-> {}, gone |-> {}, stray |-> {}, staging |-> FALSE, locked |-> FALSE]

\* readManifest: the error it ends with, "none" when there is nothing to read or it can be.
ReadManifestError(s) ==
  CASE s.manifest = "damaged" -> "corruption"
    [] s.manifest \in {"newer", "odd"} -> "newer"
    [] s.manifest = "older" -> "migration required"
    [] OTHER -> "none"

VersionState(s) ==
  CASE s.manifest = "none" -> "noPriorMemory"
    [] s.manifest = "newer" -> "unsupportedNewer"
    [] s.manifest = "odd" -> "incompatibleSchema"
    [] s.manifest = "older" -> "migrationRequired"
    [] OTHER -> "supported"   \* a damaged manifest keeps the initial value

\* inspect reads names, not contents: a damaged record has a name, a missing one does not.
Inspect(s) ==
  LET listed == s.manifest \notin {"none", "damaged"} IN
  [ exists |-> s.dir, version |-> VersionState(s),
    snapshots |-> IF listed THEN Len(s.snaps) ELSE 0, evidence |-> IF listed THEN Cardinality(s.evid) ELSE 0,
    clean |-> IF s.manifest = "none" THEN ~s.dir
              ELSE s.manifest \notin {"damaged", "newer"} /\ ~s.staging /\ s.stray = {} /\ s.gone = {} ]

\* verify reads every listed record; a manifest of another version is a failure too.
Verify(s) ==
  [ manifest |-> s.manifest = "current",
    ok |-> s.manifest = "none" \/ (s.manifest = "current" /\ Broken(s) = {}) ]

-----------------------------------------------------------------------------
(* Which project, and its documents. *)

\* resolveExplicitProjectId: a flag wins over the configuration, and is not corrected by it.
ResolveExplicitProjectId(given, configId) ==
  LET id == IF "projectId" \in DOMAIN given THEN given.projectId ELSE configId
  IN IF id = "none" THEN "missing" ELSE IF id = "bad" THEN "invalid" ELSE id

Unresolved == {"missing", "invalid"}

\* resolveReadIdentity: only an invalid configuration stops a reading command
\* that names no project; a root without documents has just no identity.
ResolveReadIdentity(given, w) ==
  IF "projectId" \in DOMAIN given THEN ResolveExplicitProjectId(given, "none")
  ELSE IF w.load = "config invalid" THEN "invalid"
  ELSE ResolveExplicitProjectId(given, IF w.load = "ok" THEN w.configId ELSE "none")

-----------------------------------------------------------------------------
(* capture: observe, derive, reconcile with the store, commit.  The world    *)
(* gives the snapshot and the evidence that come of the documents, and       *)
(* whether the runtime can derive them.                                      *)

BundleOf(w) == {w.snapshot} \union Cites[w.snapshot]
Idempotent(s, w) == w.snapshot \in ToSet(s.snaps) /\ Cites[w.snapshot] \subseteq s.evid

\* commitSnapshotBundle: the error it ends with. A record that is already there
\* is compared, so it must be readable. The next manifest is built from the old
\* one and the snapshot, listed or not: twice it is refused.
CommitError(s, w) ==
  IF s.locked THEN "locked"
  ELSE IF ReadManifestError(s) # "none" THEN ReadManifestError(s)
  ELSE IF BundleOf(w) \intersect Broken(s) # {} THEN "integrity"
  ELSE IF Idempotent(s, w) THEN "none"
  ELSE IF w.snapshot \in ToSet(s.snaps) THEN "invalid input"
  ELSE IF Len(s.snaps) >= MaxSnapshots THEN "limit"
  ELSE "none"

\* The files of a commit: a record that is there already, listed or not, stays as
\* it is, and its staged copy stays staged.
Filed(s, w) ==
  [s EXCEPT !.dir = TRUE, !.staging = @ \/ BundleOf(w) \intersect (Members(s) \union s.stray) # {},
            !.stray = @ \union (BundleOf(w) \ Members(s))]

Committed(s, w) ==
  [Filed(s, w) EXCEPT !.manifest = "current", !.staging = FALSE, !.stray = @ \ BundleOf(w),
                      !.snaps = Append(@, w.snapshot), !.evid = @ \union Cites[w.snapshot]]

\* previewMigration and migrateProject: the same manifest, every record read first.
Migrates(s, w) == w.migrates /\ Broken(s) = {}
Migrated(s) == [s EXCEPT !.manifest = "current"]

\* projectCommit, on what the store would be: nothing is compared but the snapshot.
ProjectCommit(s, w) ==
  LET new == w.snapshot \notin ToSet(s.snaps) IN
  [ wouldCreateSnapshot |-> new, wouldBeIdempotent |-> ~new /\ w.snapshot \notin Broken(s),
    snapshotCount |-> Len(s.snaps) + (IF new THEN 1 ELSE 0) ]

RunCapturePreview(given, s, w, needsMigration) ==
  LET seen == IF needsMigration THEN Migrated(s) ELSE s IN
  IF needsMigration /\ ~given.migrateStore THEN Fails("migration required", 4, None, s)
  ELSE IF needsMigration /\ ~Migrates(s, w) THEN Escapes("migration", s)
  ELSE IF ~w.derives \/ ReadManifestError(seen) # "none" THEN Fails("capture", 1, None, s)
  ELSE Succeeds(ProjectCommit(seen, w) @@ [wouldMigrateStore |-> needsMigration], s)

RunCaptureApply(given, s, w, needsMigration) ==
  LET migrated == IF needsMigration THEN Migrated(s) ELSE s
      told == IF needsMigration THEN [storeMigrated |-> TRUE] ELSE None
  IN IF needsMigration /\ ~given.migrateStore THEN Fails("migration required", 4, None, s)
     ELSE IF needsMigration /\ s.locked THEN StoreFails("locked", s)
     ELSE IF needsMigration /\ ~Migrates(s, w) THEN StoreFails("corruption", s)
     ELSE IF ~w.derives \/ CommitError(migrated, w) \notin {"none", "invalid input", "limit"}
          THEN Fails("capture", 1, told, migrated)
     ELSE IF CommitError(migrated, w) # "none" THEN Fails("capture", 1, told, Filed(migrated, w))
     ELSE LET committed == IF Idempotent(migrated, w) THEN [migrated EXCEPT !.staging = FALSE] ELSE Committed(migrated, w)
          IN Succeeds([idempotent |-> Idempotent(migrated, w), snapshotCount |-> Inspect(committed).snapshots] @@ told, committed)

RunCapture(given, s, w) ==
  LET id == ResolveExplicitProjectId(given, w.configId)
      needsMigration == Inspect(s).exists /\ Inspect(s).version = "migrationRequired"
  IN IF w.load # "ok" \/ id \in Unresolved THEN Fails("identity", 2, None, s)
     ELSE IF given.apply THEN RunCaptureApply(given, s, w, needsMigration)
     ELSE RunCapturePreview(given, s, w, needsMigration)

-----------------------------------------------------------------------------
(* The reading commands. *)

\* status: the versions before the damage; one that inspect or verify found.
RunStatus(given, s, w) ==
  LET id == ResolveReadIdentity(given, w)
      version == Inspect(s).version
      status == IF ~Inspect(s).exists THEN "noPriorMemory"
                ELSE IF version # "supported" THEN version
                ELSE IF ~Verify(s).ok \/ ~Inspect(s).clean THEN "corrupt" ELSE "healthy"
  IN IF id \in Unresolved THEN Fails("identity", 2, None, s) ELSE Succeeds([status |-> status], s)

\* history: newest first, up to the limit; what the store complains of escapes.
RunHistory(given, s, w) ==
  IF ResolveReadIdentity(given, w) \in Unresolved THEN Fails("identity", 2, None, s)
  ELSE IF ReadManifestError(s) # "none" THEN Escapes(ReadManifestError(s), s)
  ELSE LET listed == IF s.manifest = "none" THEN <<>> ELSE s.snaps
           kept == IF Len(listed) < given.limit THEN Len(listed) ELSE given.limit
       IN Succeeds([records |-> SubSeq(Reverse(listed), 1, kept), snapshotCount |-> Len(listed)], s)

\* changes: the last two captures, or the two named; with the evidence they cite.
RunChanges(given, s, w) ==
  LET id == ResolveExplicitProjectId(given, w.configId)
      n == Len(s.snaps)
      named == "previous" \in DOMAIN given
      pair == IF named THEN {given.previous, given.current} ELSE {s.snaps[n - 1], s.snaps[n]}
      read == pair \union UNION {Cites[x] : x \in pair}
      status(text) == [Succeeds([status |-> text], s) EXCEPT !.exit = 3]
  IN IF (w.load # "ok" /\ "projectId" \notin DOMAIN given) \/ id \in Unresolved THEN Fails("identity", 2, None, s)
     ELSE IF ReadManifestError(s) # "none" THEN Fails("compare", 1, None, s)
     ELSE IF s.manifest = "none" \/ (~named /\ n = 0) THEN status("noPriorMemory")
     ELSE IF ~named /\ n = 1 THEN status("insufficientHistory")
     ELSE IF ~pair \subseteq ToSet(s.snaps) \/ ~read \subseteq Members(s) \ Broken(s) THEN Fails("compare", 1, None, s)
     ELSE Succeeds([status |-> "compared"], s)

\* timeline: every capture with the one before it; a record that cannot be read
\* tells itself from the other errors (timelineErrorExitCode), as in changes it does not.
RunTimeline(given, s, w) ==
  LET read == IF Len(s.snaps) < 2 THEN {} ELSE ToSet(s.snaps) \union UNION {Cites[x] : x \in ToSet(s.snaps)} IN
  IF ReadManifestError(s) # "none" THEN Fails("timeline", 1, None, s)
  ELSE IF s.manifest # "none" /\ ~read \subseteq Members(s) \ Broken(s) THEN Fails("stored record", 4, None, s)
  ELSE Succeeds([pairs |-> IF read = {} THEN 0 ELSE Len(s.snaps) - 1], s)

-----------------------------------------------------------------------------
(* export, delete and repair. *)

ExportError(s, w) ==
  IF w.destination = "unsafe" THEN "path escape"
  ELSE IF ~Verify(s).manifest THEN "missing"
  ELSE IF ~Verify(s).ok THEN "corruption"
  ELSE IF w.destination = "taken" THEN "invalid input" ELSE "none"

\* The preview inspects and does not verify: a directory is enough to be exported.
RunExport(given, s, w) ==
  LET counts == [snapshots |-> Inspect(s).snapshots, evidence |-> Inspect(s).evidence] IN
  IF ResolveReadIdentity(given, w) \in Unresolved THEN Fails("identity", 2, None, s)
  ELSE IF ~given.apply
       THEN IF Inspect(s).exists THEN Succeeds([wouldExport |-> TRUE, counts |-> counts], s) ELSE Fails("no prior memory", 3, None, s)
  ELSE IF ExportError(s, w) # "none" THEN StoreFails(ExportError(s, w), s)
  ELSE Succeeds([exported |-> TRUE, counts |-> counts], s)

\* The confirmation names the project that is deleted, and so it must be resolved.
RunDelete(given, s, w) ==
  LET id == ResolveReadIdentity(given, w) IN
  IF id \in Unresolved THEN Fails("identity", 2, None, s)
  ELSE IF ~given.apply THEN Succeeds([wouldDelete |-> Inspect(s).exists], s)
  ELSE IF "confirm" \notin DOMAIN given \/ given.confirm # id THEN Fails("confirmation mismatch", 2, None, s)
  ELSE IF ~s.dir THEN Succeeds([deleted |-> FALSE], s)
  ELSE IF s.locked THEN StoreFails("locked", s)
  ELSE IF ~given.forceCorruptDelete /\ ~Verify(s).ok THEN StoreFails("corruption", s)
  ELSE Succeeds([deleted |-> TRUE], NoStore)

\* What a repair plan would act on: a manifest that does not read, or the records
\* that do not verify, are gone, or are listed nowhere (StoreRepair has the steps).
PlannedActions(s) ==
  CASE s.manifest = "damaged" -> {"manifest"}
    [] s.manifest \in {"current", "older"} -> s.damaged \union s.gone \union s.stray
    [] OTHER -> {}

Repaired(s) ==
  IF s.manifest = "damaged" THEN [s EXCEPT !.manifest = "none"]
  ELSE [s EXCEPT !.snaps = SelectSeq(@, LAMBDA x : x \notin Broken(s)), !.evid = @ \ Broken(s),
                 !.damaged = {}, !.gone = {}, !.stray = @ \ s.damaged]

\* The apply is of the plan made in the same command, and a plan that is stale is refused.
RunRepair(given, s, w) ==
  IF ResolveReadIdentity(given, w) \in Unresolved THEN Fails("identity", 2, None, s)
  ELSE IF ~given.apply THEN Succeeds([actionCount |-> Cardinality(PlannedActions(s))], s)
  ELSE IF s.locked THEN StoreFails("locked", s)
  ELSE Succeeds([actionCount |-> Cardinality(PlannedActions(s))], IF PlannedActions(s) = {} THEN s ELSE Repaired(s))

RunMemoryProcess(sub, given, s, w) ==
  CASE sub = "capture" -> RunCapture(given, s, w)
    [] sub = "changes" -> RunChanges(given, s, w)
    [] sub = "timeline" -> RunTimeline(given, s, w)
    [] sub = "status" -> RunStatus(given, s, w)
    [] sub = "history" -> RunHistory(given, s, w)
    [] sub = "export" -> RunExport(given, s, w)
    [] sub = "delete" -> RunDelete(given, s, w)
    [] sub = "repair" -> RunRepair(given, s, w)
=============================================================================
