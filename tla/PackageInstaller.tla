-------------------------- MODULE PackageInstaller --------------------------
(***************************************************************************)
(* The installer itself (installer.ts, executor.ts and the write adapter   *)
(* of installer/src): what it remembers, the plans it makes and how it     *)
(* carries them out, one file after the other, in place, with no way back. *)
(*                                                                         *)
(* Its state is what is installed (at most one manifest), the updates and  *)
(* the rollbacks; a disk is the files and links of it by their segments.   *)
(* The content 0 is that of a file a write left half done.                 *)
(***************************************************************************)
EXTENDS InstallerGuards

Kernel == INSTANCE KernelGuards

Failed(state, code, reasons) == [ok |-> FALSE, code |-> code, reasons |-> reasons, state |-> state]

-----------------------------------------------------------------------------
(* What it remembers. *)

InputReasons(input) ==
  IF PackageReasons(input.manifest) # {} THEN PackageReasons(input.manifest)
  ELSE Reasons([missing_root |-> IsBlankPath(input.root), missing_installed_at |-> input.installedAt = 0])

\* The kernel looks at the form of a manifest only, and its form is right.
Install(state, input) ==
  LET manifest == [version |-> input.manifest.version, installedAt |-> input.installedAt, root |-> input.root]
  IN IF InputReasons(input) # {} THEN Failed(state, "invalidInput", InputReasons(input))
     ELSE IF ~Kernel!Passed(Kernel!ValidateJson("installManifest", [wellFormed |-> TRUE]))
     THEN Failed(state, "manifestValidationFailed", {})
     ELSE [ok |-> TRUE, state |-> [state EXCEPT !.installed = {manifest}]]

\* To the kernel a version is a text.
KernelPlan(plan) ==
  LET text(v) == IF v = 0 THEN "" ELSE ToString(v)
  IN [plan EXCEPT !.from = text(@), !.to = text(@)]

\* Where nothing is installed yet, the caller says what is.
ApplyUpdate(state, plan, current) ==
  LET base == IF state.installed = {} THEN current ELSE CHOOSE m \in state.installed : TRUE
  IN IF Kernel!CheckUpdatePlan(KernelPlan(plan)).status = "blocked" THEN Failed(state, "updateBlocked", Kernel!UpdateReasons(KernelPlan(plan)))
     ELSE [ok |-> TRUE, state |-> [state EXCEPT !.installed = {[base EXCEPT !.version = plan.to]}, !.updates = Append(@, plan.id)]]

RollbackReasons(rollback) ==
  Reasons([missing_rollback_id |-> IsBlankPath(rollback.id), rollback_paths_must_not_be_empty |-> rollback.paths = <<>>,
           rollback_path_must_not_be_empty |-> \E p \in Range(rollback.paths) : IsBlankPath(p),
           missing_rollback_created_at |-> rollback.createdAt = 0])

\* The first rollback of an id is the one that is kept.
Rollback(state, rollback) ==
  LET known == \E i \in DOMAIN state.rollbacks : state.rollbacks[i].id = rollback.id
  IN IF RollbackReasons(rollback) # {} THEN Failed(state, "rollbackInvalid", RollbackReasons(rollback))
     ELSE [ok |-> TRUE, state |-> IF known THEN state ELSE [state EXCEPT !.rollbacks = Append(@, rollback)]]

\* A path that is not there yet is to be removed when the rollback is done.
PlanRollbackCapture(input, disk, base) ==
  LET reasons == Reasons([missing_rollback_id |-> IsBlankPath(input.id), missing_root |-> IsBlankPath(input.root),
                          missing_rollback_created_at |-> input.createdAt = 0, rollback_paths_must_not_be_empty |-> input.paths = <<>>,
                          unsafe_rollback_path |-> \E p \in Range(input.paths) : ~IsSafeRelativePath(p)])
      operation(p) == [kind |-> IF Exists(disk, base, JoinPath(input.root, p)) THEN "backup" ELSE "remove", path |-> JoinPath(input.root, p)]
  IN [ok |-> reasons = {}, reasons |-> reasons, rollback |-> [id |-> input.id, paths |-> input.paths, createdAt |-> input.createdAt],
      operations |-> IF reasons = {} THEN [i \in DOMAIN input.paths |-> operation(input.paths[i])] ELSE <<>>]

-----------------------------------------------------------------------------
(* The write adapter. A fault is where it strikes and how: before anything *)
(* is written, or in the middle of it.                                     *)

NoFault == [at |-> 0, how |-> "none"]
BackupDirectory == ".oh-my-pm-backups"

\* What lies at a place that has been reached.
SortAt(disk, s) ==
  IF s \in DOMAIN disk THEN disk[s].sort
  ELSE IF \E t \in DOMAIN disk : IsStrictPrefix(s, t) THEN "directory" ELSE "none"
Put(disk, s, content) == [t \in DOMAIN disk \union {s} |-> IF t = s THEN [sort |-> "file", content |-> content] ELSE disk[t]]
WithoutFile(disk, s) == [t \in DOMAIN disk \ {s} |-> disk[t]]

\* Nothing can be made below a file or below a link that leads to no directory.
CanMake(disk, s) ==
  \A n \in 1..(Len(s) - 1) :
    LET parent == Reached(disk, SubSeq(s, 1, n))
    IN CASE SortAt(disk, parent) = "link" -> SortAt(disk, disk[parent].to) = "directory" [] OTHER -> SortAt(disk, parent) # "file"

\* A link at the place is refused; one among its parents is not looked for.
Refusal(disk, places, absent) ==
  IF places = {} THEN "unsafe_path"
  ELSE LET sort == SortAt(disk, Reached(disk, CHOOSE s \in places : TRUE))
       IN CASE sort = "link" -> "symlink_refused" [] sort = "directory" -> "not_a_file" [] sort = "none" -> absent [] OTHER -> ""

\* The file is written in place: a write that fails may have emptied it.
Written(disk, makes, s, content, how) ==
  IF makes /\ how = "none" THEN Put(disk, s, content) ELSE IF makes /\ how = "midway" THEN Put(disk, s, 0) ELSE disk

WriteFile(disk, base, path, content, how) ==
  LET places == RealPaths(base, path)
      place == CHOOSE s \in places : TRUE
      refusal == Refusal(disk, places, "")
      makes == CanMake(disk, place)
  IN [message |-> IF refusal = "" /\ (how # "none" \/ ~makes) THEN "write_failed" ELSE refusal,
      disk |-> IF refusal # "" THEN disk ELSE Written(disk, makes, Reached(disk, place), content, how)]

RemoveFile(disk, base, path, how) ==
  LET places == RealPaths(base, path)
      refusal == Refusal(disk, places, "file_missing")
      message == IF refusal = "" /\ how # "none" THEN "remove_failed" ELSE refusal
  IN [message |-> message,
      disk |-> IF message # "" THEN disk ELSE WithoutFile(disk, Reached(disk, CHOOSE s \in places : TRUE))]

\* The copy lies below the root, under the rollback's id, or where links on the
\* way, and one at the copy's own place, lead from there.
BackupPlace(base, id, place) == base \o <<BackupDirectory>> \o id.segs \o SubSeq(place, Len(base) + 1, Len(place))
CopyPlace(disk, copy) == Follow(disk, Reached(disk, copy))

BackupFile(disk, base, path, id, how) ==
  LET places == IF IsSafeRelativePath(id) THEN RealPaths(base, path) ELSE {}
      place == CHOOSE s \in places : TRUE
      copy == BackupPlace(base, id, place)
      refusal == Refusal(disk, places, "file_missing")
      makes == CanMake(disk, copy) /\ SortAt(disk, CopyPlace(disk, copy)) # "directory"
  IN [message |-> IF refusal = "" /\ (how # "none" \/ ~makes) THEN "backup_failed" ELSE refusal,
      disk |-> IF refusal # "" THEN disk
               ELSE Written(disk, makes, CopyPlace(disk, copy), disk[Reached(disk, place)].content, how)]

-----------------------------------------------------------------------------
(* Carrying a plan out. *)

FilesFor(operation, files) ==
  LET named == {i \in DOMAIN files : NormalizePath(files[i].path) = NormalizePath(operation.path)}
  IN {files[i] : i \in {i \in named : \A j \in named : i <= j}}

ExecutionReasons(plan, files) ==
  LET operations == Range(plan.operations)
      beneath(p) == IsBeneath(plan.root, p) /\ Len(p.segs) > Len(plan.root.segs)
      without(kind) == \E o \in operations : o.kind = kind /\ FilesFor(o, files) = {}
  IN Reasons([install_plan_root_missing |-> IsBlankPath(plan.root), install_plan_package_invalid |-> PackageReasons(plan.manifest) # {},
              install_plan_operations_empty |-> plan.operations = <<>>,
              install_plan_operation_path_invalid |->
                \E o \in operations : IsBlankPath(o.path) \/ (~IsBlankPath(plan.root) /\ ~beneath(o.path)),
              missing_file_for_create |-> without("create"), missing_file_for_replace |-> without("replace"),
              checksum_mismatch |-> \E o \in operations : \E f \in FilesFor(o, files) : "checksum" \in DOMAIN o /\ f.checksum # o.checksum])

InstallBackups == Path("none", <<"install">>)

RunOperation(disk, base, operation, files, id, how) ==
  CASE operation.kind \in {"create", "replace"} ->
         WriteFile(disk, base, operation.path, (CHOOSE f \in FilesFor(operation, files) : TRUE).content, how)
    [] operation.kind = "remove" -> RemoveFile(disk, base, operation.path, how)
    [] operation.kind = "backup" -> BackupFile(disk, base, operation.path, id, how)

\* In order, up to and with the first that fails.
After(run, done) == [ok |-> done.message = "", disk |-> done.disk, messages |-> Append(run.messages, done.message)]
RunAll(disk, base, operations, files, id, fault) ==
  LET step(run, i) ==
        IF ~run.ok THEN run
        ELSE After(run, RunOperation(run.disk, base, operations[i], files, id, IF fault.at = i THEN fault.how ELSE "none"))
  IN FoldLeft(step, [ok |-> TRUE, disk |-> disk, messages |-> <<>>], [i \in DOMAIN operations |-> i])

\* What is remembered afterwards is the input's package, not the plan's.
Recorded(run, state, answer) ==
  [ok |-> run.ok /\ answer.ok, state |-> IF run.ok THEN answer.state ELSE state, disk |-> run.disk, messages |-> run.messages]
Untouched(disk) == [ok |-> TRUE, disk |-> disk, messages |-> <<>>]

ExecuteInstall(state, disk, base, input, plan, files, fault) ==
  LET reasons == ExecutionReasons(plan, files)
  IN IF reasons # {} THEN Recorded(Untouched(disk), state, Failed(state, "invalidPackage", reasons))
     ELSE Recorded(RunAll(disk, base, plan.operations, files, InstallBackups, fault), state, Install(state, input))

\* A rollback that is carried out makes its backups and is remembered.
ExecuteRollback(state, disk, base, rollback, fault) ==
  LET backups == [i \in DOMAIN rollback.paths |-> [kind |-> "backup", path |-> rollback.paths[i]]]
  IN IF RollbackReasons(rollback) # {}
     THEN Recorded(Untouched(disk), state, Failed(state, "rollbackInvalid", RollbackReasons(rollback)))
     ELSE Recorded(RunAll(disk, base, backups, <<>>, rollback.id, fault), state, Rollback(state, rollback))
=============================================================================
