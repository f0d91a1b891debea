----------------------------- MODULE ReleaseInstall -----------------------------
(***************************************************************************)
(* The release installer: applyReleaseInstallPlan moves a verified bundle  *)
(* into a prefix by renames out of a transaction directory, backs up what  *)
(* a forced replacement displaces, and rolls back when a step fails.       *)
(* Installers may run at the same time (nothing locks the prefix), die     *)
(* anywhere, and every rename, removal and verification may fail.          *)
(*                                                                         *)
(* Abstractions.                                                           *)
(*  - A managed place holds nothing, a dangling symbolic link, something   *)
(*    that is not an exact copy of a bundle (Foreign), or its part of a    *)
(*    version: then its content and its mode are what that version writes. *)
(*  - A transaction directory has an unguessable name (mkdtemp), so all of *)
(*    the staging is one step: nobody else sees it.                        *)
(*  - Which of the bundle's checks fail is a choice of the model.           *)
(***************************************************************************)
EXTENDS Naturals, Sequences, Functions

CONSTANTS
  Installers,  \* processes that run the installer, one invocation after the other
  Versions,    \* the bundles' versions; also the names of the version directories
  ShimNames,   \* the command shims of <prefix>/bin, in installation order
  Manifest,    \* install.json
  Absent,      \* nothing at a place
  Dangling,    \* a symbolic link that leads nowhere
  Foreign,     \* something no bundle wrote
  MaxFaults    \* bound: failed file operations and crashes

ASSUME InstallAssumption ==
  /\ MaxFaults \in Nat
  /\ ShimNames \in Seq(Range(ShimNames))
  /\ Versions # {}
  /\ {Absent, Dangling, Foreign} \cap Versions = {}
  /\ Manifest \notin Versions \cup Range(ShimNames)

VARIABLES
  prefix,    \* what every managed place holds
  pc,        \* where each installer is
  version,   \* the version it installs
  force,     \* --force was given
  action,    \* the plan's action when it was checked the last time
  todo,      \* the places still to do in the present phase, in order
  moved,     \* movedIntoPlace: the places it renamed into
  backup,    \* the backups in its transaction directory: what each place held
  restored,  \* the backups it renamed back
  reasons,   \* the rollback went wrong somewhere
  outcome,   \* what it reported last
  before,    \* history: the prefix when its transaction began
  alone,     \* history: no other installer was at work since then
  faults     \* how many faults there were

process == <<pc, version, force, action, todo, moved, backup, restored, reasons, outcome>>
installVars == <<prefix, process, before, alone, faults>>

Shims == Range(ShimNames)
Places == Versions \cup Shims \cup {Manifest}
Contents == Versions \cup {Absent, Dangling, Foreign}
Nothing == [p \in Places |-> Absent]

(* What an installation of v owns, in the order in which it is moved.      *)
InOrder(v) == <<v>> \o ShimNames \o <<Manifest>>
Managed(v) == Range(InOrder(v))

(* existsSync follows links: a dangling one reads as absent.               *)
Exists(p) == prefix[p] \notin {Absent, Dangling}

(* pathPresent does not follow links.                                      *)
Present(p) == prefix[p] # Absent

ExactlyInstalled(v) == \A p \in Managed(v) : prefix[p] = v

(* Mutant: the manifest alone decides that a version is installed.         *)
PlanByManifest(v, forced) ==
  CASE prefix[Manifest] = v               -> "already-installed"
    [] \A p \in Managed(v) : ~ Exists(p)  -> "create"
    [] OTHER                              -> IF forced THEN "replace" ELSE "blocked"

(* Mutant: only the version directory decides that nothing is there.       *)
PlanByDirectory(v, forced) ==
  CASE ExactlyInstalled(v)                -> "already-installed"
    [] ~ Exists(v)                        -> "create"
    [] OTHER                              -> IF forced THEN "replace" ELSE "blocked"

(* resolveReleaseInstallPlan, for an invocation with --apply.              *)
PlanAction(v, forced) ==
  CASE ExactlyInstalled(v)                -> "already-installed"
    [] \A p \in Managed(v) : ~ Exists(p)  -> "create"
    [] OTHER                              -> IF forced THEN "replace" ELSE "blocked"

Working == {"applying", "backing", "moving", "checking", "removing", "restoring", "judging"}
Failures == {"blocked", "staged_rejected", "apply_failed", "post_install_verification_failed"}
Successes == {"created", "replaced", "already-installed"}

Init ==
  /\ prefix \in [Places -> Contents]
  /\ \A p \in Places : prefix[p] \in Versions => p \in {prefix[p]} \cup Shims \cup {Manifest}
  /\ pc = [i \in Installers |-> "idle"]
  /\ version = [i \in Installers |-> CHOOSE v \in Versions : TRUE]
  /\ force = [i \in Installers |-> FALSE]
  /\ action = [i \in Installers |-> "blocked"]
  /\ todo = [i \in Installers |-> << >>]
  /\ moved = [i \in Installers |-> {}]
  /\ backup = [i \in Installers |-> Nothing]
  /\ restored = [i \in Installers |-> {}]
  /\ reasons = [i \in Installers |-> FALSE]
  /\ outcome = [i \in Installers |-> "none"]
  /\ before = [i \in Installers |-> Nothing]
  /\ alone = [i \in Installers |-> TRUE]
  /\ faults = 0

Faulty == faults < MaxFaults /\ faults' = faults + 1

(* The invocation is over.  A transaction directory that is not removed    *)
(* stays as it is; the next invocation makes its own, and nobody looks at  *)
(* the old one, so the model keeps it only as long as a property does.     *)
Ends(i, code, removed) ==
  /\ pc' = [pc EXCEPT ![i] = "idle"]
  /\ outcome' = [outcome EXCEPT ![i] = code]
  /\ todo' = [todo EXCEPT ![i] = << >>]
  /\ moved' = [moved EXCEPT ![i] = {}]
  /\ reasons' = [reasons EXCEPT ![i] = FALSE]
  /\ IF removed \/ ~ alone[i]
     THEN /\ backup' = [backup EXCEPT ![i] = Nothing]
          /\ restored' = [restored EXCEPT ![i] = {}]
     ELSE UNCHANGED <<backup, restored>>
  /\ force' = [force EXCEPT ![i] = FALSE]
  /\ action' = [action EXCEPT ![i] = "blocked"]
  /\ UNCHANGED <<prefix, version, before, alone>>

(* runReleaseInstallCli: the plan is resolved and either refused or applied*)
Begin(i, v, forced) ==
  /\ pc[i] = "idle"
  /\ LET a == PlanAction(v, forced)
         refused == a = "blocked" IN
     /\ pc' = [pc EXCEPT ![i] = IF refused THEN "idle" ELSE "applying"]
     /\ outcome' = [j \in Installers |-> IF j = i /\ refused THEN "blocked"
                                        ELSE IF pc[j] = "idle" THEN "none" ELSE outcome[j]]
     /\ action' = [action EXCEPT ![i] = a]
  /\ version' = [version EXCEPT ![i] = v]
  /\ force' = [force EXCEPT ![i] = forced]
  /\ backup' = [j \in Installers |-> IF pc[j] = "idle" THEN Nothing ELSE backup[j]]
  /\ restored' = [j \in Installers |-> IF pc[j] = "idle" THEN {} ELSE restored[j]]
  /\ alone' = [j \in Installers |-> j = i /\ \A k \in Installers \ {i} : pc[k] \notin Working]
  /\ before' = [j \in Installers |-> IF alone'[j] THEN prefix ELSE Nothing]
  /\ UNCHANGED <<prefix, moved, reasons, todo, faults>>

(* applyReleaseInstallPlan: the plan is resolved once more, and there is   *)
(* nothing to do, or it may not be done any more.                          *)
PlanOverturned(i) ==
  /\ pc[i] = "applying"
  /\ LET a == PlanAction(version[i], force[i]) IN
     a \in {"blocked", "already-installed"} /\ Ends(i, a, TRUE)
  /\ UNCHANGED faults

(* The bundle is copied and verified in a new transaction directory.       *)
Stage(i) ==
  /\ pc[i] = "applying"
  /\ LET a == PlanAction(version[i], force[i]) IN
     /\ a \in {"create", "replace"}
     /\ action' = [action EXCEPT ![i] = a]
     /\ pc' = [pc EXCEPT ![i] = IF a = "replace" THEN "backing" ELSE "moving"]
  /\ todo' = [todo EXCEPT ![i] = InOrder(version[i])]
  /\ UNCHANGED <<prefix, version, force, moved, backup, restored, reasons, outcome, before, alone,
                 faults>>

(* The staged copy does not verify: the transaction directory is removed.  *)
StageRejected(i) ==
  /\ pc[i] = "applying"
  /\ PlanAction(version[i], force[i]) \in {"create", "replace"}
  /\ Faulty
  /\ Ends(i, "staged_rejected", TRUE)

(* Mutant: a displaced target is removed at once.                          *)
BackedUpNowhere(i, p) == backup[i]

(* What the backups hold once p is moved to them.                          *)
BackedUp(i, p) == [backup[i] EXCEPT ![p] = prefix[p]]

(* A target that exists is renamed into the backup directory.              *)
BackUp(i) ==
  /\ pc[i] = "backing"
  /\ todo[i] # << >>
  /\ LET p == Head(todo[i]) IN
     IF Exists(p)
     THEN /\ backup' = [backup EXCEPT ![i] = BackedUp(i, p)]
          /\ prefix' = [prefix EXCEPT ![p] = Absent]
     ELSE UNCHANGED <<backup, prefix>>
  /\ todo' = [todo EXCEPT ![i] = Tail(@)]
  /\ UNCHANGED <<pc, version, force, action, moved, restored, reasons, outcome, before, alone, faults>>

BackedUpAll(i) ==
  /\ pc[i] = "backing"
  /\ todo[i] = << >>
  /\ pc' = [pc EXCEPT ![i] = "moving"]
  /\ todo' = [todo EXCEPT ![i] = InOrder(version[i])]
  /\ UNCHANGED <<prefix, version, force, action, moved, backup, restored, reasons, outcome, before,
                 alone, faults>>

(* A directory is not renamed onto something; a file replaces what is there*)
CanMoveOnto(p) == p \in Versions => ~ Present(p)

(* The staged version directory, each shim and install.json last.          *)
Move(i) ==
  /\ pc[i] = "moving"
  /\ todo[i] # << >>
  /\ LET p == Head(todo[i]) IN
     /\ CanMoveOnto(p)
     /\ prefix' = [prefix EXCEPT ![p] = version[i]]
     /\ moved' = [moved EXCEPT ![i] = @ \cup {p}]
  /\ todo' = [todo EXCEPT ![i] = Tail(@)]
  /\ UNCHANGED <<pc, version, force, action, backup, restored, reasons, outcome, before, alone, faults>>

MovedAll(i) ==
  /\ pc[i] = "moving"
  /\ todo[i] = << >>
  /\ pc' = [pc EXCEPT ![i] = "checking"]
  /\ UNCHANGED <<prefix, version, force, action, todo, moved, backup, restored, reasons, outcome, before, alone, faults>>

StartRollback(i, code) ==
  /\ pc' = [pc EXCEPT ![i] = "removing"]
  /\ todo' = [todo EXCEPT ![i] = InOrder(version[i])]
  /\ outcome' = [outcome EXCEPT ![i] = code]
  /\ UNCHANGED <<prefix, version, force, action, moved, backup, restored, reasons, before, alone>>

(* A rename throws: an operating-system error, or a directory in the way.  *)
ApplyFails(i) ==
  /\ pc[i] \in {"backing", "moving"}
  /\ \/ Faulty
     \/ /\ pc[i] = "moving" /\ todo[i] # << >> /\ ~ CanMoveOnto(Head(todo[i]))
        /\ UNCHANGED faults
  /\ StartRollback(i, "apply_failed")

(* evaluatePostInstallState: the installed state is derived again.         *)
CheckPasses(i) ==
  /\ pc[i] = "checking"
  /\ ExactlyInstalled(version[i])
  /\ Ends(i, IF action[i] = "replace" THEN "replaced" ELSE "created", TRUE)
  /\ UNCHANGED faults

CheckFails(i) ==
  /\ pc[i] = "checking"
  /\ IF ExactlyInstalled(version[i]) THEN Faulty ELSE UNCHANGED faults
  /\ StartRollback(i, "post_install_verification_failed")

(* Mutant: the manifest, moved last, is forgotten.                         *)
UndoButManifest(i) == moved[i] \ {Manifest}

(* Only what was moved into place is undone.                               *)
Undo(i) == moved[i]

Removed(i, p) ==
  /\ prefix' = [prefix EXCEPT ![p] = Absent]
  /\ UNCHANGED <<reasons, faults>>

NotRemoved(i, p) ==
  /\ Present(p)
  /\ Faulty
  /\ reasons' = [reasons EXCEPT ![i] = TRUE]
  /\ UNCHANGED prefix

(* restoreBackups, 1: the new state is removed, whatever it is by now.     *)
RemoveNew(i) ==
  /\ pc[i] = "removing"
  /\ todo[i] # << >>
  /\ LET p == Head(todo[i]) IN
     \/ p \in Undo(i) /\ (Removed(i, p) \/ NotRemoved(i, p))
     \/ p \notin Undo(i) /\ UNCHANGED <<prefix, reasons, faults>>
  /\ todo' = [todo EXCEPT ![i] = Tail(@)]
  /\ UNCHANGED <<pc, version, force, action, moved, backup, restored, outcome, before, alone>>

RemovedAll(i) ==
  /\ pc[i] = "removing"
  /\ todo[i] = << >>
  /\ pc' = [pc EXCEPT ![i] = "restoring"]
  /\ todo' = [todo EXCEPT ![i] = InOrder(version[i])]
  /\ UNCHANGED <<prefix, version, force, action, moved, backup, restored, reasons, outcome, before,
                 alone, faults>>

BackedUpPlaces(i) == {p \in Places : backup[i][p] # Absent}

(* ... 2: the backup of p stays where it is.                               *)
NotRestored(i, p) ==
  /\ \/ Present(p) /\ UNCHANGED faults
     \/ ~ Present(p) /\ Faulty
  /\ reasons' = [reasons EXCEPT ![i] = TRUE]
  /\ UNCHANGED <<prefix, restored>>

Restored(i, p) ==
  /\ ~ Present(p)
  /\ prefix' = [prefix EXCEPT ![p] = backup[i][p]]
  /\ restored' = [restored EXCEPT ![i] = @ \cup {p}]
  /\ UNCHANGED <<reasons, faults>>

RestoreBackup(i) ==
  /\ pc[i] = "restoring"
  /\ todo[i] # << >>
  /\ LET p == Head(todo[i]) IN
     \/ p \in BackedUpPlaces(i) /\ (Restored(i, p) \/ NotRestored(i, p))
     \/ p \notin BackedUpPlaces(i) /\ UNCHANGED <<prefix, reasons, restored, faults>>
  /\ todo' = [todo EXCEPT ![i] = Tail(@)]
  /\ UNCHANGED <<pc, version, force, action, moved, backup, outcome, before, alone>>

RestoredAll(i) ==
  /\ pc[i] = "restoring"
  /\ todo[i] = << >>
  /\ pc' = [pc EXCEPT ![i] = "judging"]
  /\ UNCHANGED <<prefix, version, force, action, todo, moved, backup, restored, reasons, outcome, before, alone, faults>>

(* ... 3: no backup may be stranded, none of the new state left over.      *)
RollbackClean(i) ==
  /\ ~ reasons[i]
  /\ \A p \in BackedUpPlaces(i) : Present(p) /\ p \in restored[i]
  /\ BackedUpPlaces(i) = {} => \A p \in moved[i] : ~ Present(p)

(* rollbackThenFail: the transaction directory goes only after a rollback  *)
(* that worked.                                                            *)
Judge(i) ==
  /\ pc[i] = "judging"
  /\ IF RollbackClean(i)
     THEN Ends(i, outcome[i], TRUE)
     ELSE Ends(i, "rollback_failed", FALSE)
  /\ UNCHANGED faults

(* The process dies; its transaction directory stays.                      *)
Crash(i) ==
  /\ pc[i] \in Working
  /\ Faulty
  /\ Ends(i, "died", FALSE)

Step(i) ==
  \/ PlanOverturned(i) \/ Stage(i) \/ StageRejected(i) \/ BackUp(i) \/ BackedUpAll(i) \/ Move(i) \/ MovedAll(i)
  \/ ApplyFails(i) \/ CheckPasses(i) \/ CheckFails(i) \/ RemoveNew(i) \/ RemovedAll(i)
  \/ RestoreBackup(i) \/ RestoredAll(i) \/ Judge(i)

Next == \E i \in Installers :
  \/ \E v \in Versions, forced \in BOOLEAN : Begin(i, v, forced)
  \/ Step(i)
  \/ Crash(i)

Spec == Init /\ [][Next]_installVars

----------------------------------------------------------------------------
(* A dangling link at a managed place is taken for nothing, and a file     *)
(* moved onto it replaces it for good; every other content counts.         *)
Counts(content) == content \notin {Absent, Dangling}

(* "Apply is transactional" (docs/getting-started.md): an installer that   *)
(* was alone and reports a failure other than rollback_failed left every   *)
(* managed place as it found it.                                           *)
FailureLeavesPrefix == \A i \in Installers :
  (pc[i] = "idle" /\ outcome[i] \in Failures /\ alone[i]) =>
    \A p \in Managed(version[i]) :
      Counts(before[i][p]) \/ Counts(prefix[p]) => prefix[p] = before[i][p]

(* The previous product is never lost: at every moment of a transaction    *)
(* nobody disturbs, and after every one that did not succeed (a failed     *)
(* rollback, the death of the process), what a managed place held is at    *)
(* its place or in a transaction directory.                                *)
PreviousSurvives == \A i \in Installers :
  (alone[i] /\ (pc[i] # "idle" \/ outcome[i] \notin Successes)) =>
    \A p \in Places :
      Counts(before[i][p]) =>
        \/ prefix[p] = before[i][p]
        \/ p \notin restored[i] /\ backup[i][p] = before[i][p]

(* A success is a complete product: the version's directory, every shim    *)
(* and the manifest, all of the version that was asked for.                *)
SuccessIsComplete == \A i \in Installers :
  (pc[i] = "idle" /\ outcome[i] \in Successes /\ alone[i]) => ExactlyInstalled(version[i])

(* An installation without --force displaces nothing that was there.       *)
ForceIsNeeded ==
  [][\A p \in Places : Counts(prefix[p]) /\ prefix'[p] # prefix[p] =>
       \E i \in Installers :
         pc[i] \in Working /\ (force[i] \/ ~ alone[i] \/ p \in moved[i])]_installVars

-----------------------------------------------------------------------------
(* The invariant behind these properties.  An installer that is alone has  *)
(* the prefix to itself, ...                                               *)
TypeOK ==
  /\ prefix \in [Places -> Contents]
  /\ pc \in [Installers -> Working \cup {"idle"}]
  /\ version \in [Installers -> Versions]
  /\ force \in [Installers -> BOOLEAN]
  /\ action \in [Installers -> {"blocked", "already-installed", "create", "replace"}]
  /\ todo \in [Installers -> Seq(Places)]
  /\ moved \in [Installers -> SUBSET Places]
  /\ backup \in [Installers -> [Places -> Contents]]
  /\ restored \in [Installers -> SUBSET Places]
  /\ reasons \in [Installers -> BOOLEAN]
  /\ outcome \in [Installers -> Failures \cup Successes \cup {"none", "rollback_failed", "died"}]
  /\ before \in [Installers -> [Places -> Contents]]
  /\ alone \in [Installers -> BOOLEAN]
  /\ faults \in 0 .. MaxFaults

AloneInv ==
  \A i, j \in Installers : i # j /\ alone[i] => pc[j] \notin Working

(* ... works on the places of its version and no others, and displaces     *)
(* something only if it was told to, ...                                   *)
RollingBack == {"removing", "restoring", "judging"}

AtWork(i) ==
  /\ pc[i] \in Working =>
       /\ Range(todo[i]) \cup moved[i] \cup BackedUpPlaces(i) \subseteq Managed(version[i])
       /\ action[i] = "replace" => force[i]
  /\ pc[i] = "idle" => todo[i] = << >> /\ moved[i] = {} /\ ~ reasons[i]
  /\ pc[i] \in {"applying", "backing"} => moved[i] = {}
  /\ pc[i] \in {"applying", "backing", "moving", "checking"} => restored[i] = {} /\ ~ reasons[i]
  /\ pc[i] = "removing" => restored[i] = {}
  /\ pc[i] = "backing" => action[i] = "replace"
  /\ pc[i] \in {"restoring", "judging"} => restored[i] \subseteq BackedUpPlaces(i)
  /\ pc[i] \in RollingBack =>
       outcome[i] \in {"apply_failed", "post_install_verification_failed"}

WorkInv == \A i \in Installers : AtWork(i)

(* ... and always knows where what it found at a place has gone.           *)
Accounted(i, p) ==
  /\ pc[i] = "applying" => prefix[p] = before[i][p] /\ backup[i][p] = Absent
  /\ backup[i][p] # Absent => backup[i][p] = before[i][p]
  /\ p \in restored[i] => prefix[p] = before[i][p]
  /\ p \notin moved[i] =>
       \/ prefix[p] = before[i][p]
       \/ prefix[p] = Absent /\ backup[i][p] # Absent /\ p \notin restored[i]
  /\ p \in moved[i] /\ Counts(before[i][p]) => backup[i][p] # Absent
  /\ pc[i] = "backing" /\ Counts(prefix[p]) /\ p \in Managed(version[i]) => p \in Range(todo[i])
  /\ pc[i] = "moving" /\ Counts(prefix[p]) /\ p \in Managed(version[i]) => p \in moved[i]
  /\ pc[i] = "removing" /\ p \in moved[i] =>
       prefix[p] = Absent \/ p \in Range(todo[i]) \/ reasons[i]
  /\ pc[i] \in {"restoring", "judging"} /\ p \in moved[i] =>
       prefix[p] = Absent \/ p \in restored[i] \/ reasons[i]

PlaceInv == \A i \in Installers :
  alone[i] /\ pc[i] \in Working => \A p \in Places : Accounted(i, p)

IInv ==
  /\ TypeOK
  /\ AloneInv
  /\ WorkInv
  /\ PlaceInv
  /\ FailureLeavesPrefix
  /\ PreviousSurvives
  /\ SuccessIsComplete
=============================================================================
