-------------------------- MODULE InstallerGuards --------------------------
(***************************************************************************)
(* The decision of an installer's preview and the chain of guards behind   *)
(* which a write and the making of a release would stand (installer/src),  *)
(* as install-preview.ts of cli/src puts them together.  Nothing here      *)
(* writes.                                                                 *)
(***************************************************************************)
EXTENDS InstallerPreview

-----------------------------------------------------------------------------
(* The plan of an installation and the decision. *)

PlanInstall(root, installedAt, manifest, disk, base) ==
  LET input == Reasons([missing_root |-> IsBlankPath(root), missing_installed_at |-> installedAt = 0])
      reasons == IF PackageReasons(manifest) # {} THEN PackageReasons(manifest)
                 ELSE IF input # {} THEN input ELSE PackagePathReasons(manifest.files)
      files == IF manifest.entries # <<>> THEN [i \in DOMAIN manifest.entries |-> manifest.entries[i].path] ELSE manifest.files
      checksum(i) == IF manifest.entries # <<>> THEN manifest.entries[i].checksum ELSE manifest.checksum
      operation(i) == LET path == JoinPath(root, files[i])
                      IN [kind |-> IF Exists(disk, base, path) THEN "replace" ELSE "create", path |-> path, checksum |-> checksum(i)]
  IN [ok |-> reasons = {}, reasons |-> reasons, root |-> root, manifest |-> manifest,
      operations |-> IF reasons = {} THEN [i \in DOMAIN files |-> operation(i)] ELSE <<>>]

NoChange(operations) == \A o \in operations : o.kind = "unchanged"

ReviewReasons(preview) ==
  Reasons([update_policy_already_current |-> preview.policy.decision = "already-current",
           update_impact_no_changes |-> NoChange(preview.update.operations),
           rollback_impact_no_changes |-> NoChange(preview.rollback.operations),
           install_preview_has_warnings |-> /\ \A s \in Range(preview.sections) : s.ok
                                            /\ \E s \in Range(preview.sections) : s.reasons # {}])

\* A section that fails blocks by its reasons.
Decide(preview) ==
  LET blocking == UNION {s.reasons : s \in {s \in Range(preview.sections) : ~s.ok}}
                  \union Reasons([install_operations_empty |-> preview.operations = <<>>])
      decision == IF blocking # {} THEN "blocked" ELSE IF ReviewReasons(preview) # {} THEN "review-required" ELSE "ready"
  IN [decision |-> decision, root |-> preview.root, reasons |-> blocking \union ReviewReasons(preview), sections |-> preview.sections]

-----------------------------------------------------------------------------
(* The events of the audit. *)

SectionLevel(section) ==
  IF section.reasons = {} THEN IF section.ok THEN "info" ELSE "warning" ELSE IF section.ok THEN "warning" ELSE "error"

DecisionLevel(decision) ==
  CASE decision.decision = "ready" -> "info" [] decision.decision = "review-required" -> "warning" [] OTHER -> "error"

\* An event for every reason of a section, one for a section without; and the
\* start, the decision and the end.
AuditEvents(decision) ==
  {[kind |-> "preview_started", level |-> "info", subject |-> "", reason |-> ""],
   [kind |-> "decision_reported", level |-> DecisionLevel(decision), subject |-> decision.decision, reason |-> ""],
   [kind |-> "preview_completed", level |-> IF decision.decision = "ready" THEN "info" ELSE "warning", subject |-> decision.decision, reason |-> ""]}
  \union UNION {{[kind |-> "section_evaluated", level |-> SectionLevel(decision.sections[n]), subject |-> n, reason |-> r] :
                     r \in IF decision.sections[n].reasons = {} THEN {""} ELSE decision.sections[n].reasons} : n \in DOMAIN decision.sections}

\* Blank is not empty: a root of spaces is blank and untidy.
IsEmptyText(path) == IsBlankPath(path) /\ path.tidy
AuditReasons(decision) == Reasons([audit_event_root_missing |-> IsEmptyText(decision.root)])

-----------------------------------------------------------------------------
(* The guards of a write. *)

Intents == {"install", "update", "rollback"}

Token(intent, root, decision) == [intent |-> intent, root |-> root, decision |-> decision, text |-> <<intent, root, decision>>]

TokenReasons(token) ==
  Reasons([write_approval_token_intent_invalid |-> token.intent \notin Intents, write_approval_token_root_missing |-> IsEmptyText(token.root),
           write_approval_token_value_missing |-> token.text = <<>>,
           write_approval_token_value_mismatch |-> token.text \notin {<<>>, <<token.intent, token.root, token.decision>>}])

\* Mutant: a token for another root will do.
TokenMatchesAnyRoot(tokens, intent, decision) ==
  \E t \in tokens : TokenReasons(t) = {} /\ t.intent = intent /\ t.decision = decision.decision

\* At most one token is given; a root is told by its text.
TokenMatches(tokens, intent, decision) ==
  \E t \in tokens : TokenReasons(t) = {} /\ t.intent = intent /\ t.root = decision.root /\ t.decision = decision.decision

DefaultWritePolicy == [mode |-> "preview-only", intents |-> Intents, requireReady |-> TRUE, requireApproval |-> TRUE]

WriteCapability(request, decision) ==
  LET policy == request.policy
      reasons ==
        Reasons(
          [write_capability_policy_invalid |-> \/ policy.mode \notin {"disabled", "preview-only", "explicit"}
                                               \/ policy.intents = {} \/ ~(policy.intents \subseteq Intents),
           write_capability_disabled |-> policy.mode = "disabled", write_capability_preview_only |-> policy.mode = "preview-only",
           write_capability_intent_invalid |-> request.intent \notin Intents,
           write_capability_intent_not_allowed |-> request.intent \notin policy.intents,
           write_capability_decision_not_ready |-> policy.requireReady /\ decision.decision # "ready",
           write_capability_approval_required |-> policy.requireApproval /\ ~request.approved
                                                  /\ ~TokenMatches(request.tokens, request.intent, decision)])
  IN [intent |-> request.intent, ok |-> reasons = {}, reasons |-> reasons]

\* What is unchanged or missing is no step.
StepKinds ==
  [install |-> [create |-> "write-file", replace |-> "write-file", remove |-> "remove-file", backup |-> "backup-file"],
   update |-> [create |-> "write-file", replace |-> "write-file", remove |-> "remove-file"],
   rollback |-> [restore |-> "write-file", remove |-> "remove-file"]]

WriteSteps(intent, preview) ==
  IF intent \notin Intents THEN {}
  ELSE LET from == [install |-> Range(preview.operations), update |-> preview.update.operations, rollback |-> preview.rollback.operations][intent]
       IN {[needs |-> StepKinds[intent][o.kind], path |-> o.path, checksum |-> o.checksum] : o \in {o \in from : o.kind \in DOMAIN StepKinds[intent]}}

WritePlan(intent, capability, preview) ==
  LET steps == WriteSteps(intent, preview)
      reasons == Reasons([write_execution_capability_not_allowed |-> ~capability.ok, write_execution_intent_invalid |-> intent \notin Intents,
                          write_execution_steps_empty |-> steps = {}])
  IN [intent |-> intent, steps |-> steps, ok |-> reasons = {}, reasons |-> reasons]

WriteConfirmation(decision, capability, plan) ==
  LET reasons == Reasons([write_confirmation_intent_mismatch |-> capability.intent # plan.intent,
                          write_confirmation_decision_not_ready |-> decision.decision # "ready",
                          write_confirmation_capability_not_allowed |-> ~capability.ok,
                          write_confirmation_execution_plan_not_ready |-> ~plan.ok, write_confirmation_steps_empty |-> plan.steps = {}])
  IN [intent |-> plan.intent, ok |-> reasons = {}, reasons |-> reasons]

Capabilities == {"write-file", "remove-file", "backup-file"}

AdapterContract(contract, confirmation, plan) ==
  LET required == {s.needs : s \in plan.steps}
  IN Verdict(Reasons([write_adapter_contract_invalid |-> \/ contract.name = "" \/ contract.capabilities = {}
                                                         \/ ~(contract.capabilities \subseteq Capabilities) \/ ~contract.approval,
                      write_adapter_confirmation_not_ready |-> ~confirmation.ok, write_adapter_execution_plan_not_ready |-> ~plan.ok,
                      write_adapter_required_capabilities_empty |-> required = {},
                      write_adapter_capability_missing |-> ~(required \subseteq contract.capabilities),
                      write_adapter_rollback_capture_not_supported |-> "backup-file" \in required /\ ~contract.capture]))

\* Every layer is asked again; the approval is only asked whether it is well formed.
Envelope(request, capability, approval, plan, confirmation, adapter) ==
  Verdict(Reasons([controlled_write_intent_mismatch |-> {capability.intent, plan.intent, confirmation.intent} # {request.intent},
                   controlled_write_capability_not_allowed |-> ~capability.ok, controlled_write_approval_invalid |-> approval # {},
                   controlled_write_execution_plan_not_ready |-> ~plan.ok, controlled_write_confirmation_not_ready |-> ~confirmation.ok,
                   controlled_write_adapter_contract_not_ready |-> ~adapter.ok]))

-----------------------------------------------------------------------------
(* The guards of a release. *)

\* The status is the decision's unless another layer fails.
Readiness(decision, auditExported, envelope) ==
  LET reasons == decision.reasons \union envelope.reasons \union Reasons([audit_trail_export_events_empty |-> ~auditExported])
      status == IF decision.decision = "blocked" \/ ~auditExported \/ ~envelope.ok THEN "blocked" ELSE decision.decision
  IN [ok |-> status = "ready" /\ reasons = {}, status |-> status, reasons |-> reasons]

\* `failing` are the checks of the repository and of its hygiene that the caller saw fail.
CandidateChecklist(readiness, failing) ==
  Verdict(failing \union Reasons([v0_rc_release_readiness_blocked |-> readiness.status = "blocked"]))

ReleaseNotes(version, checklist, readiness) ==
  Verdict(Reasons([public_v0_release_notes_version_missing |-> version = "", public_v0_release_notes_checklist_blocked |-> ~checklist.ok,
                   public_v0_release_notes_readiness_blocked |-> readiness.status = "blocked"]))

\* Whatever the verdict, no guard here allows an artifact to be made.
AllowsNothing(reasons) == [ok |-> reasons = {}, reasons |-> reasons, creationAllowed |-> FALSE]

ArtifactItems == <<"notes", "assembly", "archive", "metadata", "integrity", "channel">>

\* A plan may be ready and still allow nothing to be made.
ArtifactPlan(version, notes, checklist, readiness, preview) ==
  LET planned(item) == IF item = "notes" THEN notes.ok ELSE preview.sections[item].ok
      blocked == {item \in Range(ArtifactItems) : ~planned(item)}
      reasons == blocked \union Reasons([guarded_release_artifact_version_missing |-> version = "",
                                         guarded_release_artifact_v0_checklist_blocked |-> ~checklist.ok,
                                         guarded_release_artifact_release_readiness_blocked |-> ~readiness.ok])
  IN [planned |-> Range(ArtifactItems) \ blocked, ok |-> reasons = {}, reasons |-> reasons, creationAllowed |-> FALSE]

AssemblyEnvelope(version, plan, preview) ==
  Verdict(Reasons([guarded_local_artifact_assembly_version_missing |-> version = "", guarded_local_artifact_assembly_plan_not_ready |-> ~plan.ok])
          \union {item \in Range(ArtifactItems) \ {"notes"} : ~preview.sections[item].ok})

DefaultArtifactPolicy == [mode |-> "dry-run-only", requireReady |-> TRUE, requireApproval |-> TRUE]

\* A policy that requires less is not valid.
ArtifactPermission(version, policy, approved, assembly) ==
  AllowsNothing(
          Reasons([artifact_creation_permission_policy_invalid |-> \/ policy.mode \notin {"disabled", "dry-run-only", "explicit"}
                                                                   \/ ~policy.requireReady \/ ~policy.requireApproval,
                   artifact_creation_permission_version_missing |-> version = "",
                   artifact_creation_permission_disabled |-> policy.mode = "disabled",
                   artifact_creation_permission_dry_run_only |-> policy.mode = "dry-run-only",
                   artifact_creation_permission_assembly_not_ready |-> policy.requireReady /\ ~assembly.ok,
                   artifact_creation_permission_approval_required |-> policy.requireApproval /\ ~approved]))

ArtifactCreationPlan(version, permission, plan, assembly) ==
  LET reasons == (Range(ArtifactItems) \ plan.planned)
                 \union Reasons([local_artifact_creation_version_missing |-> version = "",
                                 local_artifact_creation_permission_not_allowed |-> ~permission.ok,
                                 local_artifact_creation_assembly_not_ready |-> ~assembly.ok])
  IN [planned |-> plan.planned, ok |-> reasons = {}, reasons |-> reasons, creationAllowed |-> FALSE]

ArtifactContract(contract, permission, plan) ==
  LET required == {IF item = "archive" THEN "write-binary-output" ELSE "write-text-output" : item \in plan.planned}
      reasons ==
        Reasons([local_artifact_adapter_contract_invalid |->
                   \/ contract.name = "" \/ contract.capabilities = {} \/ ~contract.dryRun \/ ~contract.permission
                   \/ ~(contract.capabilities \subseteq {"write-text-output", "write-binary-output"}),
                 local_artifact_adapter_permission_not_allowed |-> ~permission.ok,
                 local_artifact_adapter_execution_plan_not_ready |-> ~plan.ok,
                 local_artifact_adapter_required_capabilities_empty |-> required = {},
                 local_artifact_adapter_capability_missing |-> ~(required \subseteq contract.capabilities)])
  IN [required |-> required, ok |-> reasons = {}, reasons |-> reasons, creationAllowed |-> FALSE]

ArtifactConfirmation(version, permission, plan, contract) ==
  AllowsNothing(
          Reasons([local_artifact_confirmation_version_missing |-> version = "",
                   local_artifact_confirmation_permission_not_allowed |-> ~permission.ok,
                   local_artifact_confirmation_execution_plan_not_ready |-> ~plan.ok,
                   local_artifact_confirmation_adapter_contract_not_ready |-> ~contract.ok,
                   local_artifact_confirmation_required_capabilities_empty |-> contract.required = {},
                   local_artifact_confirmation_creation_must_remain_disabled |->
                     permission.creationAllowed \/ plan.creationAllowed \/ contract.creationAllowed]))

-----------------------------------------------------------------------------
(* The preview: a package taken from a directory, and what an installation *)
(* of it would pass.  The input's `own` is what the command line does: it  *)
(* compares the package with itself.                                       *)

\* Text for text: a root written with blanks is the beginning of no path.
StripRoot(root, p) ==
  IF root.tidy /\ IsBeneath(root, p) /\ Len(p.segs) > Len(root.segs) THEN Path("none", SubSeq(p.segs, Len(root.segs) + 1, Len(p.segs))) ELSE p

PreviewOf(in, assembly, archive, metadata) ==
  LET checked == Verdict(MetadataReasons(metadata))
      integrity == VerifyReleaseIntegrity(metadata, archive.plan)
      channel == [name |-> in.channel,
                  entries |-> <<[version |-> metadata.archive.version, createdAt |-> in.createdAt, metadata |-> checked.ok,
                                 integrity |-> integrity.ok]>> \o in.older]
      policy == EvaluateUpdatePolicy(in.updatePolicy, in.installed, channel)
      backup == IF in.own THEN [i \in DOMAIN assembly.files |-> [assembly.files[i] EXCEPT !.path = StripRoot(in.root, @)]] ELSE in.backup
      current == IF in.own THEN assembly.files ELSE in.current
      paths == [i \in DOMAIN backup |-> backup[i].path]
      update == UpdateImpact(in.root, Entries(current), archive.plan.entries, policy)
      rollback == RollbackImpact(in.root, Entries(current), [id |-> "r", paths |-> IF paths = <<>> THEN in.include ELSE paths], Entries(backup))
      plan == PlanInstall(in.root, 1, assembly.manifest, in.later, in.base)
      said(report) == [ok |-> report.ok, reasons |-> report.reasons]
  IN [root |-> in.root, policy |-> policy, update |-> update, rollback |-> rollback, operations |-> plan.operations,
      archive |-> archive.plan, channel |-> channel, current |-> current, backup |-> backup,
      sections |-> [assembly |-> said(assembly), archive |-> said(archive), metadata |-> checked, integrity |-> integrity,
                    channel |-> Verdict(ChannelReasons(channel)), policy |-> said(policy), update |-> said(update),
                    rollback |-> said(rollback)]]

InstallPreview(in) ==
  LET assembly == Assemble(in)
      archive == ArchiveFromAssembly(assembly)
      created == CreateReleaseMetadata(archive.plan, in.createdAt, in.signed, in.key)
  IN PreviewOf(in, assembly, archive, IF in.altered THEN [created EXCEPT !.archive.version = @ + 1] ELSE created)

\* The intents of the layers are their callers': capability, plan, envelope.
Guards(in, preview) ==
  LET decision == Decide(preview)
      capability == WriteCapability([intent |-> in.intents[1], policy |-> in.policy, approved |-> in.approved, tokens |-> in.tokens], decision)
      plan == WritePlan(in.intents[2], capability, preview)
      confirmation == WriteConfirmation(decision, capability, plan)
      adapter == AdapterContract(in.contract, confirmation, plan)
      approval == TokenReasons(Token(in.intents[3], in.root, decision.decision))
      envelope == Envelope([intent |-> in.intents[3]], capability, approval, plan, confirmation, adapter)
      readiness == Readiness(decision, AuditEvents(decision) # {}, envelope)
      checklist == CandidateChecklist(readiness, in.failing)
      notes == ReleaseNotes(in.release, checklist, readiness)
      artifacts == ArtifactPlan(in.release, notes, checklist, readiness, preview)
      assembly == AssemblyEnvelope(in.release, artifacts, preview)
      permission == ArtifactPermission(in.release, in.artifactPolicy, in.artifactApproved, assembly)
      creation == ArtifactCreationPlan(in.release, permission, artifacts, assembly)
      contract == ArtifactContract(in.artifactContract, permission, creation)
  IN [decision |-> decision, events |-> AuditEvents(decision), audit |-> AuditReasons(decision), capability |-> capability, plan |-> plan, envelope |-> envelope,
      readiness |-> readiness, artifacts |-> artifacts,
      confirmation |-> ArtifactConfirmation(in.release, permission, creation, contract)]
=============================================================================
