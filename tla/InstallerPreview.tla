-------------------------- MODULE InstallerPreview --------------------------
(***************************************************************************)
(* What the installer says before it would write (installer/src): the      *)
(* package and its archive, the metadata and their checks, the impact of   *)
(* an update or a rollback, the decision, and the guards a write passes.   *)
(*                                                                         *)
(* A path is where it starts ("none" for a relative one, "root", "drive",  *)
(* "home"), its segments, and whether its text is in normal form.  A file  *)
(* is its path, a content and a checksum (0 when blank); a version and a   *)
(* time are their place in the order of the texts (0 when blank).  Reasons *)
(* are sets: the order in which they are listed is left out.               *)
(***************************************************************************)
EXTENDS Integers, Sequences, FiniteSets, SequencesExt

\* The names of the conditions that hold.
Reasons(conditions) == {r \in DOMAIN conditions : conditions[r]}
Verdict(reasons) == [ok |-> reasons = {}, reasons |-> reasons]

-----------------------------------------------------------------------------
(* Paths. *)

Path(anchor, segs) == [anchor |-> anchor, segs |-> segs, tidy |-> TRUE]
NormalizePath(p) == [p EXCEPT !.tidy = TRUE]
IsBlankPath(p) == p.anchor = "none" /\ p.segs = <<>>

\* "." is a segment like any other; an empty one does not survive normalization.
IsSafeRelativePath(p) == p.anchor = "none" /\ p.segs # <<>> /\ ".." \notin Range(p.segs)

JoinPath(root, p) ==
  LET spelled == IF p.anchor \in {"none", "root"} THEN p.segs ELSE <<p.anchor>> \o p.segs
  IN Path(IF IsBlankPath(root) THEN "root" ELSE root.anchor, root.segs \o spelled)

IsBeneath(root, p) == root.segs # <<>> /\ p.anchor = root.anchor /\ IsPrefix(root.segs, p.segs)

\* A path that does not begin as the root's text does is taken as relative to it.
ImpactPath(root, p) == IF IsBeneath(root, p) THEN NormalizePath(p) ELSE JoinPath(root, p)

HasDuplicates(list) == Cardinality(Range(list)) # Len(list)
Normalized(paths) == [i \in DOMAIN paths |-> NormalizePath(paths[i])]

PackagePathReasons(files) ==
  Reasons([unsafe_package_file_path |-> \E p \in Range(files) : ~IsSafeRelativePath(p),
           duplicate_package_file_path |-> HasDuplicates(Normalized(files))])

\* The place of a path on a disk, for an adapter whose resolved root is `base`:
\* none when it is outside. The disk does not know "." segments.
RealPaths(base, p) ==
  LET rest == IF p.anchor \in {"none", "home"} THEN {p}
              ELSE IF p.anchor = "root" /\ base # <<>> /\ IsPrefix(base, p.segs) THEN {Path("none", SubSeq(p.segs, Len(base) + 1, Len(p.segs)))} ELSE {}
      named(s) == s # "."
  IN {base \o SelectSeq(r.segs, named) : r \in {r \in rest : IsSafeRelativePath(r)}}

\* Where the system finds a place: the links among its parents are followed, its last
\* name is not. A link leads to a place that has no links on the way.
Follow(disk, s) == IF s \in DOMAIN disk /\ disk[s].sort = "link" THEN disk[s].to ELSE s
Reached(disk, s) ==
  LET enter(at, name) == Follow(disk, Append(at, name))
  IN IF s = <<>> THEN s ELSE Append(FoldLeft(enter, <<>>, Front(s)), Last(s))

\* The adapter looks at the last name only: a link is no file to it, but through the
\* links among a place's parents it reads what they lead to.
FilesAt(disk, base, p) ==
  {s \in RealPaths(base, p) : Reached(disk, s) \in DOMAIN disk /\ disk[Reached(disk, s)].sort = "file"}
Exists(disk, base, p) == FilesAt(disk, base, p) # {}
ReadFile(disk, base, p) ==
  LET content(s) == disk[Reached(disk, s)].content
  IN {[path |-> Path("root", s), content |-> content(s), checksum |-> content(s)] : s \in FilesAt(disk, base, p)}

-----------------------------------------------------------------------------
(* The package: its manifest, its archive and what is published of it. *)

FileEntry(file) == [path |-> file.path, checksum |-> file.checksum, size |-> file.content]
Entries(files) == [i \in DOMAIN files |-> FileEntry(files[i])]

CreatePackageManifest(name, version, files) ==
  [name |-> name, version |-> version, checksum |-> 1, files |-> [i \in DOMAIN files |-> files[i].path],
   entries |-> Entries(files), hasEntries |-> TRUE]

FileEntryReasons(manifest) ==
  LET entries == manifest.entries
      paths == [i \in DOMAIN entries |-> entries[i].path]
  IN IF ~manifest.hasEntries THEN {}
     ELSE Reasons([package_file_entries_path_mismatch |-> paths # manifest.files,
                   package_file_entry_path_must_not_be_empty |-> \E p \in Range(paths) : IsBlankPath(p),
                   package_file_entry_checksum_must_not_be_empty |-> \E e \in Range(entries) : e.checksum = 0,
                   duplicate_package_file_entry_path |-> HasDuplicates(paths)])

PackageReasons(manifest) ==
  Reasons([missing_package_name |-> manifest.name = "", missing_package_version |-> manifest.version = 0,
           missing_package_checksum |-> manifest.checksum = 0, package_files_must_not_be_empty |-> manifest.files = <<>>,
           package_file_path_must_not_be_empty |-> \E p \in Range(manifest.files) : IsBlankPath(p),
           duplicate_package_file_path |-> HasDuplicates(manifest.files)]) \union FileEntryReasons(manifest)

AssemblyReasons(in) ==
  Reasons([missing_package_name |-> in.name = "", missing_package_version |-> in.version = 0, missing_root |-> IsBlankPath(in.root),
           assembly_include_must_not_be_empty |-> in.include = <<>>,
           assembly_include_path_must_be_safe |-> \E p \in Range(in.include) : ~IsSafeRelativePath(p),
           duplicate_assembly_include_path |-> HasDuplicates(Normalized(in.include))])

\* The files that are there, in the order they were asked for.
Collected(in, disk) ==
  LET read(p) == ReadFile(disk, in.base, JoinPath(in.root, p))
      collect(files, p) ==
        IF read(p) = {} THEN files ELSE Append(files, [asked |-> p, file |-> CHOOSE f \in read(p) : TRUE])
  IN FoldLeft(collect, <<>>, in.include)

\* Every file is read twice: for the plan, by its full path, and for the manifest,
\* by the path asked for. `later` is the disk from the second read on.
Assemble(in) ==
  LET reasons == AssemblyReasons(in)
      first == IF reasons # {} THEN <<>> ELSE Collected(in, in.disk)
      second == IF reasons # {} THEN <<>> ELSE Collected(in, in.later)
      files == [i \in DOMAIN first |-> first[i].file]
      listed == [i \in DOMAIN second |-> [second[i].file EXCEPT !.path = second[i].asked]]
      missing == Reasons([assembly_include_file_missing |-> reasons = {} /\ Len(listed) # Len(in.include)])
  IN [ok |-> reasons \union missing = {}, reasons |-> reasons \union missing, files |-> files,
      manifest |-> CreatePackageManifest(in.name, in.version, listed)]

\* The archive's verdict is its own; the assembly's warnings are added to its.
ArchiveFromAssembly(assembly) ==
  LET plan == [name |-> assembly.manifest.name, version |-> assembly.manifest.version, entries |-> Entries(assembly.files)]
      paths == [i \in DOMAIN plan.entries |-> plan.entries[i].path]
      own == Reasons([archive_package_name_missing |-> plan.name = "", archive_package_version_missing |-> plan.version = 0,
                      archive_files_must_not_be_empty |-> plan.entries = <<>>,
                      archive_file_path_must_not_be_empty |-> \E p \in Range(paths) : IsBlankPath(p),
                      archive_file_checksum_must_not_be_empty |-> \E e \in Range(plan.entries) : e.checksum = 0,
                      duplicate_archive_file_path |-> HasDuplicates(paths)])
  IN [ok |-> own = {}, reasons |-> own \union assembly.reasons, plan |-> plan]

MetadataReasons(metadata) ==
  Reasons([release_package_name_missing |-> metadata.archive.name = "", release_package_version_missing |-> metadata.archive.version = 0,
           release_created_at_missing |-> metadata.createdAt = 0,
           release_archive_entries_must_not_be_empty |-> metadata.archive.entries = <<>>,
           release_archive_entry_path_missing |-> \E e \in Range(metadata.archive.entries) : IsBlankPath(e.path),
           release_archive_entry_checksum_missing |-> \E e \in Range(metadata.archive.entries) : e.checksum = 0,
           release_signature_key_missing |-> metadata.signed /\ metadata.key = ""])

\* The placeholder for a signature is the text of what it covers.
CreateReleaseMetadata(archive, createdAt, signed, key) ==
  [archive |-> archive, createdAt |-> createdAt, signed |-> signed, key |-> key, covers |-> <<archive, createdAt>>]

SignatureReasons(metadata) ==
  IF ~metadata.signed THEN {"release_signature_missing"}
  ELSE Reasons([release_signature_key_missing |-> metadata.key = "",
                release_signature_value_mismatch |-> metadata.covers # <<metadata.archive, metadata.createdAt>>])

VerifyReleaseIntegrity(metadata, archive) ==
  Verdict(MetadataReasons(metadata) \union SignatureReasons(metadata)
          \union Reasons([release_package_name_mismatch |-> metadata.archive.name # archive.name,
                          release_package_version_mismatch |-> metadata.archive.version # archive.version,
                          release_archive_checksum_mismatch |-> metadata.archive # archive,
                          release_archive_entries_mismatch |-> metadata.archive.entries # archive.entries]))

-----------------------------------------------------------------------------
(* The channel and the policy of updates. *)

Channels == {"stable", "beta", "nightly", "dev"}

\* The newest, by time and then by the text of the version; the first of equals.
Latest(entries) ==
  LET newer(a, b) == a.createdAt > b.createdAt \/ (a.createdAt = b.createdAt /\ a.version > b.version)
  IN {entries[i] : i \in {i \in DOMAIN entries : \A j \in DOMAIN entries : ~newer(entries[j], entries[i]) /\ (j < i => newer(entries[i], entries[j]))}}

ChannelReasons(channel) ==
  LET entries == channel.entries
      newest == UNION {{e.version} : e \in Latest(entries)}
  IN Reasons([release_channel_invalid |-> channel.name \notin Channels,
              release_channel_latest_version_missing |-> newest \subseteq {0},
              release_channel_entries_must_not_be_empty |-> entries = <<>>,
              release_channel_entry_version_missing |-> \E e \in Range(entries) : e.version = 0,
              release_channel_entry_created_at_missing |-> \E e \in Range(entries) : e.createdAt = 0,
              release_channel_entry_metadata_invalid |-> \E e \in Range(entries) : ~e.metadata,
              release_channel_entry_integrity_failed |-> \E e \in Range(entries) : ~e.integrity,
              duplicate_release_channel_entry_version |-> HasDuplicates([i \in DOMAIN entries |-> entries[i].version])])

PolicyReasons(policy) ==
  Reasons([update_policy_mode_invalid |-> policy.mode \notin {"manual", "automatic"},
           update_policy_allowed_channels_empty |-> policy.allowedChannels = {},
           update_policy_allowed_channel_invalid |-> ~(policy.allowedChannels \subseteq Channels)])

\* The first obstacle decides. No installed version is 0.
EvaluateUpdatePolicy(policy, installed, channel) ==
  LET candidates == Latest(channel.entries)
      candidate == CHOOSE c \in candidates : TRUE
      blocked(reason) == [ok |-> FALSE, decision |-> "blocked", reasons |-> {reason}]
  IN IF installed = 0 THEN blocked("installed_manifest_missing")
     ELSE IF PolicyReasons(policy) # {} THEN blocked("update_policy_invalid")
     ELSE IF channel.name \notin policy.allowedChannels THEN blocked("channel_not_allowed")
     ELSE IF candidates = {} THEN blocked("candidate_missing")
     ELSE IF policy.requireIntegrity /\ ~candidate.integrity THEN blocked("candidate_integrity_failed")
     ELSE IF candidate.version = 0 THEN blocked("candidate_version_missing")
     ELSE IF candidate.version = installed
     THEN [ok |-> TRUE, decision |-> "already-current", reasons |-> {"candidate_already_installed"}]
     ELSE IF candidate.version < installed /\ ~policy.allowDowngrade THEN blocked("candidate_downgrade_blocked")
     ELSE [ok |-> TRUE, decision |-> "allowed", reasons |-> {}]

-----------------------------------------------------------------------------
(* The impact of an update and of a rollback. *)

\* What a list of entries says of each path: the last of two says it.
Known(root, entries) ==
  [p \in {ImpactPath(root, entries[i].path) : i \in DOMAIN entries} |->
     LET last == CHOOSE i \in DOMAIN entries : ImpactPath(root, entries[i].path) = p
                                               /\ \A j \in DOMAIN entries : ImpactPath(root, entries[j].path) = p => j <= i
     IN [checksum |-> entries[last].checksum, size |-> entries[last].size]]

UpdateOperations(root, current, candidate) ==
  LET before == Known(root, current)
      after == Known(root, candidate)
      kind(p) == IF p \notin DOMAIN before THEN "create" ELSE IF p \notin DOMAIN after THEN "remove"
                 ELSE IF before[p] = after[p] THEN "unchanged" ELSE "replace"
  IN {[kind |-> kind(p), path |-> p, checksum |-> IF p \in DOMAIN after THEN after[p].checksum ELSE before[p].checksum] :
        p \in DOMAIN before \union DOMAIN after}

\* What is current matters only where the rollback or its backup names it.
RollbackOperations(root, current, paths, backup) ==
  LET before == Known(root, current)
      after == Known(root, backup)
      kind(p) == IF p \in DOMAIN after THEN IF p \in DOMAIN before /\ before[p] = after[p] THEN "unchanged" ELSE "restore"
                 ELSE IF p \in DOMAIN before THEN "remove" ELSE "missing"
      checksum(p) == IF p \in DOMAIN after THEN after[p].checksum ELSE IF p \in DOMAIN before THEN before[p].checksum ELSE 0
  IN {[kind |-> kind(p), path |-> p, checksum |-> checksum(p)] : p \in DOMAIN after \union {ImpactPath(root, q) : q \in Range(paths)}}

\* An update to what is there already is no failure.
UpdateImpact(root, current, candidate, policy) ==
  LET blocked == ~policy.ok \/ policy.decision = "blocked"
      reasons == Reasons([update_impact_root_missing |-> IsBlankPath(root), update_policy_not_allowed |-> blocked,
                          update_impact_candidate_entries_empty |-> candidate = <<>>,
                          candidate_already_installed |-> policy.decision = "already-current"])
                 \union (IF blocked THEN policy.reasons ELSE {})
  IN [ok |-> ~blocked /\ reasons \subseteq {"candidate_already_installed"}, reasons |-> reasons,
      operations |-> UpdateOperations(root, current, candidate)]

RollbackImpact(root, current, rollback, backup) ==
  LET reasons == Reasons([rollback_impact_root_missing |-> IsBlankPath(root), rollback_impact_id_missing |-> rollback.id = "",
                          rollback_impact_paths_empty |-> rollback.paths = <<>>,
                          rollback_impact_path_unsafe |-> \E p \in Range(rollback.paths) : ~IsSafeRelativePath(p),
                          rollback_impact_backup_files_empty |-> backup = <<>>])
  IN [ok |-> reasons = {}, reasons |-> reasons, operations |-> RollbackOperations(root, current, rollback.paths, backup)]
=============================================================================
