# Oh My PM: TLA+ specifications, model checking and proofs

Oh My PM (`omp`) reads a project's documents and, on request, GitHub, and says
where the project stands. It has three parts that are hard in different ways:
*Project Memory*, a store of snapshots on the local disk that several commands
in several processes capture into, read, export, migrate, delete and repair
without a server between them; a *release installer* that switches a prefix
from one product to another by renames; and a long chain of *computations*
(kernel, planner, providers, skills, command line, tools, installer previews)
that must be deterministic, complete and honest about what they left out.
This directory specifies all three, checks the specifications with TLC and
proves the central ones with TLAPS. Every definition that models code is
translated from the source; `PROJECT.json` maps it to its lines.

## 1. The system

Layers, each calling only those to its right:

    CLI, MCP server -> Application -> Runtime, Providers, Project Memory
                                   -> Planner, Skills, Kernel (Rust, WebAssembly)
    release installer (distribution/), installer library (installer/): separate

Only Project Memory writes below the data root, and only the release installer
writes below the prefix it is given. One run of a command is one process.

| Component | State it keeps | Operations | What makes it correct |
|---|---|---|---|
| Store (`project-memory/src/store.ts`, `manifest.ts`) | `manifest.json` (chronology, evidence inventory), `snapshots/*.json`, `evidence/*.json`, `staging/`, per project | commitSnapshotBundle, deleteProject, migrateProject, verify, inspect, readManifest, readSnapshot, readEvidence, listSnapshots, exportProject | the manifest never lists a missing record; a reported capture stays; the chronology only grows; residue of a fault never stops later captures, except a lock file that does not parse |
| Lock (`lock.ts`) | one lock file per project, with pid and time | acquireLock (with reclaim of a stale lock), release | one holder at a time; a dead owner's lock is reclaimed; one that does not parse is refused until somebody removes it by hand |
| Atomic write (`atomic-write.ts`, `node-adapter.ts`) | a temporary file per writer, the target | writeFileAtomic | never a torn target; a failed write never shows; a finished one stays |
| Repair (`repair-scan.ts`, `repair-plan.ts`, `repair-apply.ts`) | quarantine payloads, a receipt | planRepair (no lock), applyRepair (lock) | no damaged byte is lost, nothing good is dropped, the result verifies, repeating converges, the receipt is true |
| Migration (`migrations.ts`) | backups | previewMigration, migrateProject | nothing captured is lost, the chronology is recovered, the backup is whole |
| Capture (`runtime/src/projectbrain/capture.ts`, `observation.ts`) | none | captureProject | a failed required source aborts, a failed optional one shows as a gap; stored evidence is re-used; nothing forbidden is persisted |
| Compare, timeline (`compare.ts`, `timeline.ts`) | none (two or more reads of the manifest) | compareProject, timelineProject | what they report was so; a quiet store is never called inconsistent |
| Kernel (`kernel/crate`) | none | diff, timeline, freshness, normalization, fingerprints, identities, validation of states, plans and updates | a diff is complete and says nothing twice; pages show every event once; an identity is a function of the meaning; what is let through can be carried out |
| Planner, runtime plan (`planner/src`, `runtime/src`) | none | plan, execute the provider steps and one skill step | the graph is sound; nothing runs on less than all its inputs |
| GitHub provider (`providers/src/github`) | none (one request after the other) | overview, list, search, fetch, with notes of an issue or a review | bounded, same origin, times out; what is left out is reported |
| Local provider, configuration, registry | none | reads of a bounded list of files | the query asks for what was selected, nothing more |
| Skills (`skills/src`) | none | status, handoff, next tasks, risks, review of changes, project state of a capture | nothing is both a risk and a task; closed work gives no task; code is silent; what two skills say of one item agrees |
| Application, CLI | one process's progress; a cancellation signal | one use case per command | a line does what it says, once, or nothing; a preview says what its apply does |
| MCP server | the message loop of its SDK | twelve read-only tools | a tool asks as its command does; public pages stay complete; an error shows nothing internal |
| Installer library (`installer/`) | an installed manifest, updates, rollbacks, a disk | previews, guards, plan, install, update, rollback | nothing is ready unless it is whole; nothing is written before every guard agreed |
| Release installer (`distribution/libexec`) | a prefix: versions, shims, `install.json`, a transaction directory | resolve, apply, roll back | all or nothing, the previous product is never lost |
| Contracts, tools, tests, docs, examples | | | not part of the running program |

How they interact: processes share the store only through the file system. A
writer takes the lock file for the whole of its commit, deletion, migration or
repair; a reader takes nothing. A capture reads the store once *before* it
takes the lock (to re-use evidence already recorded), a migration loads its
source and a repair plans before they take the lock, an export copies file
after file. Evidence identities do not cover the time of the observation, so
two captures of unchanged content share one evidence record. Two release
installers share the prefix and nothing locks it. Everything else is calls in
one process: a command line or a tool call becomes a use case, the use case a
provider query, its items a snapshot or the input of a skill.

### What is hard

* **Crash and partial failure**: a commit is a dozen file operations, an
  installation a dozen renames, and any of them may be the last.
* **Interleaving without a lock**: readers beside writers, plans that are old
  when they are applied, a reclaim that races with another, two installers.
* **Residue**: orphan records, staging files, the lock of a dead process,
  backups and temporary files are met by later operations.
* **Ordering**: records before the manifest, the payload before the removal of
  the original, the installed manifest last.
* **Limits**: of the store (checked after records were moved), of pages, notes,
  bodies, redirects and sections; each is a place where something is silently
  left out.
* **Two ways to one answer**: preview and apply, command and tool, the diff and
  its timeline, one source spelt in several ways.

`PROJECT.json` lists each hazard with its line.

There is no concurrency inside a process worth a model: every command is one
chain of awaits, and the kernel is synchronous. A cancellation may come between
any two of its steps, and is modelled.

## 2. The modules

Processes that share files:

| Module | Models | Composes |
|---|---|---|
| `SnapshotLog` | the abstract promise: an append-only log of snapshots with one observation per piece of evidence; cleared as a whole | |
| `ProjectLock` | the abstract lock: one owner, given back by it alone, taken over only from the dead | |
| `ProjectStore` | capture, commit, deletion, crashes, failed operations | implements `SnapshotLog`, uses no more than `ProjectLock` |
| `ProjectStoreRetry` | users who keep capturing while the machine fails any number of times, but not for ever (liveness) | `ProjectStore` |
| `ProjectStoreReaders` | verify, compare, timeline and export beside a writer | `ProjectStore` |
| `StoreLock` | the lock file, one file operation per step, with a clock | implements `ProjectLock` until raced |
| `AtomicWrite` | the atomic replacement of one file, with loss of power | |
| `Ranking` | a finite set of records as a sequence in a given order, with the lemmas that it is one | |
| `StoreRepair` | damage, scan, plan, quarantine, rebuild, beside captures | `Ranking` |
| `StoreMigration` | format 1 to format 2, beside captures and other migrations | `Ranking` |
| `ReleaseInstall` | the transaction on a prefix, its rollback, a second installer | |

The theorems about each are in a module of its name with `Proofs` behind it:
`ProjectStoreProofs` (with those about the readers), `StoreLockProofs`,
`AtomicWriteProofs`, `StoreRepairProofs`, `StoreMigrationProofs`,
`ReleaseInstallProofs`. `PackagesProofs` has those about the computations.

Computations. Each is a module of operators without variables, and five modules
with the one variable `case` (`Algorithms`, `Commands`, `Surfaces`, `Extraction`
and `Packages`) put them against what they are for:

| Module | Operators | From |
|---|---|---|
| `KernelDiff`, `KernelTimeline`, `KernelState`, `KernelGuards` | diff, freshness; events and pages; normalization, fingerprints, identities, validity; releases, graphs, registry, update plans, the boundary | `kernel/crate` |
| `PlanExecution` | the planner's graph and the runtime's execution of it | `planner`, `runtime` |
| `GitHubQueries`, `GitHubProvider` | settings, selection, query; transport, requests, normalization | `providers` |
| `Observation` | what a capture observes, its coverage, evidence, privacy and its one commit | `runtime/src/projectbrain` |
| `Algorithms` | chooses an input of these; properties of the kernel, of plans and of sources | |
| `CommandLine`, `CommandProcess` | the grammar; one invocation, step by step, with a cancellation anywhere | `cli`, `application` |
| `MemoryCommands` | the memory subcommands over a store, previews beside applies | `application` |
| `Commands` | adds these; properties of commands | extends `Algorithms` |
| `McpTools` | registration, inputs, runners, what is shown | `mcp-server` |
| `Surfaces` | adds these; tools beside commands | extends `Commands` |
| `ProjectSignals`, `ProjectSkills` | risks and tasks of documents, issues, notes; the skills on top | `skills` |
| `Extraction` | adds these; properties of skills | extends `Surfaces` |
| `InstallerPreview`, `InstallerGuards`, `PackageInstaller` | reports; decision and guards; the installer's state and its work on a disk | `installer`, `cli/install-preview.ts` |
| `Packages` | adds these; properties of installs | extends `Extraction` |

`MC...` modules are the small instances of all these for TLC. A chain of
extensions makes one next-state relation whose disjuncts are the algorithms and
processes, so one run checks them all.

### How state and actions correspond to the code

**ProjectStore.** `manifest` is `manifest.json`; a manifest with an empty
history stands for no file, because only a commit writes one and it lists at
least one snapshot. `snaps`/`evs` are the record directories, `stagedSnap`,
`stagedEvs` and `stagingDir` the staging directory, `dir` the project
directory, `lock` the lock file. A process has a program counter whose values
are the steps of `commitSnapshotBundle` and `deleteProject` between which it
can die. A snapshot's identity is a digest of its payload, so the identity
stands for it. An evidence identity is a digest of the content only, so
`evs[e]` holds the capture that observed it: two payloads of one identity are
told apart, which is what `reconcileExisting` compares. `Fail(p)` is a file
operation that throws anywhere under the lock (the `finally` block still
releases), `Crash(p)` the death of the process anywhere (nothing is released).
`writeFileAtomic` is one step there; `AtomicWrite` justifies it. The lock is
one step there too. `ProjectLock` is what the store relies on, and the lock file
of `StoreLock` implements it for as long as no lock file is removed by mistake;
section 3.1 shows that it may be. `DeadOwner` is the lock of a process that
died; the store may take it at once, and `StoreLock` reclaims it in two steps.
`TornLock` is a lock file without its record: a process died, or its write
failed, between the creation of the file and the end of the write
(`createLockExclusive`). Nobody takes it, since `acquireLock` refuses what it
cannot parse whatever its age. What a capture re-uses it reads record by record
before it has the lock (`ReuseEvidence`); `overtaken`, a history variable, holds
the processes that have looked at the inventory and since whose look it changed.

**StoreLock.** The file has an owner pid, an age and a flag saying whether its
record was written completely; a process creates, writes, reads, judges
(`old` and `dead`), removes and creates again, each in a step of its own. A
command reads its clock once at its start (`referenceNow`), so `lag[p]` is how
long ago that was. History variables (`creator`, `informed`, `raced`), which no
action reads in its guard, tell one lock file from the next of the same name.

**AtomicWrite.** `target` is what processes see, `entries` what the directory
may hold after a loss of power: every rename since the last directory sync may
be the last that reached the disk.

**ProjectStoreReaders.** One reader runs one operation after the other. It
reads `manifest` again wherever the code does (`Look` before each `Open`,
`ReadChronology` after `ReadFirst`), so `seen` and `chron` may differ. An
export is a set of copied records and a copied manifest, published by a rename.

**StoreRepair.** A record file is gone, good, or holds the bytes of the nth
damage, so that preserved bytes can be compared with the original's; the
manifest may also be damaged, removed, or of a newer format. The lock may be
torn here too. A plan is a
function of the scan, hence `obs[p]` stands for the plan and for its
fingerprint, and `Fresh(p)` compares it with the store under the lock. The
commit is `ProjectStore`'s, in three steps. The chronology that a repair
rebuilds is `Kept`: what verifies, filtered out of the history in its order,
or, where no manifest can be read, sorted by what is known of the records.

**StoreMigration.** `manifest` has its format, its inventory (`ids`), the latest
snapshot and, in format 2, the history. A process loads its source without the
lock, takes the lock, copies the manifest into `backups`, replaces it and
verifies, each in a step; the capture it goes on with is one step under the
lock, because its parts are `ProjectStore`. `raced` records that a migration
replaced a manifest it had not loaded; no guard reads it.

**ReleaseInstall.** `prefix` says what every managed place (a version's
directory, each shim, `install.json`) holds: nothing, a dangling link, something
no bundle wrote, or its part of a version. An installer resolves its plan,
stages, resolves again, backs up, moves into place in order, verifies, and, if
something failed, removes what it moved and renames the backups back; every
rename is a step, and each may fail or be the last. A rollback walks over the
managed places and skips what the transaction did not touch; a removal that
fails does not stop it but is remembered (`reasons`). `before` and `alone` are
history variables for the properties: what the prefix held when the
transaction began, and whether no other installer was at work since.

**PackageInstaller.** A disk is a function from paths to files and links (a
directory is what something lies below), as the installer library's adapters
see it. An operation on a place
looks at the last name only, as the code's `lstat` does; a link among the
place's parents is followed (`InstallerPreview!Follow`, `Reached`), also out of
the root, and also when it stands where the backups go. A directory that is
made is made where such a link leads (`CanMake`).

**The computations.** `case` is a record: which algorithm, its input, and for a
process how far it is (a command line being run, a release passing through its
lifecycle, an installer with its disk). A kernel call is one step since the code
is synchronous there. Texts are sequences of the few symbols an algorithm tells
apart; instants are numbers; SHA-256 over canonical JSON is injective, that is,
a fingerprint is the value that is hashed. Where the code throws, an operator
returns a refusal, and the callers pass it on as the code does.

## 3. The runs

Twelve runs; the bounds are the smallest at which what is asked can happen.

| Run | Bounds | What it shows |
|---|---|---|
| `store` | 2 processes, 2 snapshots sharing evidence, 2 evidence records, any number of crashes and failures | the safety of capture and deletion: no dangling entry, inventory equals citations, no lost success, a clean success, a conflict is only ever due to a race, refinement of `SnapshotLog` |
| `store_retry` | 1 process, 3 snapshots, room for 2, any number of faults until they end | no residue but a lock file that does not parse keeps a store from accepting a capture for ever, and none takes it over its limits |
| `lock` | 3 processes, 2 faults, threshold 1, commands up to 2 long | exclusion is lost only through a removal of a lock file neither read nor created; judgements of staleness are sound; until such a removal it implements `ProjectLock`; orphaned locks are reclaimed |
| `lock_race` | the same with 1 fault, commands up to 1 long | violation: two holders |
| `atomic_write` | 2 writers, 3 values | the target is never torn, a failed write never shows, a finished one is never undone |
| `readers` | 1 writer, 1 reader, 3 snapshots, 1 evidence record | only a deletion takes a record from under a reader; compared snapshots are neighbours; a disagreement was a race; an export holds what it verified |
| `repair` | 2 processes, 2 snapshots sharing evidence, 1 damage, 1 crash or failure | damaged bytes are preserved, nothing good is dropped, a receipt means a store that verifies |
| `repair_converges` | 1 process, 2 damages, 1 crash or failure | repairing again and again converges, unless a fault tore the lock file |
| `repair_receipt` | 1 process, 1 damage | violation: the receipt reports work that was not done |
| `migration` | 2 processes, 5 snapshots, 3 of them inherited, two of one time, the latest with the earliest | the chronology is recovered once, nothing is forgotten, the backup is what was migrated, unless two migrations overlap |
| `install` | 2 installers, 1 version, 1 shim, a prefix that holds anything, 1 failed step or death | a failure leaves the prefix as it was, the previous product is never lost, a success is complete, nothing is displaced without `--force` |
| `algorithms` | the inputs of the `MC` modules | the nine properties below |

The nine properties of `algorithms`, each of every step that gives an answer
(`[][P(case')]_case`, where `P` reads the input and the answer of a case):

| Property | Says |
|---|---|
| `ChangesAreHonest` | the later capture can be told from the earlier one and the diff; captures that hold the same have no changes; the diff backwards says the opposite; what is called stale, or fresh again, is exactly what became so, and what is dated too far ahead is refused; the binding returns what the kernel computed or a refusal |
| `PagesAreComplete` | following the cursors shows every event the filter lets through once, newest first, within the limit |
| `IdentityIsContent` | two states have one fingerprint exactly if they mean the same, however spelt, ordered or dated; the same for evidence and its identity |
| `DecisionsAreSound` | a graph is let through exactly if it can be executed to its end, an update exactly if it can be undone, a release exactly once and only of what was validated since its last change; a plan reads in order and runs no skill on less than all of it |
| `SourcesAreHonest` | a selection reaches the provider as it was made; a source is "complete" only if all of it is there; a required source never goes missing; no other server is asked; only a body that never ends makes a capture wait |
| `CommandsAreHonest` | a line says no more and no less than its command; the network is reached last; a failure is never told as a success; a preview says what its apply does; a failure leaves the store as it was; healthy means usable; only the confirmed project is deleted |
| `ToolsAreHonest` | tools ask as commands do; every event that can be named is shown; the counts are of everything; outputs are shown whole or not at all |
| `SignalsAreHonest` | no line is both a danger and a task; what is closed gives no task; code is silent; what an item says does not depend on the others; drafts cite evidence that is there; the handoff agrees with the lists |
| `InstallsAreHonest` | what is ready is whole; an impact makes of the directory what it is for; a write passes only all its guards; carrying out changes what the plan's places lead to and nothing else, and leaves a link that stands at a place as it is, though it goes where links among the place's parents lead; a rollback newly remembered has all its backups; what is remembered follows the calls |

A property with an "unless" names a limit of the code that is met by some
input of the run; section 3.2 says which they are.

Why these bounds are enough. Two processes suffice for every race between two
holders of different views; the lock needs three, because the race that breaks
it has a dead owner and two reclaimers. Two snapshots with a common evidence
record show re-use, conflict and orphan adoption; a chronology of three is
needed where "the last two" differs from "the first and the last" (readers).
One damage and one fault make every pair (fault, next operation) happen; two
damages make a repair that is itself overtaken. Crashes and failures of the
`store` run are unbounded: the state is finite without a bound. In `readers`
the writer has no faults (`MaxFaults = 0`): with three snapshots the orphans
and residues multiply the states beyond what is reasonable, and what a reader
can see of them, the manifest and the records it lists, is covered by
`ManifestNeverDangles`, proved for every fault. In `install` a second version
would add nothing that `Foreign` does not: an installer tells only its own
version's content from anything else. One fault is what distinguishes a
rollback that works from one that fails, since the failure that starts the
rollback may also come from a verification or from the other installer. In
`migration` deaths and failures are unbounded. In `algorithms` every limit (a
page, a window, a note, a section, a body) has a value of one to five, so that
inputs exceed it, and every input that is malformed in one way stands beside
its well formed neighbour; longer texts and longer lists would repeat the same
comparisons. A release is taken through its lifecycle for nine steps
(`MaxTrail`), one validated release twice, and an installer through three calls.

The run `repair` stops only because its bounds end. `atomic_write` and
`store_retry` really stop (all values written; all snapshots committed), and a
behaviour of `algorithms` ends with its answer: these do not check for deadlock.

### 3.1 What the violations say

* `lock_race`: `acquireLock` removes a stale lock *by name*
  (`lock.ts:105`); the slower of two processes that judged the same stale lock
  removes the faster one's fresh lock. Everything else about the lock holds:
  `ExclusionUnlessRaced` and `ImplementsLock` are proved.
* `repair_receipt`: `removeResidue` reports a removal it does not do, and
  re-indexed orphans are reported but never listed.

### 3.2 Observations

Met while modelling, each visible in a definition, and most of them the reason
of an "unless"; none is more than what the code does.

Store:

* A record whose final name exists is not moved, because `reconcileExisting`
  proved it equal; but that function compares only records the manifest lists,
  so a crashed commit's orphan is adopted unread. `exportProject` copies the
  manifest that is there at the end, not the one it verified.
* A commit whose staging directory cannot be removed reports that "the prior
  store is intact" although the new manifest is in place. A commit refused for
  the snapshot limit leaves its record files behind.
* After a repair isolated evidence, the snapshot that cites it stays listed:
  status says "healthy" while changes and timeline fail, capturing it again is
  refused (`StoreRepair!CaptureRejected`), and the capture's preview says
  "would be idempotent" while the apply is refused too
  (`MemoryCommands!CommitError`): `reconcileExisting` does not find the listed
  snapshot whole, `buildNextManifest` lists it a second time, against the
  comment of `store.ts:1084-1085` ("a pre-existing id never reaches here"), and
  the check of the chronology throws, with the records moved and the staging
  directory left behind.
* A lock file without its record, which a death or a failed write in
  `createLockExclusive` leaves, is refused for ever: captures, deletions,
  migrations and repairs all need it removed by hand.
* Overlapping migrations: the source is loaded before the lock, so the slower
  may put back what it loaded, without the snapshots captured in between.
* An unforced deletion of a store of an older or newer format is refused as
  corrupt. The preview of a deletion ignores the verification, that of a
  capture the snapshot limit and damaged evidence, that of an export the
  manifest. `changes` exits 1 and `timeline` 4 for the same unreadable record.
  Exceptions of `runHistory`, `runStatus` and of a failing `previewMigration`
  are not caught.

Kernel and sources:

* `normalize_source_identity` is not idempotent on `./C:/x`. Two evidence
  records of one source make `evidenceChanged` appear when a snapshot is
  compared with itself. An absent and an empty collection have different
  fingerprints. Evidence without content is named by the text of its time, so
  one instant spelt in two ways gives two identities.
* `timeline.ts:148-152` says `hasMore` stays truthful when the window of 200
  pairs truncates; with more captures and a page that holds all events of the
  window it is false, and the older events cannot be reached.
* A GitHub page cut at the limit gives no warning, so coverage says "complete".
  The overview does not warn of a low rate limit seen in its second request.
  `includedScopeFor` takes the first declaration of a source. A body that never
  ends is read without a timer.
* `runProviderDoctor` reaches the network although the kernel check failed
  before, and then returns `ok: true` with a report that is not.

Command line and tools:

* `-h` as the value of an option shows help, and a line that asks for help never
  comes to the code that looks at the cancellation signal: an aborted
  `github ... --help` succeeds (`ComesToGitHub`). Nothing in production passes a
  cancellation signal. `runLocalProjectWorkflow`'s exceptions are caught by the
  tool and not by the command.
* The MCP diagnostics with an invalid configuration go on to the network with
  the defaults. A page of `project_timeline` that has only events that cannot
  be named ends the paging with `hasMore` and no cursor. A title with the name of an
  internal field in it makes the whole result an error. Unknown keys of an
  input are dropped, where comments say "strict".

Skills:

* `sequence` of the capture's drafts restarts in each section, so a document
  with two sections of one kind gives two drafts of one id, which the kernel
  refuses: the capture fails.
* The handoff takes a checked item under a risk heading for a risk, an unchecked
  one for both, and counts boxes inside code fences and in the bodies of closed
  issues. "high:" makes a priority medium, "medium:" low. Persian headings spelt
  with a zero-width non-joiner match the structured kinds only.

Installer:

* `install-preview .`, the help's own example, is always "blocked"
  (`rollback_impact_path_unsafe`); an absolute root is "review-required". With a
  relative root the adapter resolves joined paths under the root again.
* `executeRollback` backs up and never restores, although it reports
  `restoredPaths`; the same rollback again overwrites its backups. A planned
  "create" overwrites a file that appeared meanwhile; writes are in place. The
  same update can be applied twice. Versions are compared as texts.
* The headers of `node-filesystem.ts` (3-6) and `node-write-filesystem.ts` (3-5)
  and `installer/README.md:30-42` say that links are refused or not followed and
  that operations stay inside the root. Only the last name of a path is looked
  at: a linked directory above a place, or a link where `.oh-my-pm-backups`
  should be, is followed wherever it leads (`Reached`, `LinksAreLeft`).

### 3.3 Fairness

Safety needs none. `store_retry` assumes weak fairness of a running process's
next step (a process is one chain of awaits: it goes on unless it dies), and
of an attempt on the lock (it ends, with the lock or with a refusal), and
strong fairness of the user's retries and of taking the lock of a dead owner
that is found again and again. The latter is what time does: such a lock does
not stay younger than 60 seconds, and a refused command ends rather than waits.
It takes for granted that the dead owner's pid is not in use again for ever.
Nothing is assumed of a torn lock, and the property excepts it. That the faults
end is the property's premise (`FaultsEnd`), not a bound. Fairness is stated for one process only, and that is a fact about the
code: a refused writer never waits in a queue, so with two processes one that
captures all the time may starve the other, and no fairness the code justifies
forbids it. `lock` assumes that running processes go on, that time passes and
that commands are run again. `repair_converges` assumes the same as
`store_retry` of a process, of the lock and of a user who repairs again and
again, and excepts a torn lock in the same way; its failures are bounded.

No liveness is claimed of the installer or of a migration: both end because
their lists do, and neither repeats anything.

## 4. The proofs

Every safety invariant, every action property and every refinement that a run
of the store, the lock, the atomic write, the readers, the repair, the
migration and the release installer checks is also a theorem, for every value
of the constants: any number of processes, records, versions, places, faults
and deaths. Of the computations four parts of what their run checks are
theorems for every input. All theorems are checked to the last leaf. They rest
on the named `ASSUME`s of the modules only, and each of these is a fact about
the code's values:

* identities are apart from the sentinels (`Free`, `DeadOwner`, `TornLock`,
  `Nobody`, `Torn`, `NoFile`, `"manifest"`), which stand for no owner, no file and the
  like;
* `CommandWorldsAssumption`, `ToolCallsAssumption`, `PackageInputsAssumption`,
  `PackageUpdatesAssumption`: the worlds, calls, tokens of approval and updates
  that are chosen have the fields, and these the values, that the interfaces of
  the code give them;
* limits, thresholds and bounds are naturals, and the references of a
  snapshot are evidence;
* the snapshots of a repair and the inventory of a migration are finite,
  because they are files and what a manifest lists;
* an installation has a version to install.

No property is inductive as it stands. Each component has one inductive
invariant `IInv`, a conjunction of named parts that TLC checked on the run of
the component before it was proved; `Invariance` (or `Invariant`) proves it,
with a lemma for each part and in it a step for each action.

| Module | Theorem | States |
|---|---|---|
| `ProjectStoreProofs` | `TypeCorrect` | `[]TypeOK` |
| | `ManifestNeverDangles` | `[]RecordsBeforeManifest` |
| | `InventoryExact` | `[]InventoryIsCited` |
| | `AppendsAreFresh` | `[]AppendIsFresh` |
| | `SuccessIsDurable` | `[]AckedIsDurable` |
| | `SuccessIsClean` | `[]SuccessLeavesNoStaging` |
| | `ConflictsNeedRaces` | `[]ConflictsAreRaces` |
| | `LimitsHold` | `[]WithinLimits` |
| | `Refinement` | the store implements `SnapshotLog` |
| | `LockIsOwnLock` | the store uses no more than `ProjectLock` promises |
| | `LockFreeReads` | `[]ReadersFindTheirRecords` |
| | `ComparesNeighbours` | `[]ComparedAreNeighbours` |
| | `DisagreementNeedsRace` | `[]DisagreementsAreRaces` |
| | `ExportsWhatItVerified` | `[]ExportHoldsWhatItVerified` |
| `StoreLockProofs` | `Exclusion` | `[]ExclusionUnlessRaced` |
| | `Judgements` | `[]JudgementsSound` |
| | `ImplementsLock` | `LockUntilRaced`: the lock file implements `ProjectLock` until raced |
| `AtomicWriteProofs` | `Atomicity` | `[]NeverTorn` |
| | `Reports` | `[]ReportsAreTrue` |
| | `CleansUp` | `[]FailureLeavesNoTemp` |
| `StoreRepairProofs` | `NothingIsLost` | `[]OriginalsPreserved` |
| | `ReceiptsAreEarned` | `[]ReceiptMeansVerified` |
| | `RepairsKeepTheGood` | `RepairKeepsTheGood` (of every step) |
| `StoreMigrationProofs` | `MigrationLosesNothing` | `[]MigrationKeepsAll` |
| | `BackupsAreIntact` | `[]BackupIsWhatWasMigrated` |
| | `ChronologyStays` | `ChronologyIsKept` (of every step) |
| `ReleaseInstallProofs` | `AllOrNothing` | `[]FailureLeavesPrefix` |
| | `PreviousIsSafe` | `[]PreviousSurvives` |
| | `SuccessMeansInstalled` | `[]SuccessIsComplete` |
| | `NothingWithoutForce` | `ForceIsNeeded` (of every step) |
| `PackagesProofs` | `ReleasesStaySound` | `[]ReleasesAreSound(case)`, a part of `DecisionsAreSound` |
| | `ProcessesStayHonest` | `[]ProcessesEndHonestly(case)`, a part of `CommandsAreHonest` |
| | `MemoryAlwaysFollows` | `[]MemoryFollowsCalls(case)`, a part of `InstallsAreHonest` |
| | `GuardsAlwaysHold` | `[]GuardsAreKept(case)`, another |

**The store.** That records are there when the manifest is replaced depends on
what was staged and moved, stage by stage (`StagedInv`); that on the bundle
(`BundleInv`) and on nobody else having changed the manifest since it was read
(`BaseInv`); and that on the lock naming exactly the process that is inside the
locked section (`LockInv`). `OutcomeInv` ties what an operation is about to
report to the manifest. The limits need no more: the manifest that is written
is the one that was checked, because `BaseInv` says it is still there.
`ReuseInv` says that what a capture re-uses is what is stored, unless the
process is overtaken: without that history a conflict would have no cause.
`Refinement` shows that only the replacement of the manifest and the removal of
the project directory are visible in the log, and that moving a record to its
final name is a stutter.

**The readers.** `StoreInvariance` carries `IInv` over to the composition,
since a reader's steps change nothing of the store and a writer's are the
store's. `ReadersInv` then relates what a reader has read to the manifest that
is there now: unless the memory was deleted since, the chronology it has seen
is a prefix of the present one (`GrowthInv`), hence everything it may still
open is on the disk (`WantedInv`); unless a commit ended since, the two are
equal (`StillInv`). `PairInv` and `CopyInv` say which pair a compare has in
hand and what an export has copied. The key lemma is `StoreGrows`: each step
of the store either deletes the memory or leaves the chronology a prefix of
the new one.

**The lock.** The invariant relates the history variable `creator` to the file
(`CreatorInv`), says that, unless the race happened, a process in the critical
section is the creator (`HolderInv`), and that a process whose reading is about
the present file is right about it (`InformedInv`).

`ImplementsLock` maps the state of the file to an owner: `LockOwner` is the
process about to write its record or holding the lock, whatever the file says
of it; it is nobody if there is no file, and a dead owner if there is a file
whose maker is gone, or a torn one if its record was never written. As long as nothing raced, that is the history variable
`creator` (`OwnerIsCreator`), and so a creation takes the lock, a release gives
back the releaser's own, a death leaves a dead owner or a torn file, and a removal takes away a
dead owner's file and no other. The promise is `[~ raced' => ...]`, of every
step up to the first removal of a lock file that was neither read nor created.
`LockIsOwnLock` is the other half: the store takes the lock only from nobody
or from the dead and gives back only its own, which needs `LockInv`. Together
they say that the one step of `ProjectStore` is what the lock file does, and
`lock_race` shows the point at which it no longer is.

**Atomic write.** `TempInv` says which temporary files there are and how much
of each is written and flushed at each step of its writer, `TargetInv` that
every entry a loss of power may leave is whole and was not reported as failed,
`ValueInv` and `SeenInv` that a writer that has not renamed yet has a value
nobody has seen, so that reporting its failure makes nothing false.

**Repair.** What a plan removes was damaged when it was scanned; the scan is
compared with the store under the lock (`Fresh`), and from then on nobody but
the repair may remove a record: `PlanInv` says of each phase which files are
still as they were scanned and which are in quarantine. `CaptureInv` says the
same of a capture, which may hold the lock instead. `ReceiptInv` needs that
the rebuilt chronology lists only what verifies, in the order it had; that is
`KeptHistory`, from the lemmas of `Ranking`.

**Migration.** `ManifestInv` says that a manifest of format 2 begins with the
recovered inventory and that one of format 1 is the inherited one, `MigratingInv` what a process has loaded and backed up at each
step. That the recovered chronology holds each record of the inventory once,
ordered by time and then by name and with the known latest at the end, is
`RecoveredInOrder`.

**The installer.** `WorkInv` says for each phase (backing up, moving, undoing,
restoring) which places may be involved and what is known of the outcome, and
`PlaceInv`, for an installer that nobody disturbed, where what it found at a
place has gone: it is there, or in the backup. `AloneInv` says that nobody else
is at work while an installer is alone. The three properties are conjuncts of
`IInv` themselves, because they go on to hold when the installer has reported.

**The computations.** Their one variable holds one case at a time. Three kinds
of case last for more than a step, so that what they may not do is said of a
history, and `CaseInv` has a part for each.

* *A release* (`TrailInv`): where the last validation still stands, no change of
  the source follows it; before the release is published nothing in its trail
  is "published". Without the first part a publication could not know of the
  validation behind it, without the second it might be the second one. The
  lemma is `TrailGrows`, from the table of allowed successors alone.
* *An invocation* (`ProcessInv`): before it starts it has done nothing, while a
  request is in flight it has done exactly four things in their order, and its
  line is one that asks for the network; when it is done it ended as it says.
  An abort is only of a line that comes to the GitHub command, hence never of
  one that ends with help. This part was missing, and the proof did not go
  through: the model let `github ... --help` be aborted, which the code, looking
  for help first, never is. Nothing of the grammar is needed but that
  `ParseCliArgs` is a function and gives a line that begins with `github` either
  a refusal or that command.
* *An installer* (`InstallerInv`): its rollbacks have different names, and its
  last answer is related to the memory before it and after it by `Remembers`.
  Whatever the work on the disk came to, a fold over operations of which the
  proof knows nothing, the memory changes only by `Install`, `ApplyUpdate` and
  `Rollback`, which add to the end or change one field.

A preview of a package is one step, and `GuardsHold` says of every input what
passing its last guard means. A report is good if it has no reasons, hence
(`NoReason`) if none of its conditions holds; a lemma for each of the ten layers
says what that gives, and from the last layer back each is good because the
next one asked for it. What was computed of the package, its archive and its
impact stays unexpanded: nothing the guards rest on depends on it.

**Sequences without induction.** The code sorts with comparators. `Ranking`
defines the result by the rank of each record, `Ranked(S, Orders)`, instead of
a recursion: the record at place i is the one with i - 1 records before it.
`Ranks` proves that the ranks of a finite set under a strict total order are
1..n, each once, and `RankedInOrder` that the sequence therefore holds every
record once, in order. So what a rebuild or a migration puts into a chronology
is proved for every length.

### What stays with TLC

* Liveness (`CapturesSucceed`, `OrphansReclaimed`, `RepairsConverge`): it needs fairness and `ENABLED`, which the prover does
  not handle.
* Of the nine properties of `algorithms` all but the four parts named in the
  table: they are about what folds, filters and sorts compute, and a proof for
  every input is by induction over the input, which the provers cannot
  instantiate. Their operators are recursive functions and folds rather than
  `RECURSIVE` operators, so what does not depend on what a fold computes can
  still be proved, as those parts show. That what was sent is what was typed
  (`SentAsTyped`) is about the parser's fold over the arguments, and stays
  with the run too.
* `StoreRepair!ReceiptTruthful` and `StoreLock!MutualExclusion` are false
  (section 3.1).

## 5. What is not modelled, and why

* Contracts: JSON schemas and the types generated from them. Data location and
  path checks: pure functions of strings and of one `lstat`. Tools, tests,
  examples, documents: not part of the running program, read for what they
  claim of it.
* Contents: canonical JSON, digests, the calendar (an instant is a number),
  wording, layout, the languages of a rendered text, the summary of changes in
  words. An identity stands for a digest and two digests are equal only for
  equal content.
* Damage is confined to the repair module and to `MemoryCommands`; the other
  modules assume that files hold what was written. In the repair module a
  damaged manifest never verifies, so findings about a manifest that verifies
  but contradicts itself do not arise. `deleteProject` with
  `forceCorruptDelete` is in `MemoryCommands` as one step only.
* Loss of power outside the one file the code flushes: the release notes
  exclude it.
* The Model Context Protocol and its transport (the SDK's), the bindings'
  loading of the WebAssembly module, the terminal.
* Of the release installer, the verification of a bundle's checksums and
  archive is a choice of the model: it passes or it fails. The worker that
  starts it, uninstallation by hand and the shims' text are left out.
* Of the skills `review-changes.ts`, which only looks for words in a text; of
  the installer library `audit-export.ts`, which only renders a report.

## 6. Plan

Done: the store and what it implements, its lock and what that implements, its
atomic write, its readers, its repair, its migration; the release installer;
the computations from the kernel to the installer's library; the proofs of
every safety property of all these but the computations, and of the
computations' parts that last for more than a step and the guards of a write.

What is left is to prove more of the computations without induction. In this
order:

1. `PlansRunInOrder`, from the lemmas on a prefix of a sequence: the planner's
   steps are in the order of the requests, and the executor stops at the first
   that fails.
2. That a package compared with itself is never ready (the rest of
   `WritesAreGated`), `ReadyIsWhole`, and the parts of `ToolsAreHonest` that say
   what a tool asks.
