------------------------------ MODULE Packages ------------------------------
(***************************************************************************)
(* The installer's previews and its work on a disk that others change too, *)
(* added to Extraction.  No surface of the program calls the part that     *)
(* writes: it is the library's.                                            *)
(***************************************************************************)
EXTENDS Extraction

CONSTANTS PackageInputs,     \* what a preview is asked
          Disks,             \* where an installer begins
          Installations,     \* what it is asked to install, with the files at hand
          PackageUpdates, PackageRollbacks, Faults, Edits,
          MaxCalls           \* bounds the calls of an installer

\* An update plan has its parts, and what is installed has a version.
ASSUME PackageUpdatesAssumption ==
  \A u \in PackageUpdates : /\ DOMAIN u.plan = {"id", "from", "to", "steps", "rollback", "paths"} /\ u.plan.paths \in Nat
                             /\ "version" \in DOMAIN u.current

\* A token of approval has its four parts.
ASSUME PackageInputsAssumption ==
  \A in \in PackageInputs : \A t \in in.tokens :
    t = [intent |-> t.intent, root |-> t.root, decision |-> t.decision, text |-> t.text]

Pkg == INSTANCE PackageInstaller

PreviewPackage ==
  /\ case = Start
  /\ \E in \in PackageInputs : case' = [of |-> "package", in |-> in]

-----------------------------------------------------------------------------
(* An installer at work. `was` is what was before the last call. *)

Fresh == [installed |-> {}, updates |-> <<>>, rollbacks |-> <<>>]
Idle == [call |-> "none"]

OpenInstaller ==
  /\ case = Start
  /\ \E d \in Disks : case' = [of |-> "installer", calls |-> 0, base |-> d.base, disk |-> d.disk, state |-> Fresh,
                               plans |-> {}, last |-> Idle, was |-> [disk |-> d.disk, state |-> Fresh]]

MayCall == case.of = "installer" /\ case.calls < MaxCalls

Before == [disk |-> case.disk, state |-> case.state]

\* A call with what it was asked and its answer, which tells the new state and,
\* when something was carried out, the new disk and what came of each operation.
Answered(call, asked, answer) ==
  case' = [case EXCEPT !.calls = @ + 1, !.was = Before, !.state = answer.state,
                       !.last = [call |-> call, asked |-> asked, ok |-> answer.ok, messages |-> <<>>]]
CarriedOut(call, asked, answer) ==
  case' = [case EXCEPT !.calls = @ + 1, !.was = Before, !.state = answer.state,
                       !.last = [call |-> call, asked |-> asked, ok |-> answer.ok, messages |-> answer.messages],
                       !.disk = answer.disk]

InstallPackage ==
  /\ MayCall
  /\ \E i \in Installations : Answered("install", [input |-> i.input], Pkg!Install(case.state, i.input))

UpdatePackage ==
  /\ MayCall
  /\ \E u \in PackageUpdates : Answered("update", [plan |-> u.plan], Pkg!ApplyUpdate(case.state, u.plan, u.current))

RememberRollback ==
  /\ MayCall
  /\ \E r \in PackageRollbacks : Answered("rollback", [rollback |-> r], Pkg!Rollback(case.state, r))

\* A plan is made of the disk as it is, and kept.
PlanPackage ==
  /\ MayCall
  /\ \E i \in Installations :
       LET plan == Pkg!PlanInstall(i.input.root, i.input.installedAt, i.input.manifest, case.disk, case.base)
       IN case' = [case EXCEPT !.calls = @ + 1, !.was = Before,
                               !.last = [call |-> "plan", asked |-> [input |-> i.input], ok |-> plan.ok, messages |-> <<>>],
                               !.plans = IF plan.ok THEN {plan} ELSE @]

\* It is carried out later, with the files and the input the caller has then.
CarryOutPlan ==
  /\ MayCall
  /\ \E plan \in case.plans, i \in Installations, fault \in Faults :
       CarriedOut("execute", [plan |-> plan, files |-> i.files, input |-> i.input],
                  Pkg!ExecuteInstall(case.state, case.disk, case.base, i.input, plan, i.files, fault))

CarryOutRollback ==
  /\ MayCall
  /\ \E r \in PackageRollbacks, fault \in Faults :
       CarriedOut("back up", [rollback |-> r], Pkg!ExecuteRollback(case.state, case.disk, case.base, r, fault))

\* Somebody else writes to the directory or removes from it.
EditDisk ==
  /\ MayCall
  /\ \E e \in Edits :
       /\ Pkg!CanMake(case.disk, e.place) /\ Pkg!SortAt(case.disk, e.place) # "directory"
       /\ case' = [case EXCEPT !.calls = @ + 1, !.was = Before, !.last = Idle,
                               !.disk = IF e.remove THEN Pkg!WithoutFile(@, e.place) ELSE Pkg!Put(@, e.place, e.content)]

-----------------------------------------------------------------------------
(* Previews. *)

Layers(in) == LET preview == Pkg!InstallPreview(in) IN [preview |-> preview, guards |-> Pkg!Guards(in, preview)]

\* What a list of entries makes of a directory.
Content(root, entries) == LET known == Pkg!Known(root, entries) IN [p \in DOMAIN known |-> known[p].checksum]
Carried(operations, before, writing) ==
  LET written == {o \in operations : o.kind \in writing}
      removed == {o.path : o \in {o \in operations : o.kind = "remove"}}
      path(o) == o.path
  IN [p \in (DOMAIN before \union {path(o) : o \in written}) \ removed |->
        IF \E o \in written : o.path = p THEN (CHOOSE o \in written : o.path = p).checksum ELSE before[p]]

\* A package that is called ready is whole, in every part and down to every file
\* asked for, and its checks have seen the very archive they speak of.
ReadyIsWhole(it) ==
  it.of = "package" =>
    LET in == it.in
        layers == Layers(in)
        preview == layers.preview
    IN /\ layers.guards.decision.decision = "ready" =>
            /\ \A s \in Range(preview.sections) : s.ok /\ s.reasons = {}
            /\ ~in.altered /\ in.signed /\ layers.guards.audit = {}
            /\ Len(preview.operations) = Len(in.include)
            /\ \A i \in DOMAIN in.include :
                 \E f \in Pkg!ReadFile(in.later, in.base, Pkg!JoinPath(in.root, in.include[i])) :
                   /\ preview.operations[i].checksum = f.checksum
                   /\ preview.operations[i].kind = "replace"
       /\ layers.guards.decision.decision # "ready" <=> layers.guards.decision.reasons # {}
       /\ \A n \in DOMAIN preview.sections : \A r \in preview.sections[n].reasons :
            \E e \in layers.guards.events : e.subject = n /\ e.reason = r /\ e.level # "info"

\* An update that is let through is one the policy asks for, and what it and a
\* rollback would do makes of the directory what they are for.
ImpactsAreExact(it) ==
  it.of = "package" =>
    LET in == it.in
        preview == Pkg!InstallPreview(in)
        current == Content(in.root, Pkg!Entries(preview.current))
        backup == Content(in.root, Pkg!Entries(preview.backup))
        rolled == Carried(preview.rollback.operations, current, {"restore"})
    IN /\ Carried(preview.update.operations, current, {"create", "replace"}) = Content(in.root, preview.archive.entries)
       /\ \A o \in preview.rollback.operations :
            IF o.path \in DOMAIN backup THEN rolled[o.path] = backup[o.path] ELSE o.path \notin DOMAIN rolled
       /\ \A p \in DOMAIN current : (\A o \in preview.rollback.operations : o.path # p) => rolled[p] = current[p]
       /\ preview.policy.decision = "allowed" =>
            \E e \in Range(preview.channel.entries) :
              /\ \A f \in Range(preview.channel.entries) : f.createdAt <= e.createdAt
              /\ e.version # in.installed /\ (e.version > in.installed \/ in.updatePolicy.allowDowngrade)
              /\ in.updatePolicy.requireIntegrity => e.integrity

\* A write passes its guards only when it is ready, wanted explicitly, allowed,
\* approved for exactly this, the same to every layer, and within what the
\* adapter declares; a release only when a write passes and all of it is there.
GuardsAreKept(it) ==
  it.of = "package" =>
    LET in == it.in
        guards == Layers(in).guards
        token == Pkg!Token(in.intents[1], in.root, "ready")
    IN /\ guards.envelope.ok =>
            /\ guards.decision.decision = "ready" /\ in.policy.mode = "explicit" /\ in.intents[1] \in in.policy.intents
            /\ in.intents[1] = in.intents[2] /\ in.intents[2] = in.intents[3]
            /\ in.policy.requireApproval => in.approved \/ token \in in.tokens
            /\ guards.plan.steps # {} /\ \A s \in guards.plan.steps : s.needs \in in.contract.capabilities
       /\ guards.confirmation.ok =>
            /\ guards.envelope.ok /\ in.failing = {} /\ in.artifactPolicy.mode = "explicit" /\ in.artifactApproved
            /\ guards.artifacts.planned = Range(Pkg!ArtifactItems) /\ in.release # ""

\* And what the command line previews, a package compared with itself, passes none.
WritesAreGated(it) ==
  /\ GuardsAreKept(it)
  /\ it.of = "package" =>
       LET guards == Layers(it.in).guards
       IN it.in.own => /\ guards.decision.decision # "ready" /\ ~guards.capability.ok
                       /\ ~guards.envelope.ok /\ ~guards.confirmation.ok

-----------------------------------------------------------------------------
(* Work. *)

\* The places of the operations that were tried, in order.
Tried(it, call) ==
  [i \in DOMAIN call.messages |->
     {Pkg!Reached(it.was.disk, s) : s \in Pkg!RealPaths(it.base, call.asked.plan.operations[i].path)}]

\* What the last call did to the disk.
Changes(it) ==
  {s \in DOMAIN it.disk \union DOMAIN it.was.disk :
     ~(s \in DOMAIN it.disk /\ s \in DOMAIN it.was.disk /\ it.disk[s] = it.was.disk[s])}
Links(it) == {l \in DOMAIN it.was.disk : it.was.disk[l].sort = "link"}

\* A link at a place is left as it is; and where no link of the root leads out of
\* it, nothing outside changes.
LinksAreLeft(it) ==
  /\ Changes(it) \intersect Links(it) = {}
  /\ \A s \in Changes(it) : IsPrefix(it.base, s) \/ \E l \in Links(it) : IsPrefix(it.base, l) /\ IsPrefix(it.was.disk[l].to, s)

\* Carrying a plan out writes to the places of the plan and no others, each what
\* the last write to it held, up to the first failure; through the links among a
\* place's parents, which nobody looks for, it writes where they lead, even outside
\* the root. A package counts as installed only when all of it was written.
ExecutionIsExact(it) ==
  (it.of = "installer" /\ it.last.call = "execute") =>
    LET last == it.last
        tried == Tried(it, last)
        count == Len(last.asked.plan.operations)
        wrote(s) == {i \in DOMAIN tried : last.messages[i] = "" /\ tried[i] = {s}}
        content(i) == (CHOOSE f \in Pkg!FilesFor(last.asked.plan.operations[i], last.asked.files) : TRUE).content
        broken(s) == \E i \in DOMAIN tried : last.messages[i] = "write_failed" /\ tried[i] = {s}
    IN /\ \A i \in DOMAIN last.messages : i < Len(last.messages) => last.messages[i] = ""
       /\ \A s \in Changes(it) \union UNION {tried[i] : i \in {i \in DOMAIN tried : last.messages[i] = ""}} :
            \/ wrote(s) # {} /\ it.disk[s].content = content(CHOOSE i \in wrote(s) : \A j \in wrote(s) : j <= i)
            \/ broken(s) /\ it.disk[s].content = 0
       /\ LinksAreLeft(it)
       /\ last.ok => /\ Len(last.messages) = count /\ last.messages[count] = ""
                     /\ it.state.installed = {[version |-> last.asked.input.manifest.version, installedAt |-> last.asked.input.installedAt,
                                                 root |-> last.asked.input.root]}
       /\ ~last.ok => it.state = it.was.state

\* A rollback that is newly remembered by carrying it out has the backups of all
\* its paths, as they were and as a plan made just before would have it; nothing
\* but backups is written.
RollbacksAreBackedUp(it) ==
  (it.of = "installer" /\ it.last.call = "back up") =>
    LET last == it.last
        asked == last.asked.rollback
        planned == Pkg!PlanRollbackCapture([root |-> Pkg!Path("root", it.base), id |-> asked.id, paths |-> asked.paths,
                                             createdAt |-> asked.createdAt], it.was.disk, it.base)
        copy(p) == {Pkg!CopyPlace(it.was.disk, Pkg!BackupPlace(it.base, asked.id, s)) : s \in Pkg!RealPaths(it.base, p)}
    IN /\ last.ok => \A p \in Range(asked.paths) : \E f \in Pkg!ReadFile(it.was.disk, it.base, p), c \in copy(p) :
                       c \in DOMAIN it.disk /\ it.disk[c].content = f.content
       /\ last.ok => /\ planned.ok /\ planned.rollback = asked
                     /\ \A o \in Range(planned.operations) : o.kind = "backup"
       /\ it.state # it.was.state => last.ok
       /\ \A s \in Changes(it) : s \in DOMAIN it.disk /\ \E p \in Range(asked.paths) : s \in copy(p)
       /\ LinksAreLeft(it)

\* What is remembered follows the calls: a call that fails changes nothing, a
\* rollback is never replaced or forgotten, an installation changes all of the
\* manifest and an update its version only.
MemoryFollowsCalls(it) ==
  it.of = "installer" =>
    LET now == it.state
        was == it.was.state
        last == it.last
        version(s) == {m.version : m \in s.installed}
    IN /\ last.call \in {"none", "plan"} \/ ~last.ok => now = was
       /\ IsPrefix(was.rollbacks, now.rollbacks) /\ IsInjective([i \in DOMAIN now.rollbacks |-> now.rollbacks[i].id])
       /\ IsPrefix(was.updates, now.updates)
       /\ now.updates # was.updates <=> last.call = "update" /\ last.ok
       /\ now.installed # was.installed => last.call \in {"install", "update", "execute"}
       /\ last.call = "update" /\ last.ok =>
            /\ version(now) = {last.asked.plan.to} /\ last.asked.plan.to # 0 /\ last.asked.plan.paths > 0
            /\ \A m \in was.installed, n \in now.installed : n = [m EXCEPT !.version = last.asked.plan.to]

HonestInstalls(it) ==
  /\ ReadyIsWhole(it) /\ ImpactsAreExact(it) /\ WritesAreGated(it)
  /\ ExecutionIsExact(it) /\ RollbacksAreBackedUp(it) /\ MemoryFollowsCalls(it)

\* No step of an installer does otherwise.
InstallsAreHonest == [][HonestInstalls(case')]_case

-----------------------------------------------------------------------------
PackagesNext ==
  \/ ExtractionNext \/ PreviewPackage \/ OpenInstaller \/ InstallPackage \/ UpdatePackage \/ RememberRollback
  \/ PlanPackage \/ CarryOutPlan \/ CarryOutRollback \/ EditDisk
PackagesSpec == Init /\ [][PackagesNext]_case
=============================================================================
