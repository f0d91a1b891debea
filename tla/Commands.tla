------------------------------ MODULE Commands ------------------------------
(***************************************************************************)
(* The surfaces of the program, added to Algorithms: a line is typed and   *)
(* run, a tool is called, a memory command is previewed and applied.       *)
(***************************************************************************)
EXTENDS Algorithms

CONSTANTS
  MaxInteger, Spelling, CommandLines, RunLines, CommandWorlds,   \* CommandLine, CommandProcess
  MaxSnapshots, Cites, MemoryRequests, MemoryStores, MemoryWorlds      \* MemoryCommands

\* A runtime and a memory command come to one of these ends.
ASSUME CommandWorldsAssumption ==
  \A w \in CommandWorlds : /\ w.runtime \in {"throws", "not ok", "no output", "ok"}
                            /\ w.memory \in {"ok", "nothing to compare", "fails", "throws"}

Cli == INSTANCE CommandProcess WITH
  MaxLimit <- MaxListLimit,
  Settings <- Source!ResolveGitHubProviderSettings,
  Selection <- Source!ResolveGitHubSourceSelection,
  Request <- Source!CreateGitHubProviderRequest,
  Validated <- Source!ValidateProviderConfig,
  Defaults <- Source!DefaultGitHub

Memory == INSTANCE MemoryCommands

-----------------------------------------------------------------------------
(* CommandLine and CommandProcess. *)

TypeLine ==
  /\ case = Start
  /\ \E line \in CommandLines : case' = [of |-> "line", line |-> line]

RunLine ==
  /\ case.of = "line" /\ case.line \in RunLines
  /\ \E world \in CommandWorlds : case' = Cli!Process(case.line, world)

StepProcess ==
  /\ case.of = "process"
  /\ case' \in Cli!ProcessSteps(case)

\* A line that is accepted says no more and no less than its command: written out
\* with every default, in another order, it is the same command, each of its
\* tokens is in it, and with a flag for help added it is told of that command.
LinesAreKept(it) ==
  it.of = "line" =>
    LET command == Cli!ParseCliArgs(it.line)
        written == Cli!Canonical(command)
    IN Cli!IsRefused(command) \/
         /\ Cli!ParseCliArgs(written) = command
         /\ Cli!HelpTopic(it.line) = command.command
         /\ \A t \in Range(it.line) : \/ t.text \in Cli!Modes
                                        \/ \E w \in Range(written) : IF t.option THEN w.names = t.names
                                             ELSE w.text = t.text \/ (w.number = t.number /\ t.number >= 0)

\* What a command was told to ask, from its line and, where it says nothing, the
\* configuration.
SentAsTyped(command, sent) ==
  /\ command.command = "github" /\ command.args # <<>> => sent.request.query.repository = Spelling[command.args[1]]
  /\ command.command = "github" =>
       /\ \A o \in DOMAIN command.given \intersect {"state", "kind", "number", "limit"} :
            sent.selection[o] = command.given[o]
       /\ "query" \in DOMAIN command.given => sent.selection.query = Spelling[command.given.query]
       /\ \A note \in DOMAIN Cli!NoteNames :
            /\ Cli!NoteNames[note] \in DOMAIN command.given <=>
                 "notes" \in DOMAIN sent.selection /\ note \in DOMAIN sent.selection.notes
            /\ Cli!LimitNames[note] \in DOMAIN command.given =>
                 sent.selection.notes[note] = command.given[Cli!LimitNames[note]]

\* Help and a refused line reach for nothing; the network is reached last, once
\* all else is settled, by a command that asks for it; a failure is never told as
\* a success, nor an answer that came after the signal.
ProcessesEndHonestly(it) ==
  it.of = "process" /\ it.at = "done" =>
    LET p == it
        command == Cli!ParseCliArgs(p.line)
    IN /\ p.out # "stdout" => p.exit \in {1, 2}
       /\ p.ok => p.out = "stdout"
       /\ Cli!IsHelpRequest(p.line) \/ Cli!IsRefused(command) => p.did = <<>>
       /\ "network" \in Range(p.did) =>
            /\ command.command = "github" \/ "confirmNetwork" \in DOMAIN command.given
            /\ p.did[1] = "config" /\ Last(p.did) = "network" /\ Len(p.sent) = 1
            /\ "providerConfig" \in DOMAIN command.given => command.given.providerConfig \in DOMAIN p.world.files
       /\ p.aborted => ~p.ok

\* And what was sent then is what was typed.
ProcessesAreHonest(it) ==
  /\ ProcessesEndHonestly(it)
  /\ it.of = "process" /\ it.at = "done" =>
       ("network" \in Range(it.did) => SentAsTyped(Cli!ParseCliArgs(it.line), it.sent[1]))

-----------------------------------------------------------------------------
(* MemoryCommands: a request, a store and a world, and the store a first      *)
(* command leaves, on which a second one runs.                                *)

AskMemory ==
  /\ case = Start
  /\ \E request \in MemoryRequests, s \in MemoryStores, w \in MemoryWorlds :
       case' = [of |-> "memory", request |-> request, store |-> s, world |-> w]

Run(request, s, w) == Memory!RunMemoryProcess(request.sub, request.given, s, w)
As(request, apply) == [request EXCEPT !.given.apply = apply]

\* An apply that succeeds on the store its preview saw does what the preview
\* said, and a preview changes nothing.
PreviewsAreKept(it) ==
  it.of = "memory" /\ "apply" \in DOMAIN it.request.given =>
    LET seen == Run(As(it.request, FALSE), it.store, it.world)
        done == Run(As(it.request, TRUE), it.store, it.world)
    IN /\ seen.store = it.store
       /\ seen.ok /\ done.ok =>
            CASE it.request.sub = "capture" ->
                   /\ seen.says.wouldCreateSnapshot = (Len(done.store.snaps) > Len(it.store.snaps))
                   /\ seen.says.snapshotCount = done.says.snapshotCount
                   /\ done.says.idempotent => seen.says.wouldBeIdempotent
                   /\ seen.says.wouldMigrateStore = ("storeMigrated" \in DOMAIN done.says)
              [] it.request.sub = "export" -> seen.says.counts = done.says.counts
              [] it.request.sub = "delete" -> seen.says.wouldDelete = done.says.deleted /\ done.store = Memory!NoStore
              [] it.request.sub = "repair" -> seen.says.actionCount = done.says.actionCount

\* A repair took away evidence, and left these snapshots, which cite it.
Uncited(s) == {x \in ToSet(s.snaps) : ~Cites[x] \subseteq s.evid}

\* A failure leaves what the store lists as it was, but for a migration it owns
\* up to; where the exit code says to do otherwise (2) or to wait or to repair (4),
\* not a file was touched.
FailuresAreClean(it) ==
  it.of = "memory" =>
    LET done == Run(it.request, it.store, it.world) IN
    ~done.ok =>
      /\ done.store.snaps = it.store.snaps /\ done.store.evid = it.store.evid
      /\ done.store.manifest # it.store.manifest => "storeMigrated" \in DOMAIN done.says
      /\ done.exit \in {2, 4} => done.store = it.store
      /\ done.exit = 4 => (it.store.locked \/ it.world.destination = "unsafe" \/ Memory!ReadManifestError(it.store) # "none"
                             \/ Memory!Broken(it.store) # {} \/ Uncited(it.store) # {})

\* What status calls healthy can be compared, exported, deleted and captured
\* into, unless another process is at it, a limit is reached, or a repair took
\* away evidence and left the snapshot that cites it: that snapshot cannot be
\* compared, nor captured again.
HealthyIsUsable(it) ==
  it.of = "memory" =>
    LET told == Run([sub |-> "status", given |-> [projectId |-> "p"]], it.store, it.world)
        done == Run(it.request, it.store, it.world)
    IN told.says.status = "healthy" /\ ~done.ok =>
         \/ done.code = "identity" \/ done.code = "confirmation mismatch" \/ it.store.locked
         \/ it.request.sub = "changes" /\ "previous" \in DOMAIN it.request.given
         \/ it.request.sub \in {"changes", "timeline"} /\ Uncited(it.store) # {}
         \/ it.request.sub = "export" /\ it.world.destination # "free"
         \/ it.request.sub = "capture" /\ (~it.world.derives \/ Len(it.store.snaps) >= MaxSnapshots)
         \/ it.request.sub = "capture" /\ it.world.snapshot \in Uncited(it.store)

\* Only the project that is confirmed, and that the request resolves to, is deleted.
DeletesWhatIsConfirmed(it) ==
  it.of = "memory" =>
    LET done == Run(it.request, it.store, it.world)
        id == Memory!ResolveReadIdentity(it.request.given, it.world)
    IN it.store.dir /\ ~done.store.dir =>
         /\ it.request.sub = "delete" /\ it.request.given.confirm = id
         /\ "projectId" \in DOMAIN it.request.given => id = it.request.given.projectId
         /\ Memory!Verify(it.store).ok \/ it.request.given.forceCorruptDelete

MemoryIsHonest(it) == PreviewsAreKept(it) /\ FailuresAreClean(it) /\ HealthyIsUsable(it) /\ DeletesWhatIsConfirmed(it)

\* What a command line asks is done, as it was shown, once, or not at all.
HonestCommands(it) == LinesAreKept(it) /\ ProcessesAreHonest(it) /\ MemoryIsHonest(it)

\* No step of a command does otherwise.
CommandsAreHonest == [][HonestCommands(case')]_case

-----------------------------------------------------------------------------
CommandsNext ==
  \/ ProgramNext
  \/ TypeLine \/ RunLine \/ StepProcess
  \/ AskMemory

CommandsSpec == Init /\ [][CommandsNext]_case
=============================================================================
