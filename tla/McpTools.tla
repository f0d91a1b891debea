------------------------------ MODULE McpTools ------------------------------
(***************************************************************************)
(* The tools of the MCP server (mcp-server/src): which are registered,     *)
(* what a call reaches for, and what of an answer is shown.                *)
(*                                                                         *)
(* A call's input is a partial record; what a schema does not name is      *)
(* dropped.  A text is a symbol: "control", "long" and "" are unfit for    *)
(* any field, "path" for a field that is displayed, and "marker" has the   *)
(* name of an internal field in it.  A result is a record with "shown", an *)
(* error one without.                                                      *)
(***************************************************************************)
EXTENDS CommandProcess

CONSTANTS
  Inspect(_), Compare(_, _, _), Read(_, _, _),   \* the store, compareProject and timelineProject, as in MemoryCommands
  Derive(_, _),                                  \* the kernel's page of a timeline
  MaxShown, DefaultShown, DefaultEvents,         \* limits of project_changes and project_timeline
  MaxAttached                                    \* by kind of note, how many a source shows

Error(code, did) == [code |-> code, did |-> did]
Result(shown, did) == [shown |-> shown, did |-> did]
IsError(result) == "code" \in DOMAIN result

-----------------------------------------------------------------------------
(* createOhMyPmMcpServer: ten tools, and two that need the package of the     *)
(* memory, each probed for itself.                                            *)

ProjectTools == [project_brief |-> "brief", project_risks |-> "risks", project_next |-> "next", project_handoff |-> "handoff"]
GitHubTools == [github_project_brief |-> "brief", github_project_risks |-> "risks", github_project_next |-> "next",
                github_project_handoff |-> "handoff"]
MemoryTools == {"project_changes", "project_timeline"}

Tools(loaded) ==
  DOMAIN ProjectTools \union DOMAIN GitHubTools \union {"provider_status", "github_provider_diagnostics"} \union loaded

\* The keys of an input that a schema knows.
ChangesKeys == {"projectId", "previousSnapshotId", "currentSnapshotId", "staleAfterSeconds", "limit"}
TimelineKeys == {"projectId", "limit", "beforeSequence", "category", "kind"}
GitHubKeys ==
  {"repository", "limit", "source", "state", "number", "query", "kind", "includeComments", "commentLimit",
   "includeReviews", "reviewLimit", "includeReviewComments", "reviewCommentLimit"}
DiagnosticsKeys == {"repository", "confirmNetwork"}

InputKeys(tool) ==
  CASE tool \in DOMAIN ProjectTools -> {"root"}
    [] tool \in DOMAIN GitHubTools -> GitHubKeys
    [] tool = "github_provider_diagnostics" -> DiagnosticsKeys
    [] tool = "project_changes" -> ChangesKeys
    [] tool = "project_timeline" -> TimelineKeys
    [] OTHER -> {}

-----------------------------------------------------------------------------
(* The document tools: an output is shown whole or not at all, but for the     *)
(* fields an entry may do without.  An output is a record: which of its fields  *)
(* have the wrong type, and for each of its entries which of its.               *)

OutputFields == [brief |-> {"title", "summary", "generatedAt", "counts", "highlights"}, risks |-> {"risks"},
                 next |-> {"tasks"}, handoff |-> {"title", "generatedAt", "sections"}]
EntryFields == [brief |-> {"total", "done", "blocked", "open"}, risks |-> {"id", "title", "reason", "severity"},
                next |-> {"id", "title", "reason"}, handoff |-> {"heading", "items"}]
SignalMetadata == {"source", "sourceType", "url", "owner", "due", "repository", "number"}
OptionalFields == [brief |-> {}, risks |-> SignalMetadata, next |-> SignalMetadata \union {"priority"}, handoff |-> {}]

ProjectResult(operation, output) ==
  LET fit(entry) == entry.odd \intersect EntryFields[operation] = {}
      shown(entry) == [fields |-> EntryFields[operation] \union (entry.fields \intersect (OptionalFields[operation] \ entry.odd))]
  IN IF output.odd \intersect OutputFields[operation] # {} \/ \E e \in Range(output.entries) : ~fit(e)
     THEN Refused ELSE [entries |-> [i \in DOMAIN output.entries |-> shown(output.entries[i])]]

\* The same workflow as the command's; what it throws is an error here.
HandleProjectTool(tool, input, world, output) ==
  LET p == RunLocalProjectWorkflow(Process(<<>>, world), [args |-> <<IF "root" \in DOMAIN input THEN input.root ELSE ".">>])
      projected == ProjectResult(ProjectTools[tool], output)
  IN IF ~p.ok THEN Error("project failed", p.did)
     ELSE IF IsRefused(projected) THEN Error("output invalid", p.did) ELSE Result(projected.entries, p.did)

-----------------------------------------------------------------------------
(* The GitHub tools: the workflow of the command, without a configuration of   *)
(* the caller's choice or a signal.                                            *)

CommandFor(operation, input) ==
  [command |-> "github", sub |-> operation, mode |-> "json", given |-> input,
   args |-> IF "repository" \in DOMAIN input THEN <<input.repository>> ELSE <<>>]

\* A flag that is set to false is as one that is not given.
FlagsSet(input) == {o \in DOMAIN input : o \in Range(NoteNames) => input[o]}

\* What an item or a note shows of itself is its id; a note is no source of its own.
NoteKinds == DOMAIN MaxAttached
Sources == {"issue", "pullRequest"}
CountOf(items, type) == Cardinality({i \in DOMAIN items : items[i].type = type})

SourceSummary(items) ==
  [total |-> Cardinality({i \in DOMAIN items : items[i].type \notin NoteKinds}), repositories |-> CountOf(items, "record")]
  @@ [t \in Sources \union NoteKinds |-> CountOf(items, t)]

\* The notes of a source, by its number, up to a bound for each kind.
Attached(items, source, kind) ==
  LET under(i) == i.type = kind /\ i.parent = source.number
      notes == SelectSeq(items, under)
  IN SubSeq(notes, 1, IF Len(notes) < MaxAttached[kind] THEN Len(notes) ELSE MaxAttached[kind])

ProjectSources(items) ==
  LET isSource(i) == i.type \in Sources
      sources == SelectSeq(items, isSource)
      attached(s) == [k \in {k \in NoteKinds : Attached(items, s, k) # <<>>} |-> Attached(items, s, k)]
  IN [i \in DOMAIN sources |-> [type |-> sources[i].type, number |-> sources[i].number, notes |-> attached(sources[i])]]

SourceCap(selection) == IF selection.mode \in {"item", "repository"} THEN 1 ELSE selection.limit

PublicSelection(s) ==
  Only(s, CASE s.mode = "repository" -> {"mode"} [] s.mode = "item" -> {"mode", "number", "notes"}
            [] s.mode = "search" -> {"mode", "state", "kind", "query", "limit"} [] OTHER -> {"mode", "state", "limit"})

PublicSources(items, selection) ==
  LET all == ProjectSources(items)
  IN SubSeq(all, 1, IF Len(all) < SourceCap(selection) THEN Len(all) ELSE SourceCap(selection))

ExecuteMcpGitHubTool(tool, input, world) ==
  LET begun == RunGitHubProjectWorkflow(Process(<<>>, world), CommandFor(GitHubTools[tool], Only(input, FlagsSet(input))))
  IN IF begun.at = "in flight" THEN FinishGitHub(begun) ELSE begun

HandleGitHubTool(tool, input, world, items) ==
  LET p == ExecuteMcpGitHubTool(tool, input, world)
      selection == p.sent[1].selection
  IN IF ~p.ok THEN Error("github failed", p.did)
     ELSE Result([selection |-> PublicSelection(selection), summary |-> SourceSummary(items),
                  sources |-> PublicSources(items, selection)], p.did)

-----------------------------------------------------------------------------
(* The diagnostics. A configuration that is not valid is reported, and the     *)
(* defaults stand in for it, for a confirmed request to the network too.        *)

ResolveConfig(world) ==
  LET config == LoadProviderConfig([o \in {} |-> " "], world)
  IN [valid |-> ~IsRefused(config), config |-> IF IsRefused(config) THEN Defaults ELSE config]

ExecuteMcpProviderStatus(world) ==
  Result([valid |-> ResolveConfig(world).valid, token |-> ReadGitHubToken(world.env) # "none"], <<"config", "token">>)

ExecuteMcpGitHubProviderDiagnostics(input, world) ==
  LET resolved == ResolveConfig(world)
      offline == resolved.valid /\ world.kernel
      settings == Settings(resolved.config, IF "repository" \in DOMAIN input THEN [repository |-> Spelling[input.repository]]
                                            ELSE [o \in {} |-> 0])
      report(ok, attempted) == [ok |-> ok, networkAttempted |-> attempted]
  IN IF "confirmNetwork" \notin DOMAIN input \/ ~input.confirmNetwork
     THEN Result(report(offline, FALSE), <<"config", "token">>)
     ELSE IF IsRefused(settings) THEN Result(report(FALSE, FALSE), <<"config", "token">>)
     ELSE Result(report(offline /\ world.access, TRUE), <<"config", "token", "network">>)

-----------------------------------------------------------------------------
(* project_changes and project_timeline: inputs.                               *)

SafeRequiredId(text) == text \notin {"", "control", "long"}
SafeProjectId(text) == SafeRequiredId(text) /\ text \notin {".", "..", "path"}

ChangesInputInvalid(input) ==
  LET pair == {"previousSnapshotId", "currentSnapshotId"} \intersect DOMAIN input IN
  \/ "projectId" \notin DOMAIN input \/ ~SafeProjectId(input.projectId)
  \/ Cardinality(pair) = 1 \/ \E o \in pair : ~SafeRequiredId(input[o])
  \/ pair # {} /\ Cardinality({input[o] : o \in pair}) = 1
  \/ "staleAfterSeconds" \in DOMAIN input /\ input.staleAfterSeconds \notin 0..MaxInteger
  \/ "limit" \in DOMAIN input /\ input.limit \notin 1..MaxShown

TimelineInputInvalid(input) ==
  \/ "projectId" \notin DOMAIN input \/ ~SafeProjectId(input.projectId)
  \/ "limit" \in DOMAIN input /\ input.limit \notin 1..MaxShown
  \/ "beforeSequence" \in DOMAIN input /\ input.beforeSequence \notin 0..MaxInteger

Given(input, option, default) == IF option \in DOMAIN input THEN input[option] ELSE default

\* What only the command line can put right is told before anything is read.
VersionError(store) ==
  IF ~Inspect(store).exists \/ Inspect(store).version \in {"supported", "noPriorMemory"} THEN "none"
  ELSE Inspect(store).version

\* The arguments of compareProject, as the command passes them.
CompareGiven(input) ==
  [projectId |-> input.projectId, staleAfter |-> Given(input, "staleAfterSeconds", MaxInteger)]
  @@ (IF "currentSnapshotId" \in DOMAIN input THEN [previous |-> input.previousSnapshotId, current |-> input.currentSnapshotId]
      ELSE [o \in {} |-> 0])

-----------------------------------------------------------------------------
(* project_changes: projection. A change has a category and a kind, an id, the *)
(* fields of its item before and after, and its evidence.                       *)

Scalars == {"title", "status", "severity", "dueDate"}

SafeOptionalDisplay(value) ==
  Only(value, {f \in DOMAIN value \intersect Scalars : SafeRequiredId(value[f]) /\ value[f] # "path"})

Projects(change) == change.category \in Categories /\ change.itemKind \in ItemKinds /\ SafeRequiredId(change.itemId)

\* One title for both sides, the later one's if it has any to show.
ProjectStateChange(change) ==
  LET before == SafeOptionalDisplay(change.previous)
      after == SafeOptionalDisplay(change.current)
  IN [category |-> change.category, itemKind |-> change.itemKind, itemId |-> change.itemId, evidenceCount |-> change.evidence,
      title |-> Only(after @@ before, {"title"}), previous |-> Only(before, Scalars \ {"title"}),
      current |-> Only(after, Scalars \ {"title"})]

CountByCategory(changes) == [c \in Categories |-> Cardinality({i \in DOMAIN changes : changes[i].category = c})]

ChangesResult(status, changes, limit) ==
  LET safe == SelectSeq(changes, Projects)
      n == IF Len(safe) < limit THEN Len(safe) ELSE limit
  IN [status |-> status, total |-> Len(changes), truncated |-> Len(changes) > n, counts |-> CountByCategory(changes),
      changes |-> [i \in 1..n |-> ProjectStateChange(safe[i])]]

\* A marker anywhere in what would be shown.
LeaksChange(c) == "marker" \in {c.itemId} \union Range(c.title) \union Range(c.previous) \union Range(c.current)

HandleProjectChanges(input, store, memory, changes) ==
  LET compared == Compare(CompareGiven(input), store, memory)
      limit == Given(input, "limit", DefaultShown)
      result == ChangesResult(compared.says.status, IF compared.says.status = "compared" THEN changes ELSE <<>>, limit)
  IN IF ChangesInputInvalid(input) THEN Error("invalid input", <<>>)
     ELSE IF VersionError(store) # "none" THEN Error(VersionError(store), <<"store">>)
     ELSE IF ~compared.ok THEN Error("compare failed", <<"store">>)
     ELSE IF \E c \in Range(result.changes) : LeaksChange(c) THEN Error("output invalid", <<"store">>)
     ELSE Result(result, <<"store">>)

-----------------------------------------------------------------------------
(* project_timeline: projection of the kernel's page. Whole captures, and      *)
(* where an event is left out, a cursor below what is shown.                    *)

\* For a mutant: a page cut where the limit is reached, within a capture or not.
WholeCapturesCut(events, limit) == SubSeq(events, 1, IF Len(events) < limit THEN Len(events) ELSE limit)

\* A page has its captures one after the other, the newest first.
WholeCaptures(events, limit) ==
  LET captures == {e.capture : e \in Range(events)}
      upTo(c) == SelectSeq(events, LAMBDA e : e.capture >= c)
      fits(c) == Len(upTo(c)) <= limit \/ \A d \in captures : d <= c
      lowest == CHOOSE c \in captures : fits(c) /\ \A d \in captures : fits(d) => c <= d
  IN IF events = <<>> THEN <<>> ELSE upTo(lowest)

NoCursor == -1
LowestCaptureSequence(events) ==
  IF events = <<>> THEN NoCursor ELSE CHOOSE c \in {e.capture : e \in Range(events)} : \A e \in Range(events) : c <= e.capture

\* unsafe: the subjects whose id cannot be shown.
ProjectTimelineResult(page, limit, unsafe) ==
  LET safe == SelectSeq(page.events, LAMBDA e : e.change.id \notin unsafe)
      shown == WholeCaptures(safe, limit)
      bounded == Len(shown) < Len(page.events)
      hasMore == page.hasMore \/ bounded
  IN [events |-> shown, hasMore |-> hasMore,
      next |-> IF ~hasMore THEN NoCursor ELSE IF bounded THEN LowestCaptureSequence(shown) ELSE page.next]

\* marked: the subjects whose id has a marker in it.
HandleProjectTimeline(input, store, memory, captures, unsafe, marked) ==
  LET limit == Given(input, "limit", DefaultEvents)
      read == Read([projectId |-> input.projectId], store, memory)
      page == Derive(IF read.ok /\ read.says.pairs = 0 THEN <<>> ELSE captures, [project |-> "p", limit |-> limit, before |-> Given(input, "beforeSequence", -1),
                                category |-> Given(input, "category", -1), kind |-> Given(input, "kind", -1)])
      result == ProjectTimelineResult(page, limit, unsafe)
  IN IF TimelineInputInvalid(input) THEN Error("invalid input", <<>>)
     ELSE IF VersionError(store) # "none" THEN Error(VersionError(store), <<"store">>)
     ELSE IF ~read.ok \/ "error" \in DOMAIN page THEN Error("derive failed", <<"store">>)
     ELSE IF \E e \in Range(result.events) : e.change.id \in marked THEN Error("output invalid", <<"store">>)
     ELSE Result(result, <<"store">>)

-----------------------------------------------------------------------------
\* A call: of a tool that is registered, with the keys its schema knows; "at" is
\* what the tool finds.
Call(tool, loaded, input, at) ==
  LET known == Only(input, InputKeys(tool)) IN
  IF tool \notin Tools(loaded) THEN Error("unknown tool", <<>>)
  ELSE CASE tool \in DOMAIN ProjectTools -> HandleProjectTool(tool, known, at.world, at.output)
         [] tool \in DOMAIN GitHubTools -> HandleGitHubTool(tool, known, at.world, at.items)
         [] tool = "provider_status" -> ExecuteMcpProviderStatus(at.world)
         [] tool = "github_provider_diagnostics" -> ExecuteMcpGitHubProviderDiagnostics(known, at.world)
         [] tool = "project_changes" -> HandleProjectChanges(known, at.store, at.memory, at.changes)
         [] tool = "project_timeline" -> HandleProjectTimeline(known, at.store, at.memory, <<>>, {}, {})
=============================================================================
