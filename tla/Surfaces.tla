------------------------------ MODULE Surfaces ------------------------------
(***************************************************************************)
(* The tools of the MCP server beside the commands, added to Commands:     *)
(* the same question asked both ways, and what a tool shows of an answer.  *)
(***************************************************************************)
EXTENDS Commands

CONSTANTS DefaultShown, MaxAttached, ToolCalls,   \* McpTools
          OldChanges                              \* what the two captures of a store differ in

Mcp == INSTANCE McpTools WITH
  MaxLimit <- MaxListLimit,
  Settings <- Source!ResolveGitHubProviderSettings,
  Selection <- Source!ResolveGitHubSourceSelection,
  Request <- Source!CreateGitHubProviderRequest,
  Validated <- Source!ValidateProviderConfig,
  Defaults <- Source!DefaultGitHub,
  Inspect <- Memory!Inspect,
  Compare <- Memory!RunChanges,
  Read <- Memory!RunTimeline,
  Derive <- Timeline!DeriveProjectTimeline,
  MaxShown <- MaxLimit,
  DefaultEvents <- DefaultLimit

\* A call says what it asks of which tool.
ASSUME ToolCallsAssumption ==
  \A call \in ToolCalls :
    "of" \in DOMAIN call /\ call.of \in {"changes tool", "timeline tool", "github tool", "document tool"}

CallTool ==
  /\ case = Start
  /\ \E call \in ToolCalls : case' = call

-----------------------------------------------------------------------------
(* The same question. *)

Asks(p) == Cli!ParseCliArgs(p.line)

\* A GitHub command and the tool of the same operation, called with the same
\* options, ask the same of the network and succeed alike.
ToolsAskAsCommandsDo(it) ==
  it.of = "process" /\ it.at = "done" /\ ~Cli!IsHelpRequest(it.line) /\ ~Cli!IsRefused(Asks(it)) /\ ~it.aborted =>
    LET command == Asks(it)
        input == Mcp!Only(command.given, Mcp!GitHubKeys)
                 @@ (IF command.args = <<>> THEN [o \in {} |-> " "] ELSE [repository |-> command.args[1]])
        tool == CHOOSE t \in DOMAIN Mcp!GitHubTools : Mcp!GitHubTools[t] = command.sub
        asked == Mcp!ExecuteMcpGitHubTool(tool, input, it.world)
    IN command.command = "github" /\ "providerConfig" \notin DOMAIN command.given =>
         asked.sent = it.sent /\ asked.did = it.did /\ asked.ok = it.ok

\* The diagnostics of both reach the network for the same question, unless the
\* configuration is not valid: the command stops there and the tool goes on with
\* the defaults, and says that all is not well.
DiagnosticsAgree(it) ==
  it.of = "process" /\ it.at = "done" /\ ~Cli!IsHelpRequest(it.line) /\ ~Cli!IsRefused(Asks(it)) =>
    LET command == Asks(it)
        confirmed == "confirmNetwork" \in DOMAIN command.given
        input == [confirmNetwork |-> confirmed]
                 @@ (IF Len(command.args) < 2 THEN [o \in {} |-> " "] ELSE [repository |-> command.args[2]])
        told == Mcp!Call("github_provider_diagnostics", {}, input @@ [providerConfig |-> "other"], [world |-> it.world])
        valid == Mcp!ResolveConfig(it.world).valid
    IN command.command = "providers" /\ command.sub = "doctor" /\ command.args # <<>>
         /\ "providerConfig" \notin DOMAIN command.given =>
         /\ told.shown.networkAttempted = ("network" \in Range(told.did))
         /\ told.shown.networkAttempted => confirmed
         /\ valid => told.shown.networkAttempted = ("network" \in Range(it.did))
         /\ told.shown.ok => valid /\ it.exit = 0

\* A memory tool gives a result exactly when the command of that name does, with
\* the same status; a store that has to be migrated gives none, whatever else is asked,
\* nor does a server that was started without the memory.
MemoryToolsAgree(it) ==
  it.of = "memory" /\ it.request.sub \in {"changes", "timeline"} /\ "projectId" \in DOMAIN it.request.given =>
    LET given == it.request.given
        done == Run(it.request, it.store, it.world)
        tool == IF it.request.sub = "changes" THEN "project_changes" ELSE "project_timeline"
        at == [store |-> it.store, memory |-> it.world, changes |-> OldChanges]
        input == [projectId |-> given.projectId]
                 @@ (IF "previous" \in DOMAIN given THEN [previousSnapshotId |-> given.previous, currentSnapshotId |-> given.current]
                     ELSE [o \in {} |-> " "])
        told == Mcp!Call(tool, {tool}, input @@ [migrateStore |-> TRUE, dataDir |-> "other"], at)
    IN /\ Mcp!IsError(told) = ~done.ok
       /\ Mcp!IsError(Mcp!Call(tool, Mcp!MemoryTools \ {tool}, input, at))
       /\ done.ok /\ it.request.sub = "changes" =>
            /\ told.shown.status = done.says.status
            /\ told.shown.status # "compared" <=> told.shown.changes = <<>> /\ told.shown.total = 0
       /\ it.store.manifest = "older" /\ it.store.dir => Mcp!IsError(told)

-----------------------------------------------------------------------------
(* What is shown. *)

\* Two captures differ in these; each that can be named is shown, in order, as
\* far as the limit goes, the counts are of all of them, and the result says so
\* where something is missing.  A text that is shown is one the change has.
ChangesAreTrue(it) ==
  it.of = "changes tool" =>
    LET result == Mcp!ChangesResult("compared", it.changes, it.limit)
        texts(v) == {v[f] : f \in DOMAIN v}
        same(c, d) == c.itemId = d.itemId /\ c.category = d.category
    IN /\ FoldSet(LAMBDA c, n : n + result.counts[c], 0, Mcp!Categories)
            = Cardinality({i \in DOMAIN it.changes : it.changes[i].category \in Mcp!Categories})
       /\ Len(result.changes) <= it.limit /\ Len(result.changes) <= result.total
       /\ \A i \in DOMAIN it.changes :
            (\A c \in Range(result.changes) : ~same(c, it.changes[i])) => result.truncated
       /\ \A c \in Range(result.changes) : \E d \in Range(it.changes) :
            /\ same(c, d)
            /\ texts(c.title) \subseteq texts(d.previous) \union texts(d.current)
            /\ texts(c.previous) \subseteq texts(d.previous) /\ texts(c.current) \subseteq texts(d.current)
            /\ {"path", "control", "long"} \intersect (texts(c.title) \union texts(c.previous) \union texts(c.current)) = {}

\* The pages of a timeline that a client of the tool gets who follows its cursor.
PublicPage(call, before) ==
  Mcp!ProjectTimelineResult(Timeline!DeriveProjectTimeline(call.captures, [call.query EXCEPT !.before = before]),
                            Timeline!Limit(call.query), call.unsafe)
PublicPages(call) ==
  LET turn(pages, i) ==
        IF pages = <<>> THEN <<PublicPage(call, Timeline!Unset)>>
        ELSE IF Last(pages).next = Mcp!NoCursor THEN pages ELSE Append(pages, PublicPage(call, Last(pages).next))
  IN FoldLeft(turn, <<>>, [i \in 1..(Len(call.captures) + 2) |-> i])

\* They show every event that can be named once, newest first. Only a page that
\* has nothing but events that cannot be named ends them early, and says so.
PublicPagesAreComplete(it) ==
  it.of = "timeline tool" =>
    LET pages == PublicPages(it)
        all == FlattenSeq([i \in DOMAIN pages |-> pages[i].events])
        everything == [it.query EXCEPT !.limit = MaxLimit]
        named == UNION {Range(Timeline!EventsOf(c, everything)) : c \in Range(it.captures)}
        expected == {e \in named : e.change.id \notin it.unsafe}
    IN /\ Last(pages).next = Mcp!NoCursor
       /\ Range(all) \subseteq expected /\ Len(all) = Cardinality(Range(all))
       /\ \A i, j \in DOMAIN all : i < j => all[i].capture >= all[j].capture
       /\ ~Last(pages).hasMore => Range(all) = expected
       /\ Last(pages).hasMore => Last(pages).events = <<>> /\ it.unsafe # {}

\* Of the items of an answer each is counted once; a source shows the notes of
\* its own number and as many as it may, and no two kinds are confused.
SourcesAreShown(it) ==
  it.of = "github tool" =>
    LET summary == Mcp!SourceSummary(it.items)
        shown == Mcp!PublicSources(it.items, it.selection)
        notes(k) == summary[k]
        of(type) == {i \in DOMAIN it.items : it.items[i].type = type}
    IN /\ summary.total + MapThenSumSet(notes, Mcp!NoteKinds) = Len(it.items)
       /\ Len(shown) = (IF summary.issue + summary.pullRequest < Mcp!SourceCap(it.selection)
                        THEN summary.issue + summary.pullRequest ELSE Mcp!SourceCap(it.selection))
       /\ \A s \in Range(shown) : \A k \in Mcp!NoteKinds :
            LET under == {i \in of(k) : it.items[i].parent = s.number}
                number == IF k \in DOMAIN s.notes THEN Len(s.notes[k]) ELSE 0
            IN /\ number = (IF Cardinality(under) < MaxAttached[k] THEN Cardinality(under) ELSE MaxAttached[k])
               /\ k \in DOMAIN s.notes => \A n \in Range(s.notes[k]) : n \in {it.items[i] : i \in under}

\* An output is shown with all its entries and every field they need, or not at all.
OutputsAreWhole(it) ==
  it.of = "document tool" =>
    LET world == it.world
        told == Mcp!Call(it.tool, {}, [root |-> "root"], [world |-> world, output |-> it.output])
        operation == Mcp!ProjectTools[it.tool]
        odd(i) == it.output.entries[i].odd
    IN /\ ~Mcp!IsError(told) =>
            /\ Len(told.shown) = Len(it.output.entries)
            /\ \A i \in DOMAIN told.shown :
                 told.shown[i].fields = Mcp!EntryFields[operation] \union
                   ((it.output.entries[i].fields \ odd(i)) \intersect Mcp!OptionalFields[operation])
            /\ world.runtime = "ok" /\ world.documents = "loaded"
       /\ told.did = <<"documents">>

HonestTools(it) ==
  /\ ToolsAskAsCommandsDo(it) /\ DiagnosticsAgree(it) /\ MemoryToolsAgree(it)
  /\ ChangesAreTrue(it) /\ PublicPagesAreComplete(it) /\ SourcesAreShown(it) /\ OutputsAreWhole(it)

\* No step answers a call of a tool otherwise.
ToolsAreHonest == [][HonestTools(case')]_case

-----------------------------------------------------------------------------
SurfacesNext == CommandsNext \/ CallTool
SurfacesSpec == Init /\ [][SurfacesNext]_case
=============================================================================
