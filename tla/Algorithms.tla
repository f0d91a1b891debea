----------------------------- MODULE Algorithms -----------------------------
(***************************************************************************)
(* The pure algorithms of the system, each put against a definition of     *)
(* what it is for.  A behaviour chooses one algorithm and one input of it; *)
(* the invariants say what must be true of the answer.                     *)
(***************************************************************************)
EXTENDS Integers, Sequences, FiniteSets, SequencesExt, FiniteSetsExt, Functions

CONSTANTS
  DayLength, MaxChanges, Policies, Items, CaptureTimes,   \* KernelDiff
  EvidenceOf(_),               \* the evidence a capture at that time may hold: records, and those it cites itself
  DefaultLimit, MaxLimit, MaxTimelineCaptures, Chronologies, Queries,   \* KernelTimeline
  MaxItems, MaxEntries, MaxRefs, StateClasses, Captures, EvidenceClasses,   \* KernelState
  Graphs, UpdatePlans, Manifests, MaxTrail,               \* KernelGuards
  PlanRequests, PlanContexts, Registries                  \* PlanExecution

VARIABLE case

Diff == INSTANCE KernelDiff
Timeline == INSTANCE KernelTimeline
State == INSTANCE KernelState
Plan == INSTANCE PlanExecution

Start == [of |-> "start"]
Init == case = Start

-----------------------------------------------------------------------------
(* KernelDiff: two captures of one project. *)

Snapshot(items, at, evidence) ==
  [project |-> 1, items |-> items, capturedAt |-> at, evidence |-> evidence.records, refs |-> evidence.refs]
ItemMaps == UNION {[keys -> Items] : keys \in SUBSET {1}}

CapturePrevious ==
  /\ case = Start
  /\ \E items \in ItemMaps, at \in CaptureTimes : \E evidence \in EvidenceOf(at) :
       case' = [of |-> "captured", previous |-> Snapshot(items, at, evidence)]

CaptureCurrent ==
  /\ case.of = "captured"
  /\ \E items \in ItemMaps, at \in CaptureTimes, policy \in Policies : \E evidence \in EvidenceOf(at) :
       /\ at >= case.previous.capturedAt
       /\ case' = [of |-> "diff", previous |-> case.previous, current |-> Snapshot(items, at, evidence),
                   policy |-> policy]

Compare(it, a, b) == Diff!DiffProjectSnapshots(a, b, it.policy)
Named(changes, category) == {changes[i].key : i \in {i \in DOMAIN changes : changes[i].category = category}}

\* The state a reader arrives at who only knows the earlier one and the changes.
Replayed(previous, current, changes) ==
  LET told == {changes[i].key : i \in DOMAIN changes}
      keys == (DOMAIN previous.items \ Named(changes, "removed")) \union Named(changes, "added")
  IN [k \in keys |-> IF k \in told THEN current.items[k] ELSE previous.items[k]]

\* Categories that are each other's when the two snapshots change places.
Opposite == {<<"added", "removed">>, <<"becameOverdue", "noLongerOverdue">>, <<"fresh", "stale">>,
             <<"severityIncreased", "severityDecreased">>, <<"evidenceChanged", "evidenceChanged">>}

OneRecordPerSource(s) ==
  \A i, j \in DOMAIN s.evidence : s.evidence[i].source = s.evidence[j].source => i = j

\* How old the evidence that a snapshot's items cite was when it was captured.
Age(it, s) ==
  Diff!DeriveFreshness([reference |-> s.capturedAt, observedAt |-> s.capturedAt, skew |-> it.policy.skew,
                        updated |-> {}, changed |-> UNION {Diff!Stamps(s, k) : k \in DOMAIN s.items}, gaps |-> {}])

\* The dates of the evidence that an item cites, when both captures have the item.
Matched(it) == DOMAIN it.previous.items \intersect DOMAIN it.current.items
Dates(s, k) ==
  LET date(r) == IF r.updatedAt = Diff!Unknown THEN r.observedAt ELSE r.updatedAt
  IN {date(r) : r \in {r \in Range(s.evidence) : r.id \in s.items[k].refs}}
DatedAhead(it) ==
  \E s \in {it.previous, it.current} : \E k \in Matched(it) : \E at \in Dates(s, k) : at > s.capturedAt + it.policy.skew

\* The items whose evidence is older than the policy has it in `s` and not in `t`.
Aged(it, s, t) ==
  LET old(x, k) == \E at \in Dates(x, k) : x.capturedAt > at + it.policy.staleAfter
  IN {k \in Matched(it) : Dates(s, k) # {} /\ Dates(t, k) # {} /\ old(s, k) /\ ~old(t, k)}

\* A comparison is complete and says nothing twice: the later state can be told
\* from the earlier one and the changes, no change is reported between captures
\* that hold the same, the comparison taken backwards says the opposite, it calls
\* stale or fresh exactly what became so (evidence that is dated a little ahead is
\* new), it fails for what is dated further ahead than the clocks may differ, as
\* the freshness of one of the captures does, and the binding answers with it.
HonestChanges(it) ==
  it.of = "diff" =>
    LET there == Compare(it, it.previous, it.current)
        back == Compare(it, it.current, it.previous)
        told(json) == Plan!CallBinding("built", json, there)
    IN /\ (told(TRUE).ok <=> ~Diff!Fails(there)) /\ ~told(FALSE).ok
       /\ DatedAhead(it) => Diff!Fails(there)
       /\ Diff!Fails(there) /\ there.error = "futureTimestamp" =>
            DatedAhead(it) /\ (Diff!Fails(Age(it, it.previous)) \/ Diff!Fails(Age(it, it.current)))
       /\ IF Diff!Fails(there) THEN Diff!Fails(back)
          ELSE /\ Replayed(it.previous, it.current, told(TRUE).value.changes) = it.current.items
               /\ (/\ it.previous = it.current
                   /\ OneRecordPerSource(it.current)) => there.changes = <<>>
               /\ (OneRecordPerSource(it.previous) /\ OneRecordPerSource(it.current)) =>
                    \A o \in Opposite : Named(there.changes, o[1]) = Named(back.changes, o[2])
               /\ Named(there.changes, "stale") = Aged(it, it.current, it.previous)
               /\ Named(there.changes, "fresh") = Aged(it, it.previous, it.current)

\* No step compares captures otherwise.
ChangesAreHonest == [][HonestChanges(case')]_case

-----------------------------------------------------------------------------
(* KernelTimeline: a chronology of captures and a query. *)

ReadTimeline ==
  /\ case = Start
  /\ \E captures \in Chronologies, query \in Queries :
       case' = [of |-> "timeline", captures |-> captures, query |-> query]

Page(it, query) == Timeline!DeriveProjectTimeline(it.captures, query)
Unpaged(it) == [it.query EXCEPT !.before = Timeline!Unset]

\* The pages a reader gets who asks for the next one until there is none.
Pages(it) ==
  LET more(pages) == pages # <<>> => Last(pages).hasMore
      next(pages) == IF pages = <<>> THEN Unpaged(it) ELSE [Unpaged(it) EXCEPT !.before = Last(pages).next]
      turn(pages, i) == IF more(pages) THEN Append(pages, Page(it, next(pages))) ELSE pages
  IN FoldLeft(turn, <<>>, [i \in 1..(Len(it.captures) + 1) |-> i])

\* Every change the filter lets through, named by its capture and its place in it.
Shown(it, query) ==
  UNION {LET all == Timeline!OrderedChanges(c.changes)
         IN {[capture |-> c.sequence, position |-> i - 1, change |-> all[i]] :
               i \in {i \in DOMAIN all : Timeline!Passes(all[i], query)}} : c \in Range(it.captures)}

\* Pages taken one after the other show every change the filter lets through
\* exactly once and newest first, each page within its limit unless it is one
\* capture, and an event is named alike whatever was asked for.
CompletePages(it) ==
  it.of = "timeline" =>
    IF Timeline!Fails(Page(it, Unpaged(it))) THEN Timeline!Fails(Page(it, it.query))
    ELSE LET pages == Pages(it)
             all == FlattenSeq([i \in DOMAIN pages |-> pages[i].events])
         IN /\ ~Last(pages).hasMore
            /\ Range(all) = Shown(it, it.query) /\ Len(all) = Cardinality(Range(all))
            /\ \A i, j \in DOMAIN all : i < j => all[i].capture >= all[j].capture
            /\ \A p \in Range(pages) :
                 \/ Len(p.events) <= Timeline!Limit(it.query)
                 \/ Cardinality({e.capture : e \in Range(p.events)}) = 1

\* No step reads a timeline otherwise.
PagesAreComplete == [][CompletePages(case')]_case

-----------------------------------------------------------------------------
(* KernelState: observations of a project, in classes that mean the same. *)

ObserveState ==
  /\ case = Start
  /\ \E class \in DOMAIN StateClasses : \E state \in StateClasses[class] :
       case' = [of |-> "observed", class |-> class, state |-> state]

ObserveAgain ==
  /\ case.of = "observed"
  /\ \E class \in DOMAIN StateClasses : \E state \in StateClasses[class], capture \in Captures :
       case' = [of |-> "identity", class |-> case.class, state |-> case.state,
                other |-> class, again |-> state, capture |-> capture]

SnapshotOf(it, state, capturedAt) ==
  [project |-> state.project, state |-> state, capturedAt |-> capturedAt,
   boundaries |-> it.capture.boundaries, refs |-> state.refs]

\* A record of evidence, as the parts it is made of.
EvidenceId(parts) ==
  LET project == State!ResolveProjectIdentity(parts.seed) IN
  IF State!Fails(project) THEN project
  ELSE State!DeriveEvidenceId([parts EXCEPT !.content = IF @ = <<>> THEN @ ELSE State!FingerprintMinimizedContent(@)]
                              @@ [project |-> project.id])

KeepEvidence ==
  /\ case = Start
  /\ \E class, other \in DOMAIN EvidenceClasses :
       \E one \in EvidenceClasses[class], two \in EvidenceClasses[other] :
         case' = [of |-> "evidence", class |-> class, one |-> one, other |-> other, two |-> two]

\* One piece of evidence keeps its name however its source is spelt and whenever
\* it is observed, as long as its content is known; nothing else has that name.
EvidenceIsNamed(it) ==
  it.of = "evidence" =>
    LET one == EvidenceId(it.one)
        two == EvidenceId(it.two)
    IN /\ State!Fails(one) <=> it.class = 0
       /\ ~State!Fails(one) /\ ~State!Fails(two) => (one.id = two.id <=> it.class = it.other)

\* Two observations have one fingerprint exactly if they mean the same, however
\* they are spelt, ordered and dated, and need the same evidence; two snapshots
\* are one exactly if state and time of capture are.
NamedByContent(it) == EvidenceIsNamed(it) /\
  (it.of = "identity" =>
    LET one == State!FinalizeProjectState(it.state)
        two == State!FinalizeProjectState(it.again)
        first == State!FinalizeProjectSnapshot(SnapshotOf(it, it.state, 1))
        second == State!FinalizeProjectSnapshot(SnapshotOf(it, it.again, it.capture.at))
    IN IF it.class = 0 THEN State!Fails(one)
       ELSE /\ ~State!Fails(one)
            /\ it.other # 0 => (one.fingerprint = two.fingerprint <=> it.class = it.other)
            /\ ~(State!Fails(first) \/ State!Fails(second)) =>
                 (first.id = second.id <=> it.class = it.other /\ it.capture.at = 1)
            /\ it.class = it.other =>
                 \A available \in SUBSET (Range(it.state.refs) \union Range(it.again.refs) \union {<<"f">>}) :
                   State!AssertEvidencePresent(SnapshotOf(it, it.state, 1), available)
                     <=> State!AssertEvidencePresent(SnapshotOf(it, it.again, 1), available))

\* No step names anything otherwise.
IdentityIsContent == [][NamedByContent(case')]_case

-----------------------------------------------------------------------------
(* KernelGuards and PlanExecution. *)

CheckGraph == case = Start /\ \E graph \in Graphs : case' = [of |-> "graph", graph |-> graph]
CheckPlan == case = Start /\ \E plan \in UpdatePlans : case' = [of |-> "updatePlan", plan |-> plan]
CheckRegistry == case = Start /\ \E m \in Manifests : case' = [of |-> "registry", manifest |-> m]

\* A release, as the states it went through.
AdvanceRelease ==
  \/ case = Start /\ case' = [of |-> "release", trail |-> <<"idea">>]
  \/ /\ case.of = "release" /\ Len(case.trail) < MaxTrail
     /\ \E json \in BOOLEAN, to \in DOMAIN Plan!AllowedNextStates :
          /\ Plan!DecideTransitionWasm(json, Last(case.trail), to)
          /\ case' = [case EXCEPT !.trail = Append(@, to)]

HandleRequest ==
  /\ case = Start
  /\ \E request \in PlanRequests, context \in PlanContexts, registry \in Registries, works \in BOOLEAN :
       case' = [of |-> "request", request |-> request, context |-> context, registry |-> registry,
                works |-> works]

\* Some nodes each of which waits for another of them.
Deadlocked(graph) ==
  \E nodes \in (SUBSET Plan!TaskIds(graph)) \ {{}} :
    \A n \in nodes : Range(Plan!Edges(graph, n)) \intersect nodes # {}

\* A release is published at most once, after a validation that no change of its
\* source followed or will follow.
ReleasesAreSound(it) ==
  it.of = "release" =>
    LET at(state) == {i \in DOMAIN it.trail : it.trail[i] = state}
    IN /\ Cardinality(at("published")) <= 1
       /\ \A i \in at("published") : \E j \in at("validation") : j < i /\ \A k \in at("source") : k < j

\* The kernel lets through a graph exactly if it can be executed to its end, an
\* update exactly if it can be undone, a registry exactly if each component is
\* there once, a publication exactly once and only of what was validated since its
\* source last changed; and what cannot be read is let through by none of them.
GuardsAgree(it) ==
  /\ it.of = "graph" =>
       LET findings == Plan!TaskGraphFindings(it.graph)
           ids == [i \in DOMAIN it.graph |-> it.graph[i].id]
       IN /\ Plan!FindCycles(it.graph) # {} <=> Deadlocked(it.graph)
          /\ findings = {} <=>
               /\ IsInjective(ids) /\ 0 \notin Range(ids) /\ ~Deadlocked(it.graph)
               /\ \A n \in Range(it.graph) : Range(n.dependsOn) \subseteq Range(ids)
          /\ \A json, wellFormed \in BOOLEAN :
               Plan!ValidateJsonWasm("taskGraph", TRUE, json, [wellFormed |-> wellFormed, body |-> it.graph]) = {}
                 <=> json /\ wellFormed /\ findings = {}
  /\ it.of = "updatePlan" =>
       \A json \in BOOLEAN :
         Plan!CheckUpdatePlanWasm(json, it.plan).status = "allowed" <=>
           /\ json /\ it.plan.from # it.plan.to /\ it.plan.steps > 0 /\ it.plan.paths > 0
           /\ "" \notin {it.plan.id, it.plan.from, it.plan.to, it.plan.rollback}
  /\ it.of = "registry" =>
       LET ids == [i \in DOMAIN it.manifest.components |-> it.manifest.components[i].id]
       IN Plan!ValidateVersionRegistry(it.manifest) = {} =>
            IsInjective(ids) /\ Range(ids) = Plan!RequiredComponents
  /\ ReleasesAreSound(it)

\* A plan that is answered has read each provider it was asked to read, once, in
\* the order asked, before its skill ran; a plan that is not has read them up to
\* the one that failed, and ran no skill on less than all of it.
PlansRunInOrder(it) ==
  it.of = "request" =>
    LET answer == Plan!Handle(it.request, it.context, it.registry, it.works)
        asked == it.context.requests
        planned == Plan!PlanProject(it.request, it.context, it.registry)
    IN /\ \A i \in DOMAIN answer.reads : answer.reads[i] = asked[i].provider
       /\ \A i \in 1..(Len(answer.reads) - 1) : answer.reads[i] \in it.registry.answers
       /\ answer.skill # "none" => /\ Len(answer.reads) = Len(asked)
                                   /\ Range(answer.reads) \subseteq it.registry.answers
       /\ answer.code = "ok" /\ it.request.kind = "plan" => answer.skill # "none"
       /\ answer.code = "handlerFailed" => Last(answer.reads) \in it.registry.throws
       /\ "graph" \in DOMAIN planned => Plan!TaskGraphFindings(planned.graph) = {}

\* What is let through can be carried out, and is, in its order.
SoundDecisions(it) == GuardsAgree(it) /\ PlansRunInOrder(it)

\* No step decides otherwise.
DecisionsAreSound == [][SoundDecisions(case')]_case

-----------------------------------------------------------------------------
Next ==
  \/ CapturePrevious \/ CaptureCurrent \/ ReadTimeline \/ ObserveState \/ ObserveAgain \/ KeepEvidence
  \/ CheckGraph \/ CheckPlan \/ CheckRegistry \/ AdvanceRelease \/ HandleRequest

Spec == Init /\ [][Next]_case

-----------------------------------------------------------------------------
(* What the program reads its sources with.                                *)

CONSTANTS
  MaxListLimit, DefaultListLimit, MaxTerms, MaxSegment, MaxNotes, DefaultNotes,   \* GitHubQueries
  Configs, SettingsOverrides, Options,
  MaxRedirects, LowRemaining, MaxBody, MaxNoteBody, MaxCombined,    \* GitHubProvider
  GitHubRequests,
  MaxObservations, MaxDepth, Worlds    \* Observation

Source == INSTANCE Observation WITH MaxLimit <- MaxListLimit, DefaultLimit <- DefaultListLimit

-----------------------------------------------------------------------------
(* GitHubQueries: from a configuration and options to a query. *)

Configure ==
  /\ case = Start
  /\ \E config \in Configs, overrides \in SettingsOverrides :
       case' = [of |-> "configured", config |-> config, overrides |-> overrides]

SelectSource ==
  /\ case.of = "configured"
  /\ \E options \in Options :
       case' = [of |-> "selection", config |-> case.config, overrides |-> case.overrides, options |-> options]

\* What the provider will understand of a request.
Understood(request) ==
  CASE request.action = "list" -> Source!ParseGitHubListQuery(request.query)
    [] request.action = "search" -> Source!ParseGitHubSearchQuery(request.query)
    [] request.action = "fetch" -> Source!ParseGitHubFetchQuery(request.query)

\* What was selected, said in the provider's terms.
Meant(slug, s) ==
  CASE s.mode \in Source!Listings -> [slug |-> slug, source |-> s.mode, state |-> s.state]
    [] s.mode = "repository" -> [slug |-> slug, source |-> s.mode, state |-> "open"]
    [] s.mode = "item" -> [slug |-> slug, number |-> s.number, notes |-> s.notes]
    [] s.mode = "search" -> [slug |-> slug, terms |-> Source!Trim(s.query), state |-> s.state, kind |-> s.kind]

\* A selection that is accepted reaches the provider as what was selected, whole
\* and within the provider's limit; only terms that would change the scope of a
\* search are still refused there, and then no server hears of them.
SelectionIsKept(it) ==
  it.of = "selection" =>
    LET github == Source!ValidateProviderConfig(it.config)
        settings == Source!ResolveGitHubProviderSettings(github, it.overrides)
        selection == Source!ResolveGitHubSourceSelection(settings, it.options)
        request == Source!CreateGitHubProviderRequest(settings.repository, selection)
    IN (~Source!IsRefused(github) /\ ~Source!IsRefused(settings) /\ ~Source!IsRefused(selection)) =>
         /\ DOMAIN github \intersect Source!SecretKeys = {}
         /\ request.limit \in 1..MaxListLimit
         /\ IF selection.mode = "search" /\ "is:" \in Range(selection.query)
            THEN Source!IsRefused(Understood(request))
            ELSE Understood(request) = Meant(settings.repository, selection)
         /\ \A option \in DOMAIN it.options \intersect DOMAIN selection :
              selection[option] = it.options[option]

-----------------------------------------------------------------------------
(* Observation: the sources of a capture and the network behind one of them. *)

ChooseRequest ==
  /\ case = Start
  /\ \E request \in GitHubRequests, required \in BOOLEAN, mode \in {"list", "other"} :
       case' = [of |-> "chosen",
                requests |-> <<[id |-> 1, source |-> "docs", scope |-> "all", required |-> TRUE,
                                request |-> [provider |-> "local", action |-> mode, query |-> "", limit |-> -1]],
                               [id |-> 2, source |-> "hub", scope |-> "some", required |-> required,
                                request |-> request]>>]

ObserveSources ==
  /\ case.of = "chosen"
  /\ \E world \in Worlds :
       case' = [of |-> "capture", requests |-> case.requests, refused |-> world.refused,
                world |-> [github |-> world.net, local |-> <<[id |-> "a", words |-> {}, body |-> 0]>>,
                           store |-> world.store, derived |-> world.derived]]

Elements(answer, limit) == IF answer.body = "page" THEN Source!Taken(answer.value, limit) ELSE <<answer.value>>

\* The pages a request asks for: for each endpoint how many elements at most.
PagesAsked(net, request) ==
  LET query == Understood(request)
      one(endpoint) == [e \in {endpoint} |-> 1]
  IN IF Source!IsRefused(query) THEN [e \in {} |-> 0]
     ELSE CASE request.action = "fetch" ->
                 LET issue == net[Last(Source!Contacted(net, Source!Url("issue")))]
                 IN one("issue") @@ query.notes
                    @@ (IF issue.does = "answer" /\ Source!IsPullRequest(issue) THEN one("pull") ELSE [e \in {} |-> 0])
            [] request.action = "list" /\ query.source \in {"overview", "repository"} ->
                 one("repository") @@ (IF query.source = "overview" /\ request.limit > 1
                                       THEN [e \in {"issues"} |-> request.limit - 1] ELSE [e \in {} |-> 0])
            [] OTHER -> [e \in {"search"} |-> request.limit]

\* The elements of those pages and the length of their texts, as the servers have them.
Available(net, request) ==
  LET pages == PagesAsked(net, request)
      there(e) == net[Last(Source!Contacted(net, Source!Url(e)))]
      elements(e) == IF e = "pull" THEN <<>> ELSE Elements(there(e), pages[e])
      number(e) == Len(elements(e))
      text(e) == FoldLeft(LAMBDA n, raw : n + raw.length, 0, elements(e))
  IN [count |-> MapThenSumSet(number, DOMAIN pages), text |-> MapThenSumSet(text, DOMAIN pages)]

\* A source is complete in a capture only if every element it was asked for is
\* there and whole; a source the capture cannot do without never goes missing,
\* no server but the provider's is asked, none of the endpoints twice, and only a
\* body that never ends makes a capture wait for ever.
ObservationIsHonest(it) ==
  it.of = "capture" =>
    LET world == it.world
        request == it.requests[2].request
        read == Source!ExecuteRequest(world, request)
        text(n, item) == n + item.body
        capture == Source!CaptureProject(world, [blank |-> FALSE, requests |-> it.requests, observedAt |-> 2], it.refused)
    IN /\ \A e \in Range(read.gets) : \A url \in Range(Source!Contacted(world.github, Source!Url(e))) : Source!SameOrigin(url)
       /\ IsInjective(read.gets) /\ Len(read.gets) <= 2 + Cardinality(Source!NoteKinds)
       /\ ~read.ok /\ read.code = "hangs" => \E url \in DOMAIN world.github :
             world.github[url].does = "answer" /\ world.github[url].body = "stalls"
       /\ capture.ok =>
            /\ \A i \in DOMAIN it.requests : capture.coverage[i].state = "skipped" => ~it.requests[i].required
            /\ capture.coverage[2].state = "skipped" <=> ~read.ok
            /\ capture.coverage[2].state = "complete" =>
                 /\ Len(read.items) = Available(world.github, request).count
                 /\ FoldLeft(text, 0, read.items) = Available(world.github, request).text
            /\ Source!AssertNoForbiddenFields(capture.commits[1].fields)
            /\ \A r \in Range(capture.commits[1].records) :
                 /\ Source!AssertNoForbiddenFields(r.fields)
                 /\ \A stored \in world.store.records :
                      stored.id = r.id /\ r.id \notin world.store.unreadable => r = stored

HonestSources(it) == SelectionIsKept(it) /\ ObservationIsHonest(it)

\* No step reads its sources otherwise.
SourcesAreHonest == [][HonestSources(case')]_case

-----------------------------------------------------------------------------
ProgramNext ==
  \/ Next
  \/ Configure \/ SelectSource \/ ChooseRequest \/ ObserveSources

ProgramSpec == Init /\ [][ProgramNext]_case
=============================================================================
