---------------------------- MODULE ProjectSkills ----------------------------
(***************************************************************************)
(* The skills (skills/src): status, handoff, and the project state that a  *)
(* capture derives (project-brain-state.ts).                               *)
(***************************************************************************)
EXTENDS ProjectSignals

CONSTANTS MaxSectionItems,   \* of a handoff's section
          MaxDrafts          \* of decisions, dependencies, milestones

-----------------------------------------------------------------------------
(* parseMarkdownProjectSections: the texts under each heading.  Those of the   *)
(* lists if there are any, or else the paragraphs.                             *)

Flush(section) ==
  IF section.buffer = <<>> THEN section ELSE [section EXCEPT !.paragraphs = Append(@, section.buffer), !.buffer = <<>>]
Change(acc, section) == [acc EXCEPT !.sections[Len(acc.sections)] = section]

ReadSectionLine(acc, line) ==
  LET opened == acc.sections # <<>>
      section == Last(acc.sections)
  IN CASE line.sort = "fence" ->
            LET after == [acc EXCEPT !.fence = IF @ = "" THEN line.mark ELSE IF @ = line.mark THEN "" ELSE @] IN
            IF opened THEN Change(after, Flush(section)) ELSE after
       [] line.sort # "fence" /\ acc.fence # "" -> acc
       [] acc.fence = "" /\ line.sort = "heading" ->
            LET next == [heading |-> line.mark, listed |-> <<>>, paragraphs |-> <<>>, buffer |-> <<>>] IN
            [IF opened THEN Change(acc, Flush(section)) ELSE acc EXCEPT !.sections = Append(@, next)]
       [] acc.fence = "" /\ line.sort \in {"bullet", "number"} ->
            IF ~opened THEN acc
            ELSE Change(acc, IF Said(line) = <<>> THEN Flush(section) ELSE [Flush(section) EXCEPT !.listed = Append(@, Said(line))])
       [] acc.fence = "" /\ line.sort = "blank" -> IF opened THEN Change(acc, Flush(section)) ELSE acc
       [] acc.fence = "" /\ line.sort = "plain" ->
            IF ~opened THEN acc
            ELSE IF section.buffer = <<>> /\ section.listed # <<>>
            THEN Change(acc, [section EXCEPT !.listed[Len(section.listed)] = @ \o Said(line)])
            ELSE Change(acc, [section EXCEPT !.buffer = @ \o Said(line)])

Sections(lines) ==
  LET read == FoldLeft(ReadSectionLine, [sections |-> <<>>, fence |-> ""], lines).sections
      texts(s) == IF Flush(s).listed # <<>> THEN Flush(s).listed ELSE Flush(s).paragraphs
  IN [i \in DOMAIN read |-> [heading |-> read[i].heading, texts |-> texts(read[i])]]

Under(item, headings) ==
  LET sections == SelectSeq(Sections(item.lines), LAMBDA s : s.heading \in headings) IN
  FlattenSeq([i \in DOMAIN sections |-> sections[i].texts])
Once(texts) == FoldLeft(LAMBDA list, t : IF t \in Range(list) THEN list ELSE Append(list, t), <<>>, texts)
CollectSectionItems(items, headings) == Once(Each(items, LAMBDA item : Under(item, headings)))

\* collectMarkdownUncheckedTasks looks at every line, in code or not.
UncheckedTasks(items) ==
  Each(items, LAMBDA item :
    LET lines == SelectSeq(item.lines, LAMBDA l : l.sort = "bullet" /\ l.mark = "unchecked" /\ Said(l) # <<>>) IN
    [n \in DOMAIN lines |-> [id |-> <<item.id, "task", n>>, title |-> Said(lines[n])]])

-----------------------------------------------------------------------------
(* createHandoff. *)

SummaryHeadings == {"summary", "objective"}
HandoffRiskHeadings == {"risks", "blockers", "constraints"}
HandoffDecisionHeadings == {"decisions"}

Documents(items) == SelectSeq(items, LAMBDA item : item.of \notin Notes)

\* A line of a note is under its author's name.
By(item, text) == IF item.author = "" THEN text ELSE <<item.author>> \o text

\* An id once seen is not listed again, whether its title was or not; nor is a title.
AddTask(acc, task) ==
  IF task.id \in acc.ids THEN acc
  ELSE [ids |-> acc.ids \union {task.id},
        titles |-> IF task.title \in Range(acc.titles) \/ Len(acc.titles) >= MaxSectionItems THEN acc.titles
                   ELSE Append(acc.titles, task.title)]

\* What was found in the notes of a kind, one note after the other.
Signed(items, kind, found) ==
  Each(Of(items, {kind}), LAMBDA item : [n \in DOMAIN found[item] |-> [found[item][n] EXCEPT !.title = By(item, @)]])
NotesSigned(items, found) ==
  Signed(items, "issueComment", found) \o Signed(items, "review", found) \o Signed(items, "reviewComment", found)

OpenTasks(in) ==
  LET operational(item) == HasOperationalField(item) /\ ~IsDone(item) /\ ~IsBlocked(item)
      named(item) == [id |-> Id(item), title |-> <<item.title>>]
      listed == [n \in DOMAIN in.tasks |-> named(in.tasks[n])]
                \o UncheckedTasks(Documents(in.items))
                \o Each(SelectSeq(Documents(in.items), operational), LAMBDA item : <<named(item)>>)
                \o NotesSigned(in.items, [n \in Range(Of(in.items, Notes)) |-> NoteTasks(n)])
  IN FoldLeft(AddTask, [ids |-> {}, titles |-> <<>>], listed).titles

Titles(candidates) == [n \in DOMAIN candidates |-> candidates[n].title]
DeclaredThenMarkdown(declared, items, headings, fromNotes) ==
  First(Once([n \in DOMAIN declared |-> <<declared[n].title>>] \o CollectSectionItems(Documents(items), headings) \o fromNotes),
        MaxSectionItems)

HandoffRisks(in) == DeclaredThenMarkdown(in.risks, in.items, HandoffRiskHeadings, Titles(NotesSigned(in.items, [n \in Range(Of(in.items, Notes)) |-> NoteRisks(n)])))

\* An approval or a dismissal is a decision, whatever became of the pull request.
StateDecision(item) ==
  IF item.of = "review" /\ item.review \in {"approved", "dismissed"} THEN <<<<"by", item.author, item.review>>>> ELSE <<>>
HandoffDecisions(in) ==
  LET said(item) == LET texts == CollectSectionItems(<<item>>, HandoffDecisionHeadings) IN
                    StateDecision(item) \o [n \in DOMAIN texts |-> By(item, texts[n])]
  IN DeclaredThenMarkdown(in.decisions, in.items, HandoffDecisionHeadings,
       Each(Of(in.items, {"issueComment"}), said) \o Each(Of(in.items, {"review"}), said)
       \o Each(Of(in.items, {"reviewComment"}), said))

CreateHandoff(in) ==
  LET summary == First(CollectSectionItems(Documents(in.items), SummaryHeadings), MaxSectionItems)
      documents == Documents(in.items)
  IN [title |-> IF documents # <<>> THEN documents[1].title ELSE "Project handoff",
      summary |-> summary, tasks |-> OpenTasks(in), risks |-> HandoffRisks(in), decisions |-> HandoffDecisions(in)]

-----------------------------------------------------------------------------
(* summarizeStatus. *)

SummarizeStatus(in) ==
  LET items == Documents(in.items)
      done == Len(SelectSeq(items, IsDone))
      blocked == Len(SelectSeq(items, LAMBDA i : ~IsDone(i) /\ IsBlocked(i)))
  IN [total |-> Len(items), done |-> done, blocked |-> blocked, open |-> Len(items) - done - blocked,
      highlights |-> First([n \in DOMAIN items |-> items[n].title], 3)]

-----------------------------------------------------------------------------
(* deriveProjectBrainState: drafts of six kinds, each with the evidence that   *)
(* backs it.  Evidence is kept by the id of its candidate, the first of an id. *)

DecisionHeadings == {"decisions", "decisionLog", "faDecisions", "faDecisionsJoined"}
DependencyHeadings == {"dependencies", "faDependencies", "faDependenciesJoined"}
MilestoneHeadings == {"milestones", "roadmap", "faMilestones"}
ObjectiveHeadings == {"objective", "goal"}

IsExplicitBlockerReason(reason) ==
  reason \in {<<"state", "blocked">>, <<"body", "blocker">>, <<"title", "blocker">>,
              <<"heading", "blockers">>, <<"heading", "faBlockers">>, <<"marker", "blocker">>, <<"marker", "faBlocker">>}

EvidenceKind(source) ==
  CASE source = "markdown" -> "markdown"
    [] source \in {"issue", "issueComment"} -> "githubIssue"
    [] source \in {"pullRequest", "review", "reviewComment"} -> "githubPullRequest"
    [] source = "repository" -> "githubRepository"
    [] source = "structured" -> "structured"
    [] source = "generic" -> "generic"

Ensure(evidence, candidate) ==
  IF \E e \in Range(evidence) : e.id = candidate.id THEN evidence ELSE Append(evidence, candidate)

\* What a fingerprint is of: whose it is and the title that was first given it.
SignalEvidence(c) == [id |-> c.sourceId, kind |-> EvidenceKind(c.source), identity |-> c.sourceId, content |-> c.title]
SignalDraft(c) == [id |-> c.id, title |-> c.title, refs |-> c.sourceId]

\* The items of a section are numbered from one, in each section of the document.
StructuredDrafts(items, headings, kind) ==
  LET numbered(item, texts) ==
        [n \in DOMAIN texts |-> [id |-> <<item.id, kind, n>>, title |-> texts[n], refs |-> <<item.id, kind, n>>,
                                 identity |-> Id(item)]]
      all == Each(items, LAMBDA item :
        LET sections == SelectSeq(Sections(item.lines), LAMBDA s : s.heading \in headings) IN
        FlattenSeq([s \in DOMAIN sections |-> numbered(item, sections[s].texts)]))
      known(list, d) == \E o \in Range(list) : o.identity = d.identity /\ o.title = d.title
  IN First(FoldLeft(LAMBDA list, d : IF known(list, d) THEN list ELSE Append(list, d), <<>>, all), MaxDrafts)

DraftEvidence(d) == [id |-> d.refs, kind |-> "markdown", identity |-> d.identity, content |-> d.title]

GitHubItemKind(item) ==
  CASE item.of = "repository" -> "githubRepository" [] item.of = "pullRequest" -> "githubPullRequest" [] OTHER -> "githubIssue"
SourceKind(item) ==
  CASE item.of = "document" -> "markdown" [] item.of = "plain" -> "generic" [] OTHER -> GitHubItemKind(item)

DeriveProjectBrainState(in) ==
  LET signals == ExtractRisks(in)
      work == ExtractTasks(in)
      decisions == StructuredDrafts(in.items, DecisionHeadings, "decision")
      dependencies == StructuredDrafts(in.items, DependencyHeadings, "dependency")
      milestones == StructuredDrafts(in.items, MilestoneHeadings, "milestone")
      drafts(list) == [n \in DOMAIN list |-> SignalDraft(list[n])]
      goals == CollectSectionItems(in.items, ObjectiveHeadings)
  IN [risk |-> drafts(signals),
      blocker |-> drafts(SelectSeq(signals, LAMBDA r : IsExplicitBlockerReason(r.reason))),
      task |-> drafts(work), decision |-> decisions, dependency |-> dependencies, milestone |-> milestones,
      evidence |-> FoldLeft(Ensure, <<>>,
                     Each(signals \o work, LAMBDA c : <<SignalEvidence(c)>>)
                     \o Each(decisions \o dependencies \o milestones, LAMBDA d : <<DraftEvidence(d)>>)),
      sources |-> Once([n \in DOMAIN in.items |-> [kind |-> SourceKind(in.items[n]), identity |-> Id(in.items[n])]]),
      objective |-> First(goals, 1)]
=============================================================================
