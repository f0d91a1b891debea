--------------------------- MODULE ProjectSignals ---------------------------
(***************************************************************************)
(* The risks and the next tasks that the skills read out of a provider's   *)
(* items (skills/src: markdown-project.ts, project-signals.ts).            *)
(*                                                                         *)
(* A document is a sequence of lines.  A line is a record: its sort, its   *)
(* mark (of a fence its character, of a heading its normalized text, of a  *)
(* bullet its checkbox), the prefix before its colon, and the rest of its  *)
(* text.  A text is the sequence of its parts; an id the sequence of an    *)
(* item's id and what is appended to it.                                   *)
(***************************************************************************)
EXTENDS Naturals, Sequences, SequencesExt, FiniteSetsExt

CONSTANTS DayLength,            \* units of a calendar day
          MaxRisks, MaxTasks    \* MAX_RISKS, MAX_NEXT_TASKS

-----------------------------------------------------------------------------
(* The words.  "fa" are the Persian ones; a heading spelled with a zero-width *)
(* joiner is in the lists but is compared with itself unjoined.              *)

RiskHeadings ==
  [blockers |-> "high", faBlockers |-> "high", risks |-> "medium", faRisks |-> "medium",
   dependencies |-> "medium", faDependencies |-> "medium", concerns |-> "low", faConcerns |-> "low"]
BodyHeadings == {"blockers", "risks", "dependencies", "concerns"}
CommentHeadings == {"blockers", "risks", "dependencies"}
ActionHeadings == {"nextSteps", "actionItems", "faNextSteps"}
RiskMarkers ==
  [blocker |-> "high", faBlocker |-> "high", risk |-> "medium", faRisk |-> "medium", dependency |-> "medium",
   faDependency |-> "medium", concern |-> "low", faConcern |-> "low"]
ActionMarkers == {"next", "action", "faAction"}
PriorityMarkers == [p0 |-> "high", critical |-> "high", urgent |-> "high", p1 |-> "medium", high |-> "medium",
                    p2 |-> "low", medium |-> "low", low |-> "low", faUrgent |-> "high"]

LabelSeverity == [blocker |-> "high", blocked |-> "high", critical |-> "high", security |-> "high",
                  waiting |-> "medium", p1 |-> "medium", p2 |-> "low"]
NoActionLabels == {"duplicate", "wontfix"}
TitleSeverity == [blocker |-> "high", blocked |-> "high", overdue |-> "high", risk |-> "medium", delay |-> "medium",
                  concern |-> "low"]
GenericSeverity == [blocker |-> "high", blocked |-> "high", overdue |-> "high", risk |-> "medium", waiting |-> "medium"]
DoneStatuses == {"done", "closed", "merged", "resolved", "cancelled"}
BlockedStatuses == {"blocked", "blocker", "waiting", "on-hold"}

-----------------------------------------------------------------------------
(* parseMarkdownSignalEntries: the lines that can be signals. *)

Said(line) == SelectSeq(<<line.prefix, line.text>>, LAMBDA part : part # "")
IsMarker(line) == line.prefix \in DOMAIN RiskMarkers \union ActionMarkers /\ line.text # ""
KindOf(line) ==
  IF line.sort = "bullet" /\ line.mark \in {"unchecked", "checked"} THEN line.mark
  ELSE IF IsMarker(line) THEN "marker"
  ELSE IF line.sort \in {"bullet", "number"} THEN "item" ELSE "paragraph"

Entry(acc, line) ==
  [heading |-> acc.heading, sequence |-> Len(acc.entries) + 1, kind |-> KindOf(line), prefix |-> line.prefix,
   text |-> IF KindOf(line) = "marker" THEN <<line.text>> ELSE Said(line)]

\* A line of no list that follows an entry continues it.
ReadLine(acc, line) ==
  LET entered == [acc EXCEPT !.entries = Append(@, Entry(acc, line)), !.continues = TRUE] IN
  CASE line.sort = "fence" ->
         [acc EXCEPT !.fence = IF @ = "" THEN line.mark ELSE IF @ = line.mark THEN "" ELSE @, !.continues = FALSE]
    [] line.sort # "fence" /\ acc.fence # "" -> acc
    [] acc.fence = "" /\ line.sort = "heading" -> [acc EXCEPT !.heading = line.mark, !.continues = FALSE]
    [] acc.fence = "" /\ line.sort = "blank" -> [acc EXCEPT !.continues = FALSE]
    [] acc.fence = "" /\ line.sort \in {"bullet", "number", "plain"} ->
         IF KindOf(line) \in {"unchecked", "checked", "marker"} THEN entered
         ELSE IF acc.heading = "" THEN [acc EXCEPT !.continues = FALSE]
         ELSE IF KindOf(line) = "item" THEN IF Said(line) = <<>> THEN acc ELSE entered
         ELSE IF acc.continues THEN [acc EXCEPT !.entries[Len(acc.entries)].text = @ \o Said(line)] ELSE entered

Entries(lines) ==
  FoldLeft(ReadLine, [entries |-> <<>>, heading |-> "", fence |-> "", continues |-> FALSE], lines).entries

\* The entries that follow each other under one heading.
Section(entries, i) ==
  {j \in DOMAIN entries : \A k \in DOMAIN entries :
     (i <= k /\ k <= j) \/ (j <= k /\ k <= i) => entries[k].heading = entries[i].heading}

-----------------------------------------------------------------------------
(* The entries that are risks or tasks, where these headings are those of risks. *)

IsRiskEntry(entries, i, headings) ==
  LET e == entries[i]
      listed == \E j \in Section(entries, i) : entries[j].kind \in {"item", "unchecked", "checked"}
  IN IF e.kind = "marker" THEN e.prefix \in DOMAIN RiskMarkers
     ELSE e.heading \in headings /\ (e.kind \in {"item", "unchecked"} \/ (e.kind = "paragraph" /\ ~listed))

\* For a mutant: a box to tick is a task wherever it is.
IsTaskEntryAnywhere(entries, i, headings) ==
  LET e == entries[i] IN
  CASE e.kind = "marker" -> e.prefix \in ActionMarkers
    [] e.kind = "unchecked" -> TRUE
    [] e.kind = "item" -> e.heading \in ActionHeadings
    [] OTHER -> FALSE

IsTaskEntry(entries, i, headings) ==
  LET e == entries[i] IN
  CASE e.kind = "marker" -> e.prefix \in ActionMarkers
    [] e.kind = "unchecked" -> e.heading \notin headings
    [] e.kind = "item" -> e.heading \in ActionHeadings
    [] OTHER -> FALSE

Those(entries, holds(_)) == SelectSeq([i \in DOMAIN entries |-> i], holds)

\* A word of urgency before the title of a task is its priority.
StripPriorityMarker(title) ==
  IF Len(title) > 1 /\ Head(title) \in DOMAIN PriorityMarkers
  THEN [title |-> Tail(title), priority |-> PriorityMarkers[Head(title)]]
  ELSE [title |-> title, priority |-> ""]

Id(item) == <<item.id>>

EntryRisks(item, source, headings) ==
  LET entries == Entries(item.lines)
      found == Those(entries, LAMBDA i : IsRiskEntry(entries, i, headings))
      risk(e) ==
        [id |-> <<item.id, "risk", e.sequence>>, title |-> e.text, source |-> source,
         sourceId |-> IF source = "markdown" THEN Id(item) ELSE <<item.id, "risk", e.sequence>>,
         severity |-> IF e.kind = "marker" THEN RiskMarkers[e.prefix] ELSE RiskHeadings[e.heading],
         reason |-> <<IF e.kind = "marker" THEN "marker" ELSE "heading", IF e.kind = "marker" THEN e.prefix ELSE e.heading>>]
  IN [n \in DOMAIN found |-> risk(entries[found[n]])]

EntryTasks(item, source, headings) ==
  LET entries == Entries(item.lines)
      found == Those(entries, LAMBDA i : IsTaskEntry(entries, i, headings))
      task(e) ==
        LET id == <<item.id, IF e.kind = "unchecked" THEN "task" ELSE "action", e.sequence>> IN
        [id |-> id, source |-> source, sourceId |-> IF source = "markdown" THEN Id(item) ELSE id]
          @@ StripPriorityMarker(e.text)
  IN [n \in DOMAIN found |-> task(entries[found[n]])]

MarkdownRisks(item) == EntryRisks(item, "markdown", DOMAIN RiskHeadings)
MarkdownTasks(item) == EntryTasks(item, "markdown", DOMAIN RiskHeadings)

-----------------------------------------------------------------------------
(* Due dates.  A date ends with its day; a time needs a zone. *)

ParseComparableInstant(due) ==
  CASE due.kind = "day" -> [ok |-> TRUE, at |-> due.on * DayLength + DayLength - 1]
    [] due.kind = "at" -> [ok |-> TRUE, at |-> due.on]
    [] OTHER -> [ok |-> FALSE, at |-> 0]

IsOverdue(due, now) == ParseComparableInstant(due).ok /\ ParseComparableInstant(due).at < now

-----------------------------------------------------------------------------
(* GitHub issues, pull requests and repositories. *)

\* The strongest sign of a body: rank 2 a blocker, 1 a risk, 0 a concern.
BodyRiskSignal(item) ==
  LET entries == Entries(item.lines)
      rank == [high |-> 2, medium |-> 1, low |-> 0]
      ranks == {rank[RiskMarkers[e.prefix]] : e \in {e \in Range(entries) : e.kind = "marker" /\ e.prefix \in DOMAIN RiskMarkers}}
               \union {rank[RiskHeadings[e.heading]] : e \in {e \in Range(entries) : e.kind # "marker" /\ e.heading \in BodyHeadings}}
  IN IF ranks = {} THEN "none" ELSE <<"concern", "risk", "blocker">>[Max(ranks) + 1]

HasBlockerLabelOrTag(item) == (Range(item.labels) \union item.tags) \intersect {"blocker", "blocked"} # {}
LabelOf(item, severity) == SelectSeq(item.labels, LAMBDA l : l \in DOMAIN LabelSeverity /\ LabelSeverity[l] = severity)
TitleOf(item, severity) == item.title \in DOMAIN TitleSeverity /\ TitleSeverity[item.title] = severity
IsDone(item) == item.status \in DoneStatuses
IsBlocked(item) == item.status \in BlockedStatuses \/ item.tags \intersect BlockedStatuses # {}

ItemRisk(item, severity, reason, source) ==
  [id |-> Id(item), title |-> <<item.title>>, source |-> source, sourceId |-> Id(item), severity |-> severity, reason |-> reason]

\* The first sign that applies, from the surest to the weakest.
ClassifyGitHubRisk(item, now) ==
  LET sign(holds, severity, reason) == [holds |-> holds, severity |-> severity, reason |-> reason]
      body == BodyRiskSignal(item)
      label(severity) == LabelOf(item, severity)
      signs == <<
        sign(~IsDone(item) /\ item.status \in {"open", "draft", ""} /\ IsOverdue(item.due, now), "high", <<"due", "overdue">>),
        sign(item.status = "blocked" \/ HasBlockerLabelOrTag(item), "high", <<"state", "blocked">>),
        sign(label("high") # <<>>, "high", <<"label", "high">>),
        sign(body = "blocker", "high", <<"body", "blocker">>),
        sign(label("medium") # <<>>, "medium", <<"label", "medium">>),
        sign(body = "risk", "medium", <<"body", "risk">>),
        sign(label("low") # <<>>, "low", <<"label", "low">>),
        sign(body = "concern", "low", <<"body", "concern">>),
        sign(TitleOf(item, "high"), "high", <<"title", item.title>>),
        sign(TitleOf(item, "medium"), "medium", <<"title", item.title>>),
        sign(TitleOf(item, "low"), "low", <<"title", item.title>>)>>
      held == {i \in DOMAIN signs : signs[i].holds}
  IN IF held = {} THEN <<>>
     ELSE LET first == signs[Min(held)] IN <<ItemRisk(item, first.severity, first.reason, item.of)>>

ClassifyGitHubRepositoryRisk(item) ==
  LET says(word) == word \in item.tags \union {item.status} IN
  IF says("disabled") THEN <<ItemRisk(item, "high", <<"repository", "disabled">>, "repository")>>
  ELSE IF says("archived") THEN <<ItemRisk(item, "medium", <<"repository", "archived">>, "repository")>> ELSE <<>>

ClassifyGitHubNextTask(item, now) ==
  LET eligible ==
        /\ item.of \in {"issue", "pullRequest"} /\ item.title # ""
        /\ item.status \in (IF item.of = "pullRequest" THEN {"open", "draft"} ELSE {"open"})
        /\ ~IsDone(item) /\ ~IsBlocked(item) /\ ~HasBlockerLabelOrTag(item)
        /\ Range(item.labels) \intersect NoActionLabels = {}
        /\ BodyRiskSignal(item) # "blocker"
      priority ==
        IF IsOverdue(item.due, now) \/ LabelOf(item, "high") # <<>> THEN "high"
        ELSE IF LabelOf(item, "medium") # <<>> \/ ParseComparableInstant(item.due).ok
                  \/ (item.of = "pullRequest" /\ item.reviewers # {}) THEN "medium" ELSE "low"
  IN IF ~eligible THEN <<>>
     ELSE <<[id |-> Id(item), title |-> <<item.title>>, source |-> item.of, sourceId |-> Id(item), priority |-> priority]>>

-----------------------------------------------------------------------------
(* What is said of an issue or a pull request: comments, reviews and the       *)
(* comments of a review.                                                       *)

Notes == {"issueComment", "review", "reviewComment"}
ParentAcceptsTasks(item) == item.parent \in {"open", "draft"}
ChangesRequested(item) == item.of = "review" /\ item.review = "changesRequested" /\ ParentAcceptsTasks(item)

ReviewStateRisk(item) ==
  LET id == <<item.id, "state-risk">> IN
  IF ~ChangesRequested(item) THEN <<>>
  ELSE <<[id |-> id, title |-> <<"changes requested by", item.author>>, source |-> "review", sourceId |-> id,
          severity |-> "high", reason |-> <<"review", "changesRequested">>]>>
ReviewStateTask(item) ==
  LET id == <<item.id, "state-task">> IN
  IF ~ChangesRequested(item) THEN <<>>
  ELSE <<[id |-> id, title |-> <<"address changes requested by", item.author>>, source |-> "review", sourceId |-> id,
          priority |-> "high"]>>

\* The headings of a comment are not all those of a document; a review's are.
CommentRisks(item) == EntryRisks(item, "issueComment", CommentHeadings)
CommentTasks(item) == IF ParentAcceptsTasks(item) THEN EntryTasks(item, "issueComment", CommentHeadings) ELSE <<>>
ReviewBodyRisks(item) == EntryRisks(item, item.of, DOMAIN RiskHeadings)
ReviewBodyTasks(item) == IF ParentAcceptsTasks(item) THEN EntryTasks(item, item.of, DOMAIN RiskHeadings) ELSE <<>>

NoteRisks(item) == IF item.of = "issueComment" THEN CommentRisks(item) ELSE ReviewStateRisk(item) \o ReviewBodyRisks(item)
NoteTasks(item) == IF item.of = "issueComment" THEN CommentTasks(item) ELSE ReviewStateTask(item) \o ReviewBodyTasks(item)

-----------------------------------------------------------------------------
(* Structured and other items. *)

SignalsOf(item) == item.tags \union {item.status}
Signalled(item, severity) == \E s \in SignalsOf(item) \intersect DOMAIN GenericSeverity : GenericSeverity[s] = severity

ExplicitRiskSeverity(item) ==
  IF Signalled(item, "high") THEN "high" ELSE IF Signalled(item, "medium") THEN "medium"
  ELSE IF TitleOf(item, "high") THEN "high" ELSE IF TitleOf(item, "medium") THEN "medium" ELSE "low"

GenericRisk(item) ==
  IF Signalled(item, "high") \/ TitleOf(item, "high") THEN <<ItemRisk(item, "high", <<"explicit", "">>, "generic")>>
  ELSE IF Signalled(item, "medium") \/ TitleOf(item, "medium") THEN <<ItemRisk(item, "medium", <<"explicit", "">>, "generic")>>
  ELSE <<>>

HasOperationalField(item) == item.status # "" \/ item.due.kind # "none" \/ item.tags # {}
StructuredTask(item, source) == <<[id |-> Id(item), title |-> <<item.title>>, source |-> source, sourceId |-> Id(item), priority |-> ""]>>
GenericTask(item) ==
  IF HasOperationalField(item) /\ ~IsDone(item) /\ ~IsBlocked(item) THEN StructuredTask(item, "generic") ELSE <<>>

-----------------------------------------------------------------------------
(* extractRiskCandidates, extractNextTaskCandidates. *)

\* A candidate is dropped if one with its id is in the list, or, of a document,
\* one of that document with its title, or, of neither a document nor a
\* declaration, one of its source.
IsKnown(list, c) ==
  \E o \in Range(list) :
    \/ o.id = c.id
    \/ c.source = "markdown" /\ o.source = "markdown" /\ o.sourceId = c.sourceId /\ o.title = c.title
    \/ c.source \notin {"markdown", "structured"} /\ o.sourceId = c.sourceId
Ordered(candidates) == FoldLeft(LAMBDA list, c : IF IsKnown(list, c) THEN list ELSE Append(list, c), <<>>, candidates)

Of(items, kinds) == SelectSeq(items, LAMBDA item : item.of \in kinds)
Each(items, candidates(_)) == FoldLeft(LAMBDA list, item : list \o candidates(item), <<>>, items)
First(list, n) == SubSeq(list, 1, IF Len(list) < n THEN Len(list) ELSE n)

RiskCandidates(in) ==
  LET github(item) ==
        CASE item.of = "issueComment" -> NoteRisks(item)
          [] item.of = "repository" -> ClassifyGitHubRepositoryRisk(item)
          [] OTHER -> ClassifyGitHubRisk(item, in.now)
  IN Each(in.risks, LAMBDA r : <<ItemRisk(r, ExplicitRiskSeverity(r), <<"explicit", "">>, "structured")>>)
     \o Each(Of(in.items, {"document"}), MarkdownRisks)
     \o Each(Of(in.items, {"issueComment", "repository", "issue", "pullRequest"}), github)
     \o Each(Of(in.items, {"review"}), NoteRisks) \o Each(Of(in.items, {"reviewComment"}), NoteRisks)
     \o Each(Of(in.items, {"plain"}), GenericRisk)
ExtractRisks(in) == First(Ordered(RiskCandidates(in)), MaxRisks)

TaskCandidates(in) ==
  LET github == Each(in.items, LAMBDA item : IF item.of \in {"issue", "pullRequest"} THEN ClassifyGitHubNextTask(item, in.now) ELSE <<>>)
      bucket(priority) == SelectSeq(github, LAMBDA t : t.priority = priority)
  IN Each(in.tasks, LAMBDA t : StructuredTask(t, "structured"))
     \o Each(Of(in.items, {"document"}), MarkdownTasks)
     \o bucket("high") \o bucket("medium") \o bucket("low")
     \o Each(Of(in.items, {"issueComment"}), NoteTasks) \o Each(Of(in.items, {"review"}), NoteTasks)
     \o Each(Of(in.items, {"reviewComment"}), NoteTasks)
     \o Each(Of(in.items, {"plain"}), GenericTask)
ExtractTasks(in) == First(Ordered(TaskCandidates(in)), MaxTasks)
=============================================================================
