----------------------------- MODULE Extraction -----------------------------
(***************************************************************************)
(* What the skills read out of the items of a project, added to Surfaces.  *)
(***************************************************************************)
EXTENDS Surfaces

CONSTANTS MaxRisks, MaxTasks, MaxSectionItems, MaxDrafts,   \* ProjectSkills
          SkillInputs

Skill == INSTANCE ProjectSkills

ReadItems ==
  /\ case = Start
  /\ \E in \in SkillInputs : case' = [of |-> "skills", in |-> in]

-----------------------------------------------------------------------------
\* The lines of a document without those inside code.
Spoken(lines) ==
  LET step(acc, line) ==
        LET code == IF line.sort # "fence" THEN acc.code ELSE IF acc.code = "" THEN line.mark
                    ELSE IF acc.code = line.mark THEN "" ELSE acc.code
        IN [code |-> code, lines |-> Append(acc.lines, IF line.sort = "fence" \/ acc.code # "" THEN [line EXCEPT !.sort = "blank"] ELSE line)]
  IN FoldLeft(step, [code |-> "", lines |-> <<>>], lines).lines

Only(in, item) == [in EXCEPT !.items = <<item>>, !.risks = <<>>, !.tasks = <<>>, !.decisions = <<>>]
IdsOf(list) == {c.id : c \in Range(list)}

\* Nothing is called a danger that blocks and a thing to do next at once: no line
\* of a document or a note is both, and no issue that is blocked is suggested.
NothingIsBoth(it) ==
  it.of = "skills" =>
    LET risks == Skill!RiskCandidates(it.in)
        tasks == Skill!TaskCandidates(it.in)
    IN \A r \in Range(risks), t \in Range(tasks) :
         /\ Len(r.id) = 3 /\ Len(t.id) = 3 => <<r.id[1], r.id[3]>> # <<t.id[1], t.id[3]>>
         /\ r.id = t.id /\ {r.source, t.source} \subseteq {"issue", "pullRequest"} => ~Skill!IsExplicitBlockerReason(r.reason)
                                                                                     \/ r.reason[1] = "title"

\* What is closed, and what was said of it, gives no task.
ClosedGivesNoTask(it) ==
  it.of = "skills" =>
    \A item \in Range(it.in.items) :
      (item.of # "document" /\ Skill!IsDone(item)) \/ (item.of \in Skill!Notes /\ item.parent \notin {"open", "draft"}) =>
        \A t \in Range(Skill!TaskCandidates(Only(it.in, item))) : FALSE

\* Code is not read as text, by either reader of a document.
CodeIsSilent(it) ==
  it.of = "skills" =>
    \A item \in Range(it.in.items) :
      /\ Skill!Entries(Spoken(item.lines)) = Skill!Entries(item.lines)
      /\ [i \in DOMAIN Skill!Sections(item.lines) |-> Skill!Sections(item.lines)[i].heading]
           = [i \in DOMAIN Skill!Sections(Spoken(item.lines)) |-> Skill!Sections(Spoken(item.lines))[i].heading]

\* What an item says does not depend on the others: a candidate it would give
\* alone is listed, unless one with its id or its source is, or the list is full;
\* and nothing else is listed.
SignalsAreLocal(it) ==
  it.of = "skills" =>
    LET in == it.in
        alone(extract(_)) == UNION {Range(extract(Only(in, item))) : item \in Range(in.items)}
        kept(list, candidates, limit) ==
          /\ \A c \in candidates : c \in Range(list) \/ Skill!IsKnown(list, c) \/ Len(list) = limit
          /\ \A c \in Range(list) : c \in candidates \/ c.source = "structured"
          /\ Len(list) <= limit /\ Cardinality(IdsOf(list)) = Len(list)
    IN /\ kept(Skill!ExtractRisks(in), alone(Skill!RiskCandidates), MaxRisks)
       /\ kept(Skill!ExtractTasks(in), alone(Skill!TaskCandidates), MaxTasks)

\* Both the skills and the kernel take a date to be over when its day is.
DueAgrees(it) ==
  it.of = "skills" =>
    \A item \in Range(it.in.items) :
      item.due.kind \in {"day", "at", "none"} => (Skill!IsOverdue(item.due, it.in.now) <=> Diff!IsOverdue(item.due, it.in.now))

\* A draft cites evidence that is there. Ids are unique in a kind, as the kernel
\* demands, unless a document has two sections of the kind: then the capture fails,
\* or the second's item cites the text of the first's.
DraftsAreBacked(it) ==
  it.of = "skills" =>
    LET state == Skill!DeriveProjectBrainState(it.in)
        kinds == {"risk", "blocker", "task", "decision", "dependency", "milestone"}
        headings == [decision |-> Skill!DecisionHeadings, dependency |-> Skill!DependencyHeadings, milestone |-> Skill!MilestoneHeadings]
        repeated(kind) == kind \in DOMAIN headings /\ \E item \in Range(it.in.items) :
                            Len(SelectSeq(Skill!Sections(item.lines), LAMBDA s : s.heading \in headings[kind])) > 1
        evidence(id) == {e \in Range(state.evidence) : e.id = id}
    IN /\ \A kind \in kinds : \A d \in Range(state[kind]) : Cardinality(evidence(d.refs)) = 1
       /\ \A kind \in kinds : Cardinality(IdsOf(state[kind])) = Len(state[kind]) \/ repeated(kind)
       /\ \A kind \in DOMAIN headings : \A d \in Range(state[kind]) :
            repeated(kind) \/ \A e \in evidence(d.refs) : e.content = d.title
       /\ IdsOf(state.blocker) \subseteq IdsOf(state.risk)
       /\ \A r \in Range(Skill!ExtractRisks(it.in)) : r.id \in IdsOf(state.blocker) => r.severity = "high" 

\* A handoff tells of the notes what the lists of risks and of tasks tell, under
\* their authors' names, and the counts of a status leave the notes out.
HandoffAgrees(it) ==
  it.of = "skills" =>
    LET in == it.in
        handoff == Skill!CreateHandoff(in)
        status == Skill!SummarizeStatus(in)
        risks == Range(Skill!ExtractRisks(in))
        tasks == Range(Skill!ExtractTasks(in))
        told(item, list, section) ==
          \/ Len(section) = MaxSectionItems
          \/ \A c \in list : c.id[1] = item.id => Skill!By(item, c.title) \in Range(section)
    IN /\ \A item \in Range(in.items) :
            item.of \in Skill!Notes => told(item, tasks, handoff.tasks) /\ told(item, risks, handoff.risks)
       /\ \A item \in Range(in.items) :
            item.of \in {"issue", "pullRequest"} => told(item, {t \in tasks : t.id = Skill!Id(item)}, handoff.tasks)
       /\ status.total = Len(in.items) - Len(SelectSeq(in.items, LAMBDA i : i.of \in Skill!Notes))
       /\ status.open >= 0 /\ status.done + status.blocked + status.open = status.total

HonestSignals(it) ==
  /\ NothingIsBoth(it) /\ ClosedGivesNoTask(it) /\ CodeIsSilent(it) /\ SignalsAreLocal(it) /\ DueAgrees(it)
  /\ DraftsAreBacked(it) /\ HandoffAgrees(it)

\* No step reads items otherwise.
SignalsAreHonest == [][HonestSignals(case')]_case

-----------------------------------------------------------------------------
ExtractionNext == SurfacesNext \/ ReadItems
ExtractionSpec == Init /\ [][ExtractionNext]_case
=============================================================================
