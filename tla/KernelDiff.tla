----------------------------- MODULE KernelDiff -----------------------------
(***************************************************************************)
(* The kernel's comparison of two snapshots, and the ages it rests on      *)
(* (projectbrain/diff.rs, time.rs and freshness.rs of the crate).          *)
(*                                                                         *)
(* An instant is a number of seconds.  A match key stands for the pair of  *)
(* an item's kind rank and its id, and is ordered as that pair is.  The    *)
(* fields title, owner, priority and metadata are only ever compared for   *)
(* equality, all in one place, so `rest' stands for the four of them.      *)
(* Snapshots arrive finalized: KernelState is the module of that.          *)
(***************************************************************************)
EXTENDS Integers, Sequences, FiniteSets, SequencesExt, FiniteSetsExt

CONSTANTS DayLength,     \* seconds of a calendar day
          MaxChanges     \* MAX_CHANGES

Unknown == -1            \* no age: no timestamp contributed one
Failed(code) == [error |-> code]
Fails(x) == "error" \in DOMAIN x

-----------------------------------------------------------------------------
(* Time.  A due date is of kind "day" (a calendar date), "at" (an instant)
   or "none"; the fields of the kinds that do not apply are 0. *)

TooFarAhead(at, reference, skew) == at > reference + skew

\* An event within the tolerated skew of the future is as old as now.
AgeSeconds(reference, at) == IF at <= reference THEN reference - at ELSE 0

\* A calendar day is over when a later one has begun; an instant when it is past.
IsOverdue(due, reference) ==
  \/ due.kind = "day" /\ reference \div DayLength > due.on
  \/ due.kind = "at" /\ reference > due.on

PolicyInvalid(policy) == policy.staleAfter < 0 \/ policy.skew < 0

\* The age of the oldest of a set of timestamps.
OldestAge(ats, reference) ==
  IF ats = {} THEN Unknown ELSE Max({AgeSeconds(reference, at) : at \in ats})

\* The four dimensions of freshness, and the gaps of the coverage.
DeriveFreshness(in) ==
  LET stamps == {in.observedAt} \union in.updated \union in.changed
      observation == AgeSeconds(in.reference, in.observedAt)
      evidence == OldestAge(in.changed, in.reference)
  IN IF in.skew < 0 THEN Failed("invalidField")
     ELSE IF \E at \in stamps : TooFarAhead(at, in.reference, in.skew)
     THEN Failed("futureTimestamp")
     ELSE [observation |-> observation,
           source |-> OldestAge(in.updated, in.reference),
           evidence |-> evidence,
           derived |-> IF evidence = Unknown THEN Unknown ELSE Max({observation, evidence}),
           gaps |-> in.gaps \ {""},
           complete |-> in.gaps \ {""} = {}]

-----------------------------------------------------------------------------
(* The evidence of a snapshot: a sequence of records. *)

Records(snapshot) == Range(snapshot.evidence)

IndexError(snapshot, project) ==
  IF \E r \in Records(snapshot) : r.project # project THEN "mismatch"
  ELSE IF \E i, j \in DOMAIN snapshot.evidence :
            i < j /\ snapshot.evidence[i].id = snapshot.evidence[j].id THEN "duplicate"
  ELSE "none"

ById(snapshot, id) == CHOOSE r \in Records(snapshot) : r.id = id

Has(snapshot, id) == \E r \in Records(snapshot) : r.id = id

\* The last record of a source wins.
BySource(snapshot, source) ==
  LET of == {i \in DOMAIN snapshot.evidence : snapshot.evidence[i].source = source}
  IN snapshot.evidence[Max(of)]

HasSource(snapshot, source) == \E r \in Records(snapshot) : r.source = source

\* What the snapshot itself cites, and what each item of it cites.
RefsPresent(snapshot) ==
  \A id \in snapshot.refs \union UNION {snapshot.items[key].refs : key \in DOMAIN snapshot.items} : Has(snapshot, id)

\* The timestamps behind an item: when a source says it changed, else when it was seen.
Stamps(snapshot, key) ==
  LET stamp(r) == IF r.updatedAt = Unknown THEN r.observedAt ELSE r.updatedAt
  IN {stamp(ById(snapshot, id)) : id \in snapshot.items[key].refs}

ItemEvidenceAge(snapshot, key) == OldestAge(Stamps(snapshot, key), snapshot.capturedAt)

EvidenceChanged(previous, current, key) ==
  LET refs == current.items[key].refs
  IN \/ previous.items[key].refs # refs
     \/ \E id \in refs :
          LET now == ById(current, id)
          IN \/ /\ HasSource(previous, now.source)
                /\ BySource(previous, now.source).content # now.content
             \/ ById(previous, id).content # now.content

-----------------------------------------------------------------------------
(* The categories of a matched item: what each field's change is called. *)

SeverityRank == [info |-> 0, low |-> 1, medium |-> 2, high |-> 3, critical |-> 4]
ResolvedLike == {"resolved", "closed", "done", "complete", "completed"}
OpenLike == {"open", "todo", "planned", "inprogress", "active", "reopened", "blocked"}

\* The order of the categories of one item.
CategoryRank ==
  <<"added", "removed", "resolved", "reopened", "becameOverdue", "noLongerOverdue",
    "severityIncreased", "severityDecreased", "fresh", "stale", "evidenceChanged", "modified">>

StatusChange(p, c) ==
  IF "none" \in {p, c} THEN {}
  ELSE IF p \notin ResolvedLike /\ c \in ResolvedLike THEN {"resolved"}
  ELSE IF p \in ResolvedLike /\ c \in OpenLike THEN {"reopened"} ELSE {}

SeverityChange(p, c) ==
  IF ~({p, c} \subseteq DOMAIN SeverityRank) THEN {}
  ELSE IF SeverityRank[c] > SeverityRank[p] THEN {"severityIncreased"}
  ELSE IF SeverityRank[c] < SeverityRank[p] THEN {"severityDecreased"} ELSE {}

\* Each due date is judged at its own snapshot's capture.
OverdueChange(previous, current, key) ==
  LET p == previous.items[key].due
      c == current.items[key].due
      was == IsOverdue(p, previous.capturedAt)
      is == IsOverdue(c, current.capturedAt)
  IN IF "none" \in {p.kind, c.kind} \/ was = is THEN {}
     ELSE IF is THEN {"becameOverdue"} ELSE {"noLongerOverdue"}

StaleChange(previous, current, key, staleAfter) ==
  LET p == ItemEvidenceAge(previous, key)
      c == ItemEvidenceAge(current, key)
  IN IF Unknown \in {p, c} \/ (p > staleAfter <=> c > staleAfter) THEN {}
     ELSE IF p > staleAfter THEN {"fresh"} ELSE {"stale"}

\* Mutant: the due date counted as explained whenever both sides carry one.
ModifiedButDue(previous, current, key) ==
  LET p == previous.items[key]
      c == current.items[key]
  IN \/ p.rest # c.rest
     \/ p.status # c.status /\ StatusChange(p.status, c.status) = {}
     \/ p.severity # c.severity /\ SeverityChange(p.severity, c.severity) = {}
     \/ p.due # c.due /\ "none" \in {p.due.kind, c.due.kind}

\* A field whose change has a name of its own is not reported a second time.
Modified(previous, current, key) ==
  LET p == previous.items[key]
      c == current.items[key]
  IN \/ p.rest # c.rest
     \/ p.status # c.status /\ StatusChange(p.status, c.status) = {}
     \/ p.severity # c.severity /\ SeverityChange(p.severity, c.severity) = {}
     \/ p.due # c.due /\ OverdueChange(previous, current, key) = {}

MatchedCategories(previous, current, key, staleAfter) ==
  LET p == previous.items[key]
      c == current.items[key]
  IN StatusChange(p.status, c.status)
     \union OverdueChange(previous, current, key)
     \union SeverityChange(p.severity, c.severity)
     \union StaleChange(previous, current, key, staleAfter)
     \union (IF EvidenceChanged(previous, current, key) THEN {"evidenceChanged"} ELSE {})
     \union (IF Modified(previous, current, key) THEN {"modified"} ELSE {})

-----------------------------------------------------------------------------
(* The comparison. *)

Categories(previous, current, key, staleAfter) ==
  IF key \notin DOMAIN previous.items THEN {"added"}
  ELSE IF key \notin DOMAIN current.items THEN {"removed"}
  ELSE MatchedCategories(previous, current, key, staleAfter)

Precedes(a, b) ==
  LET rank(c) == CHOOSE i \in DOMAIN CategoryRank : CategoryRank[i] = c
  IN a.key < b.key \/ (a.key = b.key /\ rank(a.category) < rank(b.category))

\* Only an item that was matched has its evidence dated.
DatedTooFarAhead(previous, current, skew) ==
  \E s \in {previous, current} : \E key \in DOMAIN previous.items \intersect DOMAIN current.items :
    \E at \in Stamps(s, key) : TooFarAhead(at, s.capturedAt, skew)

Changes(previous, current, staleAfter) ==
  LET keys == DOMAIN previous.items \union DOMAIN current.items
  IN UNION {{[key |-> k, category |-> c] : c \in Categories(previous, current, k, staleAfter)} : k \in keys}

DiffProjectSnapshots(previous, current, policy) ==
  IF PolicyInvalid(policy) THEN Failed("invalidField")
  ELSE IF previous.project # current.project THEN Failed("mismatch")
  ELSE IF IndexError(previous, current.project) # "none" THEN Failed(IndexError(previous, current.project))
  ELSE IF IndexError(current, current.project) # "none" THEN Failed(IndexError(current, current.project))
  ELSE IF ~(RefsPresent(previous) /\ RefsPresent(current)) THEN Failed("missingEvidence")
  ELSE IF DatedTooFarAhead(previous, current, policy.skew) THEN Failed("futureTimestamp")
  ELSE LET changes == Changes(previous, current, policy.staleAfter)
       IN IF Cardinality(changes) > MaxChanges THEN Failed("limitExceeded")
          ELSE [changes |-> SortSeq(FoldSet(LAMBDA c, s : Append(s, c), <<>>, changes), Precedes)]
=============================================================================
