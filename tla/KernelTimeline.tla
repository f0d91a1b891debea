--------------------------- MODULE KernelTimeline ---------------------------
(***************************************************************************)
(* The kernel's derivation of one page of a project's timeline             *)
(* (projectbrain/timeline.rs).  A capture is a sequence number, the id of  *)
(* its snapshot ("" when blank) and the set of changes its comparison with *)
(* the capture before it found; a change is a kind rank, an id and a       *)
(* category rank.  The payload of an event (title, status, dates) is that  *)
(* change's, and an event's id is a hash of capture, position and payload, *)
(* so the three stand for the id.                                          *)
(***************************************************************************)
EXTENDS Integers, Sequences, FiniteSets, SequencesExt

CONSTANTS DefaultLimit, MaxLimit,   \* DEFAULT_TIMELINE_LIMIT, MAX_TIMELINE_LIMIT
          MaxTimelineCaptures       \* MAX_TIMELINE_CAPTURES

Unset == -1       \* an option of a query that was left out
Fails(page) == "error" \in DOMAIN page

Limit(query) == IF query.limit = Unset THEN DefaultLimit ELSE query.limit

QueryInvalid(query) ==
  \/ query.project = ""
  \/ query.before < Unset
  \/ Limit(query) \notin 1..MaxLimit

CapturesInvalid(captures, project) ==
  \/ Len(captures) > MaxTimelineCaptures
  \/ \E i \in DOMAIN captures :
       \/ captures[i].sequence < 1
       \/ i > 1 /\ captures[i].sequence <= captures[i - 1].sequence
       \/ captures[i].snapshot = ""
       \/ captures[i].project # project

\* The order of the diff, established again: a ChangeSet may come back in any.
OrderedChanges(changes) ==
  LET precedes(a, b) ==
        \/ a.kind < b.kind
        \/ a.kind = b.kind /\ a.id < b.id
        \/ a.kind = b.kind /\ a.id = b.id /\ a.category < b.category
  IN SetToSortSeq(changes, precedes)

Passes(change, query) == /\ query.category \in {Unset, change.category}
                         /\ query.kind \in {Unset, change.kind}

Eligible(sequence, query) == query.before = Unset \/ sequence < query.before

\* Mutant: positions counted after the filter.
EventsOfFiltered(capture, query) ==
  LET passes(c) == Passes(c, query)
      kept == SelectSeq(OrderedChanges(capture.changes), passes)
  IN [i \in DOMAIN kept |-> [capture |-> capture.sequence, position |-> i - 1, change |-> kept[i]]]

\* A change's position counts the changes the filter hides.
EventsOf(capture, query) ==
  LET ordered == OrderedChanges(capture.changes)
      event(i) == [capture |-> capture.sequence, position |-> i - 1, change |-> ordered[i]]
      all == [i \in DOMAIN ordered |-> event(i)]
      passes(e) == Passes(e.change, query)
  IN SelectSeq(all, passes)

\* The eligible captures with something to show, newest first.
Derived(captures, query) ==
  LET shown(c) == Eligible(c.sequence, query) /\ EventsOf(c, query) # <<>>
      kept == SelectSeq(captures, shown)
  IN Reverse([i \in DOMAIN kept |-> EventsOf(kept[i], query)])

\* Whole captures, until one would pass the limit; the first is always taken.
Consumed(derived, limit) ==
  LET fits(n) == n = 1 \/ Len(FlattenSeq(SubSeq(derived, 1, n))) <= limit
  IN CHOOSE n \in 0..Len(derived) :
       /\ \A i \in 1..n : fits(i)
       /\ n < Len(derived) => ~fits(n + 1)

DeriveProjectTimeline(captures, query) ==
  IF QueryInvalid(query) \/ CapturesInvalid(captures, query.project)
  THEN [error |-> "invalidField"]
  ELSE LET derived == Derived(captures, query)
           n == Consumed(derived, Limit(query))
           more == n < Len(derived)
       IN [events |-> FlattenSeq(SubSeq(derived, 1, n)),
           hasMore |-> more,
           next |-> IF more THEN derived[n][1].capture ELSE Unset]
=============================================================================
