----------------------------- MODULE Observation -----------------------------
(***************************************************************************)
(* What a capture sees of its sources and makes of it before its one write *)
(* (capture.ts, observation.ts, evidence.ts and privacy.ts of              *)
(* runtime/src/projectbrain).                                              *)
(*                                                                         *)
(* A request for an observation has an id, a source, a provider request    *)
(* and whether the capture may do without it.  A piece of evidence is its  *)
(* source and content, the time it was observed and the fields it would    *)
(* persist, each a path of keys and a value; the kernel derives the id of  *)
(* a record from its source and content.                                   *)
(***************************************************************************)
EXTENDS Integers, Sequences, FiniteSets, SequencesExt, GitHubProvider

CONSTANTS MaxObservations,             \* MAX_OBSERVATIONS
          MaxDepth                     \* MAX_DEPTH of the privacy scan

-----------------------------------------------------------------------------
(* Observations. *)

\* An answer with a warning is partial; of a failure only the code is kept.
Observe(world, request) ==
  LET result == ExecuteRequest(world, request.request)
  IN IF result.ok THEN [ok |-> TRUE, items |-> result.items, hasWarnings |-> result.warnings # {}, gets |-> result.gets]
     ELSE [ok |-> FALSE, code |-> result.code, gets |-> result.gets]

Coverage(source, state, code) == [source |-> source, state |-> state, code |-> code]

\* Mutant: an answer with warnings counts as complete.
CoverageUnwarned(source, result) ==
  IF result.ok THEN Coverage(source, "complete", "none") ELSE Coverage(source, "skipped", result.code)

CoverageOf(source, result) ==
  IF result.ok THEN Coverage(source, IF result.hasWarnings THEN "partial" ELSE "complete", "none")
  ELSE Coverage(source, "skipped", result.code)

\* One after the other; one that is required and fails ends the run.
RunObservations(world, requests) ==
  LET observe(run, request) ==
        LET result == Observe(world, request)
        IN IF run.failed # "none" THEN run
           ELSE IF ~result.ok /\ (request.required \/ result.code = "hangs") THEN [run EXCEPT !.failed = result.code]
           ELSE [run EXCEPT !.coverage = Append(@, CoverageOf(request.source, result)),
                            !.items = IF result.ok THEN @ \o result.items ELSE @]
  IN FoldLeft(observe, [failed |-> "none", coverage |-> <<>>, items |-> <<>>], requests)

-----------------------------------------------------------------------------
(* Evidence, of what the deriver of states made of the items: candidates,  *)
(* drafts that cite them, and the fields of the snapshot.                  *)

\* A record holds no text of what it is about, only its fingerprint.
MinimizeEvidence(candidates, observedAt) ==
  [i \in DOMAIN candidates |->
     [id |-> <<candidates[i].source, candidates[i].content>>, observedAt |-> observedAt,
      fields |-> candidates[i].fields]]

\* A record the store has is committed as the store has it, if it can be read.
ReconcileEvidenceWithStore(records, store) ==
  [i \in DOMAIN records |->
     LET stored == {r \in store.records : r.id = records[i].id}
     IN IF stored # {} /\ records[i].id \notin store.unreadable
        THEN CHOOSE r \in stored : TRUE ELSE records[i]]

\* A draft names candidates; each has to be one, and counts once.
UnknownReference(drafts, candidates) ==
  \E d \in drafts : ~(d \subseteq {candidates[i].name : i \in DOMAIN candidates})

-----------------------------------------------------------------------------
(* The privacy scan. *)

ForbiddenKeys == {"token", "body", "fingerprintInput"}   \* stands for FORBIDDEN_KEY_NORMALIZED
ValueScanned == {"provenance", "metadata"}

\* Keys are compared without case and punctuation.
NormalizeKey(key) == CASE key = "Raw_Body" -> "body" [] key = "TOKEN" -> "token" [] OTHER -> key

\* A path of keys that holds a forbidden one, a value that says where the project is
\* on this machine where such values could be, or a nesting nobody can follow.
ForbiddenField(field) ==
  \/ \E i \in DOMAIN field.path : NormalizeKey(field.path[i]) \in ForbiddenKeys
  \/ Len(field.path) > MaxDepth
  \/ field.value = "absolutePath" /\ Range(field.path) \intersect ValueScanned # {}

\* assertNoForbiddenEvidenceFields, of the snapshot and of each record.
AssertNoForbiddenFields(fields) == \A f \in fields : ~ForbiddenField(f)

-----------------------------------------------------------------------------
(* The capture. *)

InvalidCaptureInput(input) ==
  \/ input.blank
  \/ Len(input.requests) > MaxObservations
  \/ ~IsInjective([i \in DOMAIN input.requests |-> input.requests[i].id])

\* The first declaration of a source says what the capture includes of it.
IncludedScopeFor(requests, source) ==
  LET of(r) == r.source = source IN Head(SelectSeq(requests, of)).scope

CaptureFails(code) == [ok |-> FALSE, code |-> code, commits |-> <<>>]

\* The steps in their order; the commit is the last, and the only one that writes.
CaptureProject(world, input, kernelRefuses) ==
  LET run == RunObservations(world, input.requests)
      candidates == world.derived
      records == ReconcileEvidenceWithStore(MinimizeEvidence(candidates.evidence, input.observedAt), world.store)
  IN IF InvalidCaptureInput(input) THEN CaptureFails("invalidInput")
     ELSE IF "identity" \in kernelRefuses THEN CaptureFails("kernel")
     ELSE IF run.failed # "none" THEN CaptureFails(run.failed)
     ELSE IF "evidence" \in kernelRefuses THEN CaptureFails("kernel")
     ELSE IF UnknownReference(candidates.drafts, candidates.evidence) THEN CaptureFails("derivation")
     ELSE IF kernelRefuses # {} THEN CaptureFails("kernel")
     ELSE IF ~AssertNoForbiddenFields(candidates.fields) \/ \E i \in DOMAIN records : ~AssertNoForbiddenFields(records[i].fields)
     THEN CaptureFails("invalidInput")
     ELSE [ok |-> TRUE, coverage |-> run.coverage,
           commits |-> <<[records |-> records, fields |-> candidates.fields, items |-> run.items,
                          boundaries |-> [i \in DOMAIN run.coverage |->
                             [coverage |-> run.coverage[i],
                              scope |-> IncludedScopeFor(input.requests, run.coverage[i].source)]]]>>]
=============================================================================
