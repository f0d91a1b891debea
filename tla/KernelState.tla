----------------------------- MODULE KernelState -----------------------------
(***************************************************************************)
(* Normalization, fingerprints and identities of the kernel                *)
(* (projectbrain/normalize.rs, canonical.rs, fingerprint.rs and            *)
(* identifiers.rs of the crate).                                           *)
(*                                                                         *)
(* A text is a sequence of symbols.  The symbols that matter are the       *)
(* whitespace, the separators of a key and the letters that have a lower   *)
(* case; a path is the sequence of its segments.  SHA-256 over a canonical *)
(* serialization is taken to be injective: a fingerprint is the value that *)
(* was serialized, under the name of its domain.                           *)
(***************************************************************************)
EXTENDS Integers, Sequences, FiniteSets, SequencesExt, FiniteSetsExt

CONSTANTS MaxItems,        \* MAX_ITEMS_PER_COLLECTION
          MaxEntries,      \* MAX_METADATA_ENTRIES
          MaxRefs          \* MAX_EVIDENCE_REFS_PER_ITEM

Failed(code) == [error |-> code]
Fails(x) == "error" \in DOMAIN x
None == <<>>             \* an optional text that is absent

-----------------------------------------------------------------------------
(* Texts. *)

Whitespace == {" ", "\n"}
Separators == {"_", "-", " ", "."}
LowerOf(c) == CASE c = "A" -> "a" [] c = "Token" -> "token" [] OTHER -> c

\* Whitespace goes at the ends and is one space inside.
NormalizeDisplayText(text) ==
  LET visible(i) == text[i] \notin Whitespace
      kept(i) == \/ visible(i)
                 \/ i < Len(text) /\ visible(i + 1) /\ \E j \in 1..i : visible(j)
      at == SelectSeq([i \in DOMAIN text |-> i], kept)
  IN [n \in DOMAIN at |-> IF visible(at[n]) THEN text[at[n]] ELSE " "]

NormalizeLabel(text) ==
  LET shown == NormalizeDisplayText(text) IN [n \in DOMAIN shown |-> LowerOf(shown[n])]

NormalizeId(text) ==
  LET visible == {i \in DOMAIN text : text[i] \notin Whitespace}
  IN IF visible = {} THEN None ELSE SubSeq(text, Min(visible), Max(visible))

\* A line break inside an id is a control character.
IdInvalid(text) == NormalizeId(text) = None \/ "\n" \in Range(NormalizeId(text))

\* The lines of a content: no trailing whitespace, no blank line at an end.
CanonicalContent(lines) ==
  LET ink(line) == {i \in DOMAIN line : line[i] \notin Whitespace}
      stripped == [n \in DOMAIN lines |->
                     IF ink(lines[n]) = {} THEN <<>> ELSE SubSeq(lines[n], 1, Max(ink(lines[n])))]
      full == {n \in DOMAIN stripped : stripped[n] # <<>>}
  IN IF full = {} THEN <<>> ELSE SubSeq(stripped, Min(full), Max(full))

FingerprintMinimizedContent(lines) == <<"evidence-content", CanonicalContent(lines)>>

\* The separators of a key do not hide a forbidden name.
KeyStem(key) == LET letter(c) == c \notin Separators IN SelectSeq(key, letter)
ForbiddenStems == {<<"token">>, <<"secret">>}     \* stands for FORBIDDEN_KEY_STEMS

\* A map is a set of pairs of texts; a key's case and spaces do not tell it apart.
NormalizeStringMap(map) ==
  LET entry(e) == [key |-> NormalizeLabel(e.key), value |-> NormalizeDisplayText(e.value)]
      keys == {NormalizeLabel(e.key) : e \in map}
  IN IF Cardinality(map) > MaxEntries THEN Failed("limitExceeded")
     ELSE IF None \in keys THEN Failed("invalidField")
     ELSE IF \E k \in keys : KeyStem(k) \in ForbiddenStems THEN Failed("unsupportedValue")
     ELSE IF Cardinality(keys) < Cardinality(map) THEN Failed("duplicate")
     ELSE [map |-> {entry(e) : e \in map}]

\* The counts of a status summary are kept; its keys are labels, and not guarded.
NormalizeIntMap(map) ==
  LET keys == {NormalizeLabel(e.key) : e \in map}
  IN IF Cardinality(map) > MaxEntries THEN Failed("limitExceeded")
     ELSE IF None \in keys THEN Failed("invalidField")
     ELSE IF Cardinality(keys) < Cardinality(map) THEN Failed("duplicate")
     ELSE [map |-> {[key |-> NormalizeLabel(e.key), value |-> e.value] : e \in map}]

-----------------------------------------------------------------------------
(* Source identities: segments, the empty one for every doubled, leading or
   trailing separator. *)

IsAbsolutePathlike(path) ==
  /\ Len(path) > 1
  /\ \/ path[1] \in {"", "C:"}
     \/ path[1] = "file:" /\ path[2] = ""

\* The leading "." segments a separator follows.
DotsToStrip(path) ==
  LET named == {i \in DOMAIN path : path[i] \notin {"", "."}}
      last == IF named # {} THEN Min(named) ELSE IF Last(path) = "." THEN Len(path) ELSE Len(path) + 1
  IN last - 1

NormalizeSourceIdentity(path) ==
  LET nonEmpty(s) == s # ""
      kept == SelectSeq(SubSeq(path, DotsToStrip(path) + 1, Len(path)), nonEmpty)
  IN IF path = <<"">> THEN Failed("invalidField")
     ELSE IF IsAbsolutePathlike(path) THEN Failed("unsupportedValue")
     ELSE IF ".." \in Range(path) THEN Failed("unsupportedValue")
     ELSE IF kept = <<>> THEN Failed("invalidField")
     ELSE [path |-> kept]

-----------------------------------------------------------------------------
(* Evidence. *)

ValidateEvidenceRecord(record) ==
  IF Fails(NormalizeSourceIdentity(record.source)) THEN NormalizeSourceIdentity(record.source).error
  ELSE IF Fails(NormalizeStringMap(record.provenance)) THEN NormalizeStringMap(record.provenance).error
  ELSE IF record.policy # "notStored" /\ record.content = None THEN "invalidField" ELSE "none"

\* The content names the evidence; only evidence without one is named by its
\* time, which then has to be one (0 is none).
DeriveEvidenceId(record) ==
  IF ValidateEvidenceRecord(record) # "none" THEN Failed(ValidateEvidenceRecord(record))
  ELSE IF record.content = None /\ record.observedAt = 0 THEN Failed("invalidTime")
  ELSE [id |-> <<"evidence-id", NormalizeId(record.project), record.kind, NormalizeSourceIdentity(record.source).path,
                 record.content, IF record.content = None THEN record.observedAt ELSE 0>>]

-----------------------------------------------------------------------------
(* States.  `collections' maps the kinds that have a collection to sequences
   of items; of an item's optional fields one label, the due date and the
   metadata stay, the others being normalized as one of these is. *)

KindRank == <<"milestone", "task", "risk", "decision", "dependency", "blocker">>

NormalizeEvidenceRefs(refs) == {NormalizeId(r) : r \in Range(refs)}

ItemError(item, kind) ==
  IF item.kind # kind THEN "unsupportedValue"
  ELSE IF IdInvalid(item.id) \/ NormalizeDisplayText(item.title) = None THEN "invalidField"
  ELSE IF Len(item.refs) > MaxRefs THEN "limitExceeded"
  ELSE IF item.due = "bad" THEN "invalidTime"
  ELSE IF Fails(NormalizeStringMap(item.metadata)) THEN NormalizeStringMap(item.metadata).error ELSE "none"

NormalizeItem(item) ==
  [kind |-> item.kind, id |-> NormalizeId(item.id), title |-> NormalizeDisplayText(item.title),
   refs |-> NormalizeEvidenceRefs(item.refs), status |-> NormalizeLabel(item.status),
   due |-> IF item.due = "blank" THEN "none" ELSE item.due,
   metadata |-> NormalizeStringMap(item.metadata).map]

\* Sorted by (kind, id, title), and a duplicate is an error: the order is the set's own.
SortCollection(items) == {NormalizeItem(item) : item \in Range(items)}

CollectionError(state, kind) ==
  LET items == state.collections[kind]
      wrong == {i \in DOMAIN items : ItemError(items[i], kind) # "none"}
      ids == {NormalizeId(items[i].id) : i \in DOMAIN items}
  IN IF Len(items) > MaxItems THEN "limitExceeded"
     ELSE IF wrong # {} THEN ItemError(items[Min(wrong)], kind)
     ELSE IF Cardinality(ids) < Len(items) THEN "duplicate" ELSE "none"

NormalizeFreshness(gaps) == {NormalizeDisplayText(g) : g \in gaps} \ {None}

SourceOf(source) == [kind |-> source.kind, identity |-> NormalizeSourceIdentity(source.identity).path]

StateError(state) ==
  LET bad == {i \in DOMAIN state.sources : Fails(NormalizeSourceIdentity(state.sources[i].identity))}
      ranks == {r \in DOMAIN KindRank : /\ KindRank[r] \in DOMAIN state.collections
                                        /\ CollectionError(state, KindRank[r]) # "none"}
  IN IF IdInvalid(state.project) THEN "invalidField"
     ELSE IF bad # {} THEN NormalizeSourceIdentity(state.sources[Min(bad)].identity).error
     ELSE IF Cardinality({SourceOf(s) : s \in Range(state.sources)}) < Len(state.sources) THEN "duplicate"
     ELSE IF Fails(NormalizeIntMap(state.summary)) THEN NormalizeIntMap(state.summary).error
     ELSE IF ranks # {} THEN CollectionError(state, KindRank[Min(ranks)]) ELSE "none"

NormalizeProjectState(state) ==
  [project |-> NormalizeId(state.project),
   sources |-> {SourceOf(s) : s \in Range(state.sources)},
   summary |-> NormalizeIntMap(state.summary).map,
   collections |-> [k \in DOMAIN state.collections |-> SortCollection(state.collections[k])],
   refs |-> NormalizeEvidenceRefs(state.refs),
   observedAt |-> state.observedAt,
   gaps |-> NormalizeFreshness(state.gaps)]

\* Mutant: the fingerprint covers the time of the observation too.
StateProjectionTimed(state) ==
  <<state.project, state.sources, state.summary, state.collections, state.refs, state.observedAt>>

\* What a state's fingerprint covers: neither its time nor its freshness.
StateProjection(state) ==
  <<state.project, state.sources, state.summary, state.collections, state.refs>>

FinalizeProjectState(state) ==
  IF StateError(state) # "none" THEN Failed(StateError(state))
  ELSE [state |-> NormalizeProjectState(state),
        fingerprint |-> <<"project-state", StateProjection(NormalizeProjectState(state))>>]

-----------------------------------------------------------------------------
(* Snapshots: a state, the boundaries of its sources, and the capture's time. *)

BoundaryOf(b) == [identity |-> NormalizeSourceIdentity(b.identity).path,
                  scope |-> NormalizeDisplayText(b.scope), coverage |-> b.coverage]

BoundaryError(b) ==
  IF Fails(NormalizeSourceIdentity(b.identity)) THEN NormalizeSourceIdentity(b.identity).error
  ELSE IF NormalizeDisplayText(b.scope) = None THEN "invalidField" ELSE "none"

SnapshotError(snapshot) ==
  LET bs == Range(snapshot.boundaries)
      wrong == {i \in DOMAIN snapshot.boundaries : BoundaryError(snapshot.boundaries[i]) # "none"}
  IN IF StateError(snapshot.state) # "none" THEN StateError(snapshot.state)
     ELSE IF NormalizeId(snapshot.state.project) # NormalizeId(snapshot.project) THEN "mismatch"
     ELSE IF wrong # {} THEN BoundaryError(snapshot.boundaries[Min(wrong)])
     ELSE IF Cardinality({<<BoundaryOf(b).identity, BoundaryOf(b).scope>> : b \in bs})
               < Len(snapshot.boundaries) THEN "duplicate" ELSE "none"

SnapshotProjection(snapshot) ==
  <<NormalizeId(snapshot.project), snapshot.capturedAt, {BoundaryOf(b) : b \in Range(snapshot.boundaries)},
    FinalizeProjectState(snapshot.state).fingerprint, NormalizeEvidenceRefs(snapshot.refs)>>

\* A snapshot's id is the hash of its fingerprint.
FinalizeProjectSnapshot(snapshot) ==
  IF SnapshotError(snapshot) # "none" THEN Failed(SnapshotError(snapshot))
  ELSE [id |-> <<"project-snapshot", SnapshotProjection(snapshot)>>]

\* Every reference of a snapshot, its state and its items is in the evidence given.
AssertEvidencePresent(snapshot, available) ==
  LET state == NormalizeProjectState(snapshot.state)
  IN (UNION {UNION {i.refs : i \in state.collections[k]} : k \in DOMAIN state.collections})
       \union state.refs \union NormalizeEvidenceRefs(snapshot.refs) \subseteq available

\* An explicit id wins; a derived one needs both a root token and a salt.
ResolveProjectIdentity(seed) ==
  IF seed.explicit # "absent" THEN IF seed.explicit = "" THEN Failed("invalidField") ELSE [id |-> <<seed.explicit>>]
  ELSE IF {seed.rootToken, seed.salt} \intersect {"absent", ""} # {} THEN Failed("invalidField")
  ELSE [id |-> <<"project-identity", seed.rootToken, seed.salt>>]
=============================================================================
