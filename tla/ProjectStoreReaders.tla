------------------------- MODULE ProjectStoreReaders -------------------------
(***************************************************************************)
(* A process that reads the store of module ProjectStore while others      *)
(* write it: verify, compare, timeline and export.  "Read paths never      *)
(* write, never lock" (store.ts), so every manifest and record they read   *)
(* is as it is at that moment, and several reads make one answer.          *)
(*                                                                         *)
(* Abstractions.                                                           *)
(*  - compare and timeline load each snapshot and then the evidence it     *)
(*    cites in a fixed order; here the order among records that are known  *)
(*    to be wanted is free.                                                *)
(*  - A timeline page is cut out of the pairs by the kernel (not here): a  *)
(*    timeline wants every snapshot of the chronology.                     *)
(*  - verify inside export, and verify on its own, read the same records.  *)
(*    A record that is there verifies: nothing damages files here.         *)
(***************************************************************************)
EXTENDS ProjectStore

CONSTANT MaxFaults   \* bound: crashes and failed file operations of writers

ASSUME MaxFaultsAssumption == MaxFaults \in Nat
(* The two kinds of identity have prefixes of their own.                   *)
ASSUME RecordsAssumption ==
  Snapshots \cap Evidence = {} /\ None \notin Evidence

VARIABLES
  stage,     \* where the reader is
  kind,      \* the operation it runs
  pair,      \* compare: the snapshots it compares, <<previous, current>>
  seen,      \* the manifest it read first
  chron,     \* the manifest it read second
  wanted,    \* the records it has still to load
  looked,    \* the record it has found in the manifest, about to be opened
  answer,    \* what the operation reports
  exported,  \* the temporary export directory: records, and a manifest
  published, \* the export at its destination
  disturbed, \* history: the memory was deleted during the operation
  overlapped,\* history: the manifest was replaced during the operation
  faults     \* how many faults there were

reader == <<stage, kind, pair, seen, chron, wanted, looked, answer, exported, published>>
history == <<disturbed, overlapped, faults>>
readerVars == <<vars, reader, history>>

Kinds == {"verify", "compare", "timeline", "export"}
Answers == {"none", "verified", "corrupt", "noPriorMemory", "insufficientHistory",
            "disagrees", "unreadable", "invalid", "compared", "derived", "exported"}
Records == Snapshots \cup Evidence
NoExport == [records |-> {}, manifest |-> NoManifest]

Listings(m) == Listed(m) \cup m.evidence

(* The file of record r exists.                                            *)
OnDisk(r) == IF r \in Snapshots THEN r \in snaps ELSE evs[r] # None

ReadersInit ==
  /\ Init
  /\ stage = "idle"
  /\ kind = "verify"
  /\ pair = << >>
  /\ seen = NoManifest
  /\ chron = NoManifest
  /\ wanted = {}
  /\ looked = None
  /\ answer = "none"
  /\ exported = NoExport
  /\ published = NoExport
  /\ disturbed = FALSE
  /\ overlapped = FALSE
  /\ faults = 0

(* The operation ends with an answer.                                      *)
Answer(a) ==
  /\ stage' = "answered"
  /\ answer' = a
  /\ wanted' = {}
  /\ looked' = None

(* An operation begins; a comparison may name the two snapshots.           *)
BeginRead(k, named) ==
  /\ stage = "idle"
  /\ named # << >> => k = "compare"
  /\ stage' = "manifest"
  /\ kind' = k
  /\ pair' = named
  /\ disturbed' = FALSE
  /\ overlapped' = FALSE
  /\ UNCHANGED <<vars, seen, chron, wanted, looked, answer, exported, published, faults>>

(* The answer has been given; the process ends.                            *)
EndRead ==
  /\ stage = "answered"
  /\ stage' = "idle"
  /\ kind' = "verify"
  /\ pair' = << >>
  /\ answer' = "none"
  /\ seen' = NoManifest
  /\ chron' = NoManifest
  /\ exported' = NoExport
  /\ published' = NoExport
  /\ disturbed' = FALSE
  /\ overlapped' = FALSE
  /\ UNCHANGED <<vars, wanted, looked, faults>>

(* The first read of the manifest.                                         *)
ReadFirst ==
  /\ stage = "manifest"
  /\ seen' = manifest
  /\ \/ /\ manifest = NoManifest
        /\ Answer(IF kind = "verify" THEN "verified"
                  ELSE IF kind = "export" THEN "unreadable" ELSE "noPriorMemory")
     \/ /\ manifest # NoManifest
        /\ kind \in {"verify", "export"}
        /\ stage' = "verify"
        /\ wanted' = Listings(manifest)
        /\ UNCHANGED <<looked, answer>>
     \/ /\ manifest # NoManifest
        /\ pair # << >>
        /\ IF {pair[1], pair[2]} \subseteq Listed(manifest)
           THEN /\ stage' = "look"
                /\ wanted' = {pair[1], pair[2]}
                /\ UNCHANGED <<looked, answer>>
           ELSE Answer("invalid")
     \/ /\ manifest # NoManifest
        /\ kind \in {"compare", "timeline"}
        /\ pair = << >>
        /\ stage' = "chronology"
        /\ UNCHANGED <<wanted, looked, answer>>
  /\ UNCHANGED <<vars, kind, pair, chron, exported, published, history>>

(* Mutant: the latest capture is compared with the first.                  *)
FirstAndLatest(m) == <<m.history[1], m.history[Len(m.history)]>>

(* selectPair: the last two captures of the chronology.                    *)
LatestPair(m) == <<m.history[Len(m.history) - 1], m.history[Len(m.history)]>>

(* Mutant: the latest pointer is compared with the oldest capture.         *)
AgreesWithOldest == manifest.history[1] = seen.history[Len(seen.history)]

(* The newest capture of the second read is the latest of the first.       *)
Agrees ==
  manifest.history[Len(manifest.history)] = seen.history[Len(seen.history)]

(* listSnapshots: the manifest is read again.  compare looks at the length *)
(* before it compares the two reads, timeline after it.                    *)
ReadChronology ==
  /\ stage = "chronology"
  /\ chron' = manifest
  /\ LET n == Len(manifest.history) IN
     \/ /\ n = 0 \/ (n = 1 /\ (kind = "compare" \/ Agrees))
        /\ Answer("insufficientHistory")
        /\ UNCHANGED pair
     \/ /\ n > 0
        /\ n > 1 \/ kind = "timeline"
        /\ ~ Agrees
        /\ Answer("disagrees")
        /\ UNCHANGED pair
     \/ /\ n > 1
        /\ Agrees
        /\ stage' = "look"
        /\ IF kind = "compare"
           THEN pair' = LatestPair(manifest) /\ wanted' = {pair'[1], pair'[2]}
           ELSE UNCHANGED pair /\ wanted' = Listed(manifest)
        /\ UNCHANGED <<looked, answer>>
  /\ UNCHANGED <<vars, kind, seen, exported, published, history>>

(* readSnapshot and readEvidence read the manifest and look the record up. *)
Look(r) ==
  /\ stage = "look"
  /\ r \in wanted
  /\ IF r \in Listings(manifest)
     THEN stage' = "open" /\ looked' = r /\ UNCHANGED <<wanted, answer>>
     ELSE Answer("unreadable")
  /\ UNCHANGED <<vars, kind, pair, seen, chron, exported, published, history>>

(* ... and open its file.  A snapshot leads to the evidence it cites.      *)
Open ==
  /\ stage = "open"
  /\ IF OnDisk(looked)
     THEN /\ stage' = "look"
          /\ wanted' = (wanted \ {looked})
                         \cup (IF looked \in Snapshots THEN Refs[looked] ELSE {})
          /\ looked' = None
          /\ UNCHANGED answer
     ELSE Answer("unreadable")
  /\ UNCHANGED <<vars, kind, pair, seen, chron, exported, published, history>>

AllLoaded ==
  /\ stage = "look"
  /\ wanted = {}
  /\ Answer(IF kind = "compare" THEN "compared" ELSE "derived")
  /\ UNCHANGED <<vars, kind, pair, seen, chron, exported, published, history>>

(* verify: each listed record is opened; a missing one is an issue, and    *)
(* the store as a whole does not verify.                                   *)
VerifyRecord(r) ==
  /\ stage = "verify"
  /\ r \in wanted
  /\ IF OnDisk(r)
     THEN wanted' = wanted \ {r} /\ UNCHANGED <<stage, looked, answer>>
     ELSE Answer("corrupt")
  /\ UNCHANGED <<vars, kind, pair, seen, chron, exported, published, history>>

AllVerified ==
  /\ stage = "verify"
  /\ wanted = {}
  /\ IF kind = "verify"
     THEN Answer("verified")
     ELSE stage' = "require" /\ UNCHANGED <<wanted, looked, answer>>
  /\ UNCHANGED <<vars, kind, pair, seen, chron, exported, published, history>>

(* exportProject, after verify: the manifest whose records it will copy is *)
(* read again, and the destination must be new.                            *)
RequireManifest(destinationExists) ==
  /\ stage = "require"
  /\ chron' = manifest
  /\ IF manifest = NoManifest
     THEN Answer("unreadable")
     ELSE IF destinationExists
     THEN Answer("invalid")
     ELSE stage' = "copy" /\ wanted' = Listings(manifest) /\ UNCHANGED <<looked, answer>>
  /\ UNCHANGED <<vars, kind, pair, seen, exported, published, history>>

CopyRecord(r) ==
  /\ stage = "copy"
  /\ r \in wanted
  /\ IF OnDisk(r)
     THEN /\ exported' = [exported EXCEPT !.records = @ \cup {r}]
          /\ wanted' = wanted \ {r}
          /\ UNCHANGED <<stage, looked, answer>>
     ELSE Answer("unreadable") /\ UNCHANGED exported
  /\ UNCHANGED <<vars, kind, pair, seen, chron, published, history>>

(* "Copy the verified manifest verbatim": the file as it is now.           *)
CopyManifest ==
  /\ stage = "copy"
  /\ wanted = {}
  /\ IF manifest = NoManifest
     THEN Answer("unreadable") /\ UNCHANGED exported
     ELSE /\ exported' = [exported EXCEPT !.manifest = manifest]
          /\ stage' = "publish"
          /\ UNCHANGED <<wanted, looked, answer>>
  /\ UNCHANGED <<vars, kind, pair, seen, chron, published, history>>

(* Mutant: the temporary directory is renamed before the copies are made.  *)
PublishEarly ==
  /\ stage \in {"copy", "publish"}
  /\ published' = [exported EXCEPT !.manifest = chron]
  /\ Answer("exported")
  /\ UNCHANGED <<vars, kind, pair, seen, chron, exported, history>>

(* The rename to the destination; the copied manifest parses.              *)
Publish ==
  /\ stage = "publish"
  /\ published' = exported
  /\ Answer("exported")
  /\ UNCHANGED <<vars, kind, pair, seen, chron, exported, history>>

(* A file operation of an export throws; the copies so far stay beside the *)
(* destination, and the next export removes them first.                    *)
ExportFails ==
  /\ stage \in {"copy", "publish"}
  /\ Answer("unreadable")
  /\ UNCHANGED <<vars, kind, pair, seen, chron, exported, published, history>>

ReaderStep ==
  \/ \E k \in Kinds : BeginRead(k, << >>)
  \/ \E s, t \in Snapshots : s # t /\ BeginRead("compare", <<s, t>>)
  \/ ReadFirst \/ ReadChronology \/ AllLoaded \/ AllVerified
  \/ \E r \in Records : Look(r) \/ VerifyRecord(r) \/ CopyRecord(r)
  \/ \E exists \in BOOLEAN : RequireManifest(exists)
  \/ Open \/ CopyManifest \/ Publish \/ ExportFails \/ EndRead

(* A step of a writer, and what the reader's history makes of it.          *)
WriterStep ==
  /\ \E p \in Procs :
       \/ /\ Capture(p) \/ LockStep(p) \/ CommitStep(p) \/ DeleteStep(p)
          /\ UNCHANGED faults
       \/ /\ faults < MaxFaults
          /\ faults' = faults + 1
          /\ Fault(p)
  /\ disturbed' = (disturbed \/ (manifest # NoManifest /\ manifest' = NoManifest))
  /\ overlapped' = (overlapped \/ manifest' # manifest)
  /\ UNCHANGED reader

ReadersNext == ReaderStep \/ WriterStep

ReadersSpec == ReadersInit /\ [][ReadersNext]_readerVars

-----------------------------------------------------------------------------
ReadersTypeOK ==
  /\ stage \in {"idle", "answered", "manifest", "chronology", "look", "open", "verify",
                "require", "copy", "publish"}
  /\ kind \in Kinds
  /\ pair \in {<< >>} \cup (Snapshots \X Snapshots)
  /\ {seen, chron} \subseteq Manifest
  /\ wanted \in SUBSET Records
  /\ looked \in Records \cup {None}
  /\ answer \in Answers
  /\ exported \in [records : SUBSET Records, manifest : Manifest]
  /\ published \in [records : SUBSET Records, manifest : Manifest]
  /\ {disturbed, overlapped} \subseteq BOOLEAN

(* Commits that run meanwhile never make a read fail: a reader without a   *)
(* lock meets a missing record, or an entry gone from the manifest, only   *)
(* when the memory is deleted under it (or its export cannot be written).  *)
ReadersFindTheirRecords ==
  /\ ReadersTypeOK
  /\ answer = "corrupt" \/ (answer = "unreadable" /\ kind # "export") => disturbed

(* What compare reports as the latest change is a capture and the one      *)
(* committed just before it, still so when the answer is given, although   *)
(* the pair was put together from two reads of the manifest.               *)
ComparedAreNeighbours ==
  answer = "compared" /\ chron # NoManifest /\ ~ disturbed =>
    \E i \in 2 .. Len(manifest.history) :
      pair = <<manifest.history[i - 1], manifest.history[i]>>

(* A default comparison that is refused because the two reads disagree met *)
(* a commit or a deletion; a quiet store is never reported inconsistent.   *)
DisagreementsAreRaces == answer = "disagrees" => overlapped

(* "memory export produces a complete, re-readable copy"                   *)
(* (docs/v0.3/acceptance-gates.md): every record the exported manifest     *)
(* lists is in the export.                                                 *)
ExportComplete == Listings(published.manifest) \subseteq published.records

(* So it is unless a commit was finished while the export ran; and even    *)
(* then every record that was there when the export began is copied, and   *)
(* nothing is copied that is not committed.                                *)
ExportHoldsWhatItVerified ==
  /\ answer = "exported" /\ ~ overlapped => ExportComplete
  /\ answer = "exported" /\ ~ disturbed =>
       /\ Listings(seen) \subseteq published.records
       /\ published.records \subseteq Listings(published.manifest)

-----------------------------------------------------------------------------
(* The invariant behind these properties, beside the one of the store.  As *)
(* long as the memory is not deleted, a manifest only grows, ...           *)
Grown(m, n) ==
  /\ Len(m.history) <= Len(n.history)
  /\ \A i \in 1 .. Len(m.history) : n.history[i] = m.history[i]
  /\ m.evidence \subseteq n.evidence

GrowthInv ==
  ~ disturbed => Grown(seen, manifest) /\ Grown(chron, manifest)

(* ... and one that was not replaced is the one that was read, ...         *)
Exporting == stage \in {"copy", "publish"} \/ answer = "exported"

StillInv == ~ overlapped =>
  /\ stage \notin {"idle", "manifest", "answered"} => seen = manifest
  /\ Exporting => chron = manifest
  /\ stage = "publish" \/ answer = "exported" => exported.manifest = manifest

(* ... so that what is wanted stays listed ...                             *)
WantedInv == ~ disturbed =>
  /\ stage \in {"verify", "look", "open", "copy"} => wanted \subseteq Listings(manifest)
  /\ stage = "open" => looked \in Listings(manifest)

(* ... and the pair that compare chose stays one of neighbours.            *)
PairInv ==
  /\ kind = "compare" /\ chron # NoManifest /\ ~ disturbed
  /\ stage \in {"look", "open"} \/ answer = "compared"
  => \E i \in 2 .. Len(manifest.history) :
       pair = <<manifest.history[i - 1], manifest.history[i]>>

(* What an export holds so far is what the manifest it copies lists.       *)
CopyInv ==
  /\ stage \notin {"copy", "publish", "answered"} => exported = NoExport
  /\ stage = "copy" => Listings(chron) = exported.records \cup wanted
  /\ stage = "publish" \/ answer = "exported" => Listings(chron) = exported.records
  /\ answer = "exported" => published = exported
  /\ ~ disturbed /\ Exporting => Listings(seen) \subseteq Listings(chron)
  /\ ~ disturbed /\ (stage = "publish" \/ answer = "exported") =>
       Listings(chron) \subseteq Listings(exported.manifest)

(* Where the reader is says what it does.                                  *)
StageInv ==
  /\ stage # "answered" => answer = "none"
  /\ stage \in {"idle", "manifest"} => seen = NoManifest
  /\ stage \in {"idle", "manifest", "chronology"} => chron = NoManifest
  /\ stage = "idle" => pair = << >>
  /\ pair # << >> => kind = "compare"
  /\ stage \in {"chronology", "look", "open"} \/ answer = "compared" =>
       kind \in {"compare", "timeline"}
  /\ answer = "compared" => kind = "compare"
  /\ stage = "verify" => kind \in {"verify", "export"}
  /\ stage \in {"require", "copy", "publish"} => kind = "export"

ReadersInv ==
  /\ ReadersTypeOK
  /\ StageInv
  /\ GrowthInv
  /\ StillInv
  /\ WantedInv
  /\ PairInv
  /\ CopyInv
  /\ ReadersFindTheirRecords
  /\ DisagreementsAreRaces
=============================================================================
