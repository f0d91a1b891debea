----------------------------- MODULE AtomicWrite -----------------------------
(***************************************************************************)
(* performAtomicWrite: create a temp file, write, flush, close, rename it  *)
(* over the target, sync the directory.  The rename is the commit point.   *)
(*                                                                         *)
(* A process may die between any two of these steps, an operation may      *)
(* fail, and the machine may lose power: what was written but not flushed  *)
(* is then torn, and of the renames since the last directory sync any may  *)
(* be the last that reached the disk.                                      *)
(*                                                                         *)
(* Every write has a value of its own, so that a value names its write.    *)
(***************************************************************************)
EXTENDS FiniteSets

CONSTANTS
  Writers,   \* processes that write the same target
  Values,    \* contents
  DirSync,   \* does the platform sync directories?
  Torn,      \* a file that was created but not, or only partly, written
  NoFile

ASSUME DirSyncAssumption == DirSync \in BOOLEAN
ASSUME ContentAssumption == Torn \notin Values

VARIABLES
  target,    \* the target as processes see it
  entries,   \* what the target may be after a loss of power
  tmp,       \* each writer's temp file (its name holds operation id and pid)
  pc, val,   \* where each writer is, and what it writes
  crashed,   \* the writers that died in their last write
  used,      \* the values written so far
  failed,    \* history: values whose write was reported to have failed
  past,      \* history: what the target was before the rename of val[w]
  replaced   \* history: what the writes that were reported done replaced

vars == <<target, entries, tmp, pc, val, crashed, used, failed, past, replaced>>

File == [data : Values \cup {Torn}, synced : BOOLEAN]

ASSUME NoFileAssumption == NoFile \notin File

Stages == {"idle", "create", "write", "flush", "rename", "cleanup", "syncDir"}

Init ==
  /\ target = NoFile
  /\ entries = {NoFile}
  /\ tmp = [w \in Writers |-> NoFile]
  /\ pc = [w \in Writers |-> "idle"]
  /\ val = [w \in Writers |-> Torn]
  /\ crashed = {}
  /\ used = {}
  /\ failed = {}
  /\ past = [w \in Writers |-> {}]
  /\ replaced = {}

Goto(w, from, to) ==
  /\ pc[w] = from
  /\ pc' = [pc EXCEPT ![w] = to]

SetTemp(w, f) == tmp' = [tmp EXCEPT ![w] = f]

Begin(w, v) ==
  /\ Goto(w, "idle", "create")
  /\ v \notin used
  /\ used' = used \cup {v}
  /\ val' = [val EXCEPT ![w] = v]
  /\ UNCHANGED <<target, entries, tmp, crashed, failed, past, replaced>>

CreateTemp(w) ==
  /\ Goto(w, "create", "write")
  /\ SetTemp(w, [data |-> Torn, synced |-> FALSE])
  /\ crashed' = crashed \ {w}
  /\ UNCHANGED <<target, entries, val, used, failed, past, replaced>>

WriteTemp(w) ==
  /\ Goto(w, "write", "flush")
  /\ SetTemp(w, [data |-> val[w], synced |-> FALSE])
  /\ UNCHANGED <<target, entries, val, crashed, used, failed, past, replaced>>

(* Mutant: the temp file is renamed unflushed.                             *)
FlushForgotten(w) ==
  /\ Goto(w, "flush", "rename")
  /\ UNCHANGED <<target, entries, tmp, val, crashed, used, failed, past, replaced>>

(* flush and close                                                         *)
FlushTemp(w) ==
  /\ Goto(w, "flush", "rename")
  /\ SetTemp(w, [data |-> tmp[w].data, synced |-> TRUE])
  /\ UNCHANGED <<target, entries, val, crashed, used, failed, past, replaced>>

Rename(w) ==
  /\ Goto(w, "rename", "syncDir")
  /\ target' = tmp[w]
  /\ entries' = entries \cup {tmp[w]}
  /\ past' = [past EXCEPT ![w] = entries]
  /\ SetTemp(w, NoFile)
  /\ UNCHANGED <<val, crashed, used, failed, replaced>>

(* Mutant: the directory is not synced.                                    *)
SyncForgotten(w) ==
  /\ Goto(w, "syncDir", "idle")
  /\ replaced' = replaced \cup past[w]
  /\ UNCHANGED <<target, entries, tmp, val, crashed, used, failed, past>>

(* Best effort; an error is swallowed.  The write is reported done.        *)
SyncDirectory(w) ==
  /\ Goto(w, "syncDir", "idle")
  /\ entries' = IF DirSync THEN {target} ELSE entries
  /\ replaced' = replaced \cup past[w]
  /\ UNCHANGED <<target, tmp, val, crashed, used, failed, past>>

(* createTemp throws: there is nothing to clean up.                        *)
CreateFails(w) ==
  /\ Goto(w, "create", "idle")
  /\ failed' = failed \cup {val[w]}
  /\ UNCHANGED <<target, entries, tmp, val, crashed, used, past, replaced>>

(* Mutant: only a failed rename is cleaned up after.                       *)
FailCleansRenameOnly(w) ==
  /\ \/ Goto(w, "write", "idle")
     \/ Goto(w, "flush", "idle")
     \/ Goto(w, "rename", "cleanup")
  /\ UNCHANGED <<target, entries, tmp, val, crashed, used, failed, past, replaced>>

(* A later step throws before the rename has happened.                     *)
Fail(w) ==
  /\ \/ Goto(w, "write", "cleanup")
     \/ Goto(w, "flush", "cleanup")
     \/ Goto(w, "rename", "cleanup")
  /\ UNCHANGED <<target, entries, tmp, val, crashed, used, failed, past, replaced>>

CleanUp(w) ==
  /\ Goto(w, "cleanup", "idle")
  /\ SetTemp(w, NoFile)
  /\ failed' = failed \cup {val[w]}
  /\ UNCHANGED <<target, entries, val, crashed, used, past, replaced>>

Crash(w) ==
  /\ pc[w] # "idle"
  /\ pc' = [pc EXCEPT ![w] = "idle"]
  /\ crashed' = crashed \cup {w}
  /\ UNCHANGED <<target, entries, tmp, val, used, failed, past, replaced>>

OnDisk(f) == IF f = NoFile \/ f.synced THEN f ELSE [data |-> Torn, synced |-> TRUE]

PowerLoss ==
  /\ \E f \in entries :
       /\ target' = OnDisk(f)
       /\ entries' = {OnDisk(f)}
  /\ tmp' = [w \in Writers |-> IF tmp[w] = NoFile THEN NoFile ELSE OnDisk(tmp[w])]
  /\ pc' = [w \in Writers |-> "idle"]
  /\ crashed' = Writers
  /\ UNCHANGED <<val, used, failed, past, replaced>>

Next == PowerLoss \/ \E w \in Writers :
  \/ \E v \in Values : Begin(w, v)
  \/ CreateTemp(w) \/ WriteTemp(w) \/ FlushTemp(w) \/ Rename(w) \/ SyncDirectory(w)
  \/ CreateFails(w) \/ Fail(w) \/ CleanUp(w) \/ Crash(w)

Spec == Init /\ [][Next]_vars

-----------------------------------------------------------------------------
TypeOK ==
  /\ target \in File \cup {NoFile}
  /\ entries \in SUBSET (File \cup {NoFile})
  /\ tmp \in [Writers -> File \cup {NoFile}]
  /\ pc \in [Writers -> Stages]
  /\ val \in [Writers -> Values \cup {Torn}]
  /\ crashed \in SUBSET Writers
  /\ used \in SUBSET Values
  /\ failed \in SUBSET (Values \cup {Torn})
  /\ past \in [Writers -> SUBSET (File \cup {NoFile})]
  /\ replaced \in SUBSET (File \cup {NoFile})

Whole(f) == f = NoFile \/ (f.data # Torn /\ f.synced)

(* "No stage can produce a partially-written authoritative file"           *)
(* (atomic-write.ts), after a loss of power either.                        *)
NeverTorn == Whole(target) /\ \A f \in entries : Whole(f)

(* A write that was reported to fail never shows, now or after a loss of   *)
(* power.                                                                  *)
FailedStaysInvisible ==
  \A f \in entries \cup {target} : f # NoFile => f.data \notin failed

(* Where directories are synced, a write that was reported done is not     *)
(* undone by a loss of power: nothing it replaced comes back.              *)
DoneStaysDone == DirSync => entries \cap replaced = {}

(* What a caller was told of its write holds, a loss of power or not.      *)
ReportsAreTrue == TypeOK /\ FailedStaysInvisible /\ DoneStaysDone

(* A failed write leaves no temp file, at whatever step it failed; only a  *)
(* writer that died leaves one.                                            *)
FailureLeavesNoTemp ==
  \A w \in Writers : pc[w] = "idle" /\ w \notin crashed => tmp[w] = NoFile

-----------------------------------------------------------------------------
(* Why they hold.  A writer under way has a value of its own that nobody   *)
(* has seen, ...                                                           *)
BeforeRename == {"create", "write", "flush", "rename", "cleanup"}

ValueInv ==
  /\ failed \subseteq used
  /\ \A w \in Writers : pc[w] # "idle" => val[w] \in used
  /\ \A w, x \in Writers :
       w # x /\ pc[w] # "idle" /\ pc[x] # "idle" => val[w] # val[x]
  /\ \A w \in Writers : pc[w] # "idle" => val[w] \notin failed

Files == {target} \cup entries \cup replaced \cup UNION {past[w] : w \in Writers}

SeenInv ==
  \A f \in Files : f # NoFile =>
    /\ f.data \in used
    /\ \A w \in Writers : pc[w] \in BeforeRename => f.data # val[w]

(* ... its temp file holds that value, flushed, before it is renamed, ...  *)
TempInv ==
  \A w \in Writers :
    /\ pc[w] = "flush" => tmp[w] = [data |-> val[w], synced |-> FALSE]
    /\ pc[w] = "rename" => tmp[w] = [data |-> val[w], synced |-> TRUE]
    /\ pc[w] = "syncDir" => tmp[w] = NoFile
    /\ pc[w] \in {"idle", "create"} /\ w \notin crashed => tmp[w] = NoFile

(* ... and what is on the disk is whole, reported to nobody as failed, and *)
(* not what a rename has replaced.                                         *)
TargetInv ==
  /\ target \in entries
  /\ \A f \in entries : Whole(f) /\ (f # NoFile => f.data \notin failed)
  /\ DoneStaysDone
  /\ \A w \in Writers : pc[w] = "syncDir" => target \notin past[w]

IInv == TypeOK /\ ValueInv /\ SeenInv /\ TempInv /\ TargetInv
=============================================================================
