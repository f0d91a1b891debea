------------------------------ MODULE StoreLock ------------------------------
(***************************************************************************)
(* The project lock: one lock file per project, created with open("wx"),   *)
(* its record (owner pid, creation time) written afterwards, and removed   *)
(* by path.  A lock is reclaimed when it is old and its owner is dead.     *)
(*                                                                         *)
(* A process is named by its pid; a pid may be given to a new process once *)
(* the old one has ended.  Every command reads its reference clock once,   *)
(* when it starts: lag[p] is the time that has passed since, and a lock is *)
(* as old as the command that created it.  Time beyond what any comparison *)
(* can tell apart is not counted.                                          *)
(*                                                                         *)
(* creator, informed and raced are history variables: no process reads     *)
(* them.  They tell one lock file from the next of the same name.          *)
(***************************************************************************)
EXTENDS Naturals, FiniteSets

CONSTANTS
  Procs,       \* pids
  Threshold,   \* STALE_LOCK_THRESHOLD_MS
  MaxLag,      \* bound: how long a command runs
  MaxFaults,   \* bound: crashes and failed writes
  PidReuse,    \* may the pid in the lock file belong to a new process?
  Nobody, NoFile,
  TornLock     \* the owner of a lock file without its record

ASSUME ProcsAssumption ==
  /\ {Nobody, NoFile, TornLock} \cap Procs = {}
  /\ Nobody # NoFile /\ TornLock \notin {Nobody, NoFile}
ASSUME TimeAssumption == Threshold \in Nat /\ MaxLag \in Nat /\ MaxFaults \in Nat
ASSUME ReuseAssumption == PidReuse \in BOOLEAN

VARIABLES
  file,      \* the lock file
  pc,        \* where each process is; "gone": not running
  lag,       \* time since each process read its clock
  seen,      \* what a process read in the lock file: its owner, and is it old
  faults,
  creator,   \* the running process that created the present lock file
  informed,  \* the processes whose seen[p] is about the present lock file
  raced      \* a process removed a lock file it had neither read nor created

vars == <<file, pc, lag, seen, faults, creator, informed, raced>>

MaxAge == Threshold + MaxLag + 1

(* A lock file without its record is one whose creator has not written it  *)
(* yet, or never will.                                                     *)
Record == [whole : BOOLEAN, owner : Procs, age : 0 .. MaxAge]
NotSeen == [owner |-> Nobody, old |-> FALSE]
Stages == {"gone", "create", "write", "read", "retry", "judge", "remove",
           "recreate", "holding"}

ASSUME NoFileAssumption == NoFile \notin Record

Init ==
  /\ file = NoFile
  /\ pc = [p \in Procs |-> "gone"]
  /\ lag = [p \in Procs |-> 0]
  /\ seen = [p \in Procs |-> NotSeen]
  /\ faults = 0
  /\ creator = Nobody
  /\ informed = {}
  /\ raced = FALSE

Goto(p, to) == pc' = [pc EXCEPT ![p] = to]

(* The process ends; nothing of it is left but the lock file.              *)
End(p) ==
  /\ Goto(p, "gone")
  /\ seen' = [seen EXCEPT ![p] = NotSeen]
  /\ lag' = [lag EXCEPT ![p] = 0]

Removed ==
  /\ file' = NoFile
  /\ creator' = Nobody
  /\ informed' = {}

(* The lock file has the pid p in it.                                      *)
Named(p) == file # NoFile /\ file.owner = p

(* A command starts and comes to acquireLock.                              *)
Begin(p) ==
  /\ pc[p] = "gone"
  /\ Named(p) => PidReuse
  /\ Goto(p, "create")
  /\ UNCHANGED <<file, lag, seen, faults, creator, informed, raced>>

(* Mutant: the lock file is opened without "x".                            *)
CreateOver(p) ==
  /\ pc[p] \in {"create", "retry", "recreate"}
  /\ file' = [whole |-> FALSE, owner |-> p, age |-> lag[p]]
  /\ creator' = p
  /\ informed' = {}
  /\ Goto(p, "write")
  /\ UNCHANGED <<lag, seen, faults, raced>>

(* open("wx") succeeds, in any of the (at most two) attempts.              *)
Create(p) ==
  /\ pc[p] \in {"create", "retry", "recreate"}
  /\ file = NoFile
  /\ file' = [whole |-> FALSE, owner |-> p, age |-> lag[p]]
  /\ creator' = p
  /\ informed' = {}
  /\ Goto(p, "write")
  /\ UNCHANGED <<lag, seen, faults, raced>>

(* ... and the record is written and synced: the lock is held.  The write  *)
(* goes to the file that was opened, even if its name is gone.             *)
Write(p) ==
  /\ pc[p] = "write"
  /\ file' = IF creator = p THEN [file EXCEPT !.whole = TRUE] ELSE file
  /\ Goto(p, "holding")
  /\ UNCHANGED <<lag, seen, faults, creator, informed, raced>>

(* open("wx") finds a file: the first attempt goes on to read it, a second *)
(* one gives up (storeLocked).                                             *)
Exists(p) ==
  /\ file # NoFile
  /\ \/ pc[p] = "create" /\ Goto(p, "read") /\ UNCHANGED <<seen, lag>>
     \/ pc[p] \in {"retry", "recreate"} /\ End(p)
  /\ UNCHANGED <<file, faults, creator, informed, raced>>

ReadGone(p) ==
  /\ pc[p] = "read"
  /\ file = NoFile
  /\ Goto(p, "retry")
  /\ UNCHANGED <<file, lag, seen, faults, creator, informed, raced>>

(* A record that does not parse is not judged: storeLocked.                *)
ReadTorn(p) ==
  /\ pc[p] = "read"
  /\ file # NoFile
  /\ ~ file.whole
  /\ End(p)
  /\ UNCHANGED <<file, faults, creator, informed, raced>>

(* Both times are the reference clocks of the two commands.                *)
Read(p) ==
  /\ pc[p] = "read"
  /\ file # NoFile
  /\ file.whole
  /\ seen' = [seen EXCEPT ![p] =
       [owner |-> file.owner, old |-> file.age > lag[p] + Threshold]]
  /\ informed' = informed \cup {p}
  /\ Goto(p, "judge")
  /\ UNCHANGED <<file, lag, faults, creator, raced>>

IsProcessAlive(q) == pc[q] # "gone"

(* Mutant: age alone makes a lock stale.                                   *)
StaleByAge(p) == seen[p].old

(* Mutant: the comparison of ages is reversed.                             *)
StaleWhileYoung(p) == ~ seen[p].old /\ ~ IsProcessAlive(seen[p].owner)

Stale(p) == seen[p].old /\ ~ IsProcessAlive(seen[p].owner)

Judge(p) ==
  /\ pc[p] = "judge"
  /\ IF Stale(p)
     THEN Goto(p, "remove") /\ UNCHANGED <<seen, lag>>
     ELSE End(p)
  /\ UNCHANGED <<file, faults, creator, informed, raced>>

(* removeLock: whatever has that name now is removed.                      *)
Remove(p) ==
  /\ pc[p] = "remove"
  /\ raced' = (raced \/ (file # NoFile /\ p \notin informed))
  /\ Removed
  /\ Goto(p, "recreate")
  /\ UNCHANGED <<lag, seen, faults>>

(* release: the same removal, by the holder, who then ends.                *)
Release(p) ==
  /\ pc[p] = "holding"
  /\ raced' = (raced \/ (file # NoFile /\ creator # p))
  /\ Removed
  /\ End(p)
  /\ UNCHANGED faults

(* The process dies, or the write of the record fails and the command ends *)
(* with an error: in both cases the lock file stays as it is.              *)
Crash(p) ==
  /\ pc[p] # "gone"
  /\ faults < MaxFaults
  /\ faults' = faults + 1
  /\ creator' = IF creator = p THEN Nobody ELSE creator
  /\ informed' = informed \ {p}
  /\ End(p)
  /\ UNCHANGED <<file, raced>>

Tick ==
  /\ \A p \in Procs : lag[p] < MaxLag
  /\ file' = IF file # NoFile /\ file.age < MaxAge
             THEN [file EXCEPT !.age = @ + 1] ELSE file
  /\ lag' = [p \in Procs |-> IF pc[p] = "gone" THEN 0 ELSE lag[p] + 1]
  /\ UNCHANGED <<pc, seen, faults, creator, informed, raced>>

Step(p) ==
  \/ Create(p) \/ Write(p) \/ Exists(p)
  \/ ReadGone(p) \/ ReadTorn(p) \/ Read(p)
  \/ Judge(p) \/ Remove(p) \/ Release(p)

Next == Tick \/ \E p \in Procs : Begin(p) \/ Step(p) \/ Crash(p)

Spec == Init /\ [][Next]_vars

(* Running processes go on, time passes, and commands are run again.       *)
Fairness ==
  /\ WF_vars(Tick)
  /\ \A p \in Procs : WF_vars(Step(p)) /\ WF_vars(Begin(p))

FairSpec == Spec /\ Fairness

-----------------------------------------------------------------------------
TypeOK ==
  /\ file \in Record \cup {NoFile}
  /\ pc \in [Procs -> Stages]
  /\ lag \in [Procs -> 0 .. MaxLag]
  /\ seen \in [Procs -> [owner : Procs \cup {Nobody}, old : BOOLEAN]]
  /\ faults \in 0 .. MaxFaults
  /\ creator \in Procs \cup {Nobody}
  /\ informed \in SUBSET Procs
  /\ raced \in BOOLEAN

(* "Single-writer lock" (lock.ts), "two processes cannot both write"       *)
(* (v0.6.2-integrity-audit.md): what the module promises without more ado. *)
MutualExclusion ==
  \A p, q \in Procs : pc[p] = "holding" /\ pc[q] = "holding" => p = q

(* What it keeps: two processes hold the lock only after one of them has   *)
(* removed, by name, a lock file other than the one it had read or made.   *)
(* Crashes, pid reuse, torn records and slow commands alone never do it.   *)
ExclusionUnlessRaced == raced \/ MutualExclusion

(* A process that has judged the present lock file stale is right: its     *)
(* owner does not run, however long ago the judgement was.                 *)
JudgementsSound ==
  \A p \in informed : pc[p] = "remove" => creator = Nobody

(* Until such a removal the lock file is the lock that ProjectStore takes  *)
(* in one step: whoever is about to write its record or holds it has the   *)
(* lock, nobody else gives it back, it changes hands over a dead owner or  *)
(* not at all, and one whose record was never written stays.               *)
Owners == {p \in Procs : pc[p] \in {"write", "holding"}}
LockOwner ==
  IF Owners = {} THEN IF file = NoFile THEN NoFile
                      ELSE IF file.whole THEN Nobody ELSE TornLock
  ELSE IF \E p \in Owners : Owners = {p} THEN CHOOSE p \in Owners : TRUE
  ELSE Owners

Lock == INSTANCE ProjectLock WITH lock <- LockOwner, Free <- NoFile, DeadOwner <- Nobody

LockUntilRaced == Lock!LockInit /\ [][~ raced' => [Lock!LockNext]_LockOwner]_vars

(* A lock whose record is whole and whose owner is dead is reclaimed, once *)
(* the pid is not that of another process and commands are run again.      *)
Orphaned == file # NoFile /\ creator = Nobody /\ file.whole
OrphansReclaimed == Orphaned ~> ~ Orphaned

-----------------------------------------------------------------------------
(* The inductive invariant behind ExclusionUnlessRaced.                    *)

CreatorInv ==
  creator # Nobody =>
    /\ file # NoFile
    /\ file.owner = creator
    /\ pc[creator] \in {"write", "holding"}
    /\ pc[creator] = "holding" => file.whole

HolderInv ==
  raced \/ \A p \in Procs : pc[p] \in {"write", "holding"} => creator = p

InformedInv ==
  \A p \in informed :
    /\ file # NoFile /\ file.whole
    /\ pc[p] = "judge" => seen[p].owner = file.owner
    /\ pc[p] = "remove" => creator = Nobody

IInv == TypeOK /\ CreatorInv /\ HolderInv /\ InformedInv
=============================================================================
