--------------------------- MODULE StoreLockProofs ---------------------------
(* Theorems about StoreLock, for any number of processes, any threshold,   *)
(* any number of crashes, and with or without the re-use of pids.          *)
EXTENDS StoreLock, TLAPS

(* A lock file is not the absence of one.                                  *)
LEMMA NewRecord ==
  ASSUME NEW p \in Procs, NEW a \in 0 .. MaxAge, NEW w \in BOOLEAN
  PROVE  /\ [whole |-> w, owner |-> p, age |-> a] \in Record
         /\ [whole |-> w, owner |-> p, age |-> a] # NoFile
  BY NoFileAssumption DEF Record

(* Writing the record changes only whether the file is whole.              *)
LEMMA Written ==
  ASSUME TypeOK, CreatorInv, NEW p \in Procs, Write(p)
  PROVE  /\ file = NoFile <=> file' = NoFile
         /\ file # NoFile => file'.owner = file.owner /\ (file.whole => file'.whole)
         /\ creator = p => file'.whole
         /\ creator # p => file' = file
<1>1. CASE creator = p
  <2>1. file \in Record /\ file # NoFile
    BY <1>1, ProcsAssumption DEF TypeOK, CreatorInv
  <2>2. file' = [file EXCEPT !.whole = TRUE]
    BY <1>1 DEF Write
  <2>3. file' \in Record
    BY <2>1, <2>2 DEF Record
  <2>4. file = [f \in {"whole", "owner", "age"} |-> file[f]]
    BY <2>1 DEF Record
  <2>5. DOMAIN file = {"whole", "owner", "age"}
    BY ONLY <2>4, Zenon
  <2>6. file'.whole
    BY <2>2, <2>5, Zenon
  <2>7. file'.owner = file.owner
    BY <2>2, <2>5, Zenon
  <2>8. QED
    BY <1>1, <2>1, <2>3, <2>6, <2>7, NoFileAssumption, Zenon
<1>2. CASE creator # p
  BY <1>2, Zenon DEF Write
<1>3. QED
  BY <1>1, <1>2, Zenon

(* Time passes, and a lock file only grows older.                          *)
LEMMA Aged ==
  ASSUME TypeOK, Tick
  PROVE  /\ file = NoFile <=> file' = NoFile
         /\ file # NoFile => file'.owner = file.owner /\ file'.whole = file.whole
<1>1. CASE file # NoFile /\ file.age < MaxAge
  <2>1. file \in Record
    BY <1>1 DEF TypeOK
  <2>2. file' = [file EXCEPT !.age = @ + 1]
    BY <1>1 DEF Tick
  <2>3. file' \in Record
    BY <1>1, <2>1, <2>2, TimeAssumption DEF Record, MaxAge
  <2>4. file = [f \in {"whole", "owner", "age"} |-> file[f]]
    BY <2>1 DEF Record
  <2>5. DOMAIN file = {"whole", "owner", "age"}
    BY ONLY <2>4, Zenon
  <2>6. file'.whole = file.whole
    BY <2>2, <2>5, Zenon
  <2>7. file'.owner = file.owner
    BY <2>2, <2>5, Zenon
  <2>8. QED
    BY <1>1, <2>3, <2>6, <2>7, NoFileAssumption, Zenon
<1>2. CASE ~ (file # NoFile /\ file.age < MaxAge)
  BY <1>2, Zenon DEF Tick
<1>3. QED
  BY <1>1, <1>2, Zenon

LEMMA InitInvariant == Init => IInv
<1> SUFFICES ASSUME Init PROVE IInv
  OBVIOUS
<1>1. /\ file \in Record \cup {NoFile}
      /\ creator \in Procs \cup {Nobody}
      /\ informed \in SUBSET Procs
      /\ raced \in BOOLEAN
  BY DEF Init
<1>2. pc \in [Procs -> Stages]
  BY DEF Init, Stages
<1>3. lag \in [Procs -> 0 .. MaxLag] /\ faults \in 0 .. MaxFaults
  BY TimeAssumption DEF Init
<1>4. seen \in [Procs -> [owner : Procs \cup {Nobody}, old : BOOLEAN]]
  BY DEF Init, NotSeen
<1>5. CreatorInv /\ HolderInv /\ InformedInv
  BY DEF Init, CreatorInv, HolderInv, InformedInv
<1>6. QED
  BY <1>1, <1>2, <1>3, <1>4, <1>5 DEF IInv, TypeOK

LEMMA EndType ==
  ASSUME TypeOK, NEW p \in Procs, End(p)
  PROVE  /\ pc' \in [Procs -> Stages]
         /\ lag' \in [Procs -> 0 .. MaxLag]
         /\ seen' \in [Procs -> [owner : Procs \cup {Nobody}, old : BOOLEAN]]
<1>1. NotSeen \in [owner : Procs \cup {Nobody}, old : BOOLEAN]
  BY DEF NotSeen
<1>2. QED
  BY <1>1, TimeAssumption DEF End, Goto, TypeOK, Stages

LEMMA TypeStep ==
  ASSUME TypeOK, CreatorInv, [Next]_vars
  PROVE  TypeOK'
<1> USE ProcsAssumption, TimeAssumption DEF TypeOK, Stages, Goto, End, Removed, NotSeen
<1>1. ASSUME NEW p \in Procs, Begin(p) PROVE TypeOK'
  BY <1>1 DEF Begin
<1>2. ASSUME NEW p \in Procs, Create(p) PROVE TypeOK'
  <2>1. lag[p] \in 0 .. MaxAge
    BY DEF MaxAge
  <2>2. file' \in Record
    BY <1>2, <2>1, NewRecord DEF Create
  <2>3. QED
    BY <1>2, <2>2 DEF Create
<1>3. ASSUME NEW p \in Procs, Write(p) PROVE TypeOK'
  <2>1. creator = p => file \in Record
    BY DEF CreatorInv
  <2>2. file' \in Record \cup {NoFile}
    BY <1>3, <2>1 DEF Write, Record
  <2>3. QED
    BY <1>3, <2>2 DEF Write
<1>4. ASSUME NEW p \in Procs, Exists(p) PROVE TypeOK'
  <2>1. CASE pc[p] = "create"
    BY <1>4, <2>1 DEF Exists
  <2>2. CASE pc[p] # "create"
    <3>1. End(p) /\ UNCHANGED <<file, faults, creator, informed, raced>>
      BY <1>4, <2>2 DEF Exists
    <3>2. QED
      BY <3>1, EndType
  <2>3. QED
    BY <2>1, <2>2
<1>5. ASSUME NEW p \in Procs, ReadGone(p) PROVE TypeOK'
  BY <1>5 DEF ReadGone
<1>6. ASSUME NEW p \in Procs, ReadTorn(p) PROVE TypeOK'
  BY <1>6 DEF ReadTorn
<1>7. ASSUME NEW p \in Procs, Read(p) PROVE TypeOK'
  BY <1>7 DEF Read, Record
<1>8. ASSUME NEW p \in Procs, Judge(p) PROVE TypeOK'
  <2>1. CASE Stale(p)
    BY <1>8, <2>1 DEF Judge
  <2>2. CASE ~ Stale(p)
    <3>1. End(p) /\ UNCHANGED <<file, faults, creator, informed, raced>>
      BY <1>8, <2>2 DEF Judge
    <3>2. QED
      BY <3>1, EndType
  <2>3. QED
    BY <2>1, <2>2
<1>9. ASSUME NEW p \in Procs, Remove(p) PROVE TypeOK'
  BY <1>9 DEF Remove
<1>10. ASSUME NEW p \in Procs, Release(p) PROVE TypeOK'
  BY <1>10 DEF Release
<1>11. ASSUME NEW p \in Procs, Crash(p) PROVE TypeOK'
  BY <1>11 DEF Crash
<1>12. CASE Tick
  <2>1. file' \in Record \cup {NoFile}
    BY <1>12 DEF Tick, Record, MaxAge
  <2>2. lag' \in [Procs -> 0 .. MaxLag]
    BY <1>12 DEF Tick
  <2>3. QED
    BY <1>12, <2>1, <2>2 DEF Tick
<1>13. CASE UNCHANGED vars
  BY <1>13 DEF vars
<1>14. QED
  BY <1>1, <1>2, <1>3, <1>4, <1>5, <1>6, <1>7, <1>8, <1>9, <1>10, <1>11, <1>12,
     <1>13 DEF Next, Step

(* The process that made the present lock file is on its way to hold it, or*)
(* holds it; every other process that holds a lock got it by a race.       *)
LEMMA OwnerStep ==
  ASSUME IInv, [Next]_vars
  PROVE  CreatorInv' /\ HolderInv'
<1> USE ProcsAssumption, NoFileAssumption
        DEF IInv, TypeOK, CreatorInv, HolderInv, Stages, Goto, End, Removed
<1>1. ASSUME NEW p \in Procs, Begin(p) PROVE CreatorInv' /\ HolderInv'
  BY <1>1 DEF Begin
<1>2. ASSUME NEW p \in Procs, Create(p) PROVE CreatorInv' /\ HolderInv'
  <2>1. lag[p] \in 0 .. MaxAge
    BY TimeAssumption DEF MaxAge
  <2>2. file' # NoFile /\ file'.owner = p
    BY <1>2, <2>1, NewRecord DEF Create
  <2>3. CreatorInv'
    BY <1>2, <2>2 DEF Create
  <2>4. HolderInv'
    BY <1>2 DEF Create
  <2>5. QED
    BY <2>3, <2>4
<1>3. ASSUME NEW p \in Procs, Write(p) PROVE CreatorInv' /\ HolderInv'
  <2>1. creator = p => file' # NoFile /\ file'.owner = p /\ file'.whole
    BY <1>3, Written
  <2>2. creator # p => file' = file
    BY <1>3, Written
  <2>3. creator' = creator /\ raced' = raced /\ pc' = [pc EXCEPT ![p] = "holding"]
    BY <1>3 DEF Write
  <2>4. HolderInv'
    BY <1>3, <2>3 DEF Write
  <2>5. CreatorInv'
    BY <2>1, <2>2, <2>3
  <2>6. QED
    BY <2>4, <2>5
<1>4. ASSUME NEW p \in Procs, Exists(p) PROVE CreatorInv' /\ HolderInv'
  BY <1>4 DEF Exists
<1>5. ASSUME NEW p \in Procs, ReadGone(p) PROVE CreatorInv' /\ HolderInv'
  BY <1>5 DEF ReadGone
<1>6. ASSUME NEW p \in Procs, ReadTorn(p) PROVE CreatorInv' /\ HolderInv'
  BY <1>6 DEF ReadTorn
<1>7. ASSUME NEW p \in Procs, Read(p) PROVE CreatorInv' /\ HolderInv'
  BY <1>7 DEF Read
<1>8. ASSUME NEW p \in Procs, Judge(p) PROVE CreatorInv' /\ HolderInv'
  BY <1>8 DEF Judge
<1>9. ASSUME NEW p \in Procs, Remove(p) PROVE CreatorInv' /\ HolderInv'
  BY <1>9 DEF Remove, InformedInv
<1>10. ASSUME NEW p \in Procs, Release(p) PROVE CreatorInv' /\ HolderInv'
  BY <1>10 DEF Release
<1>11. ASSUME NEW p \in Procs, Crash(p) PROVE CreatorInv' /\ HolderInv'
  BY <1>11 DEF Crash
<1>12. CASE Tick
  BY <1>12, Aged DEF Tick
<1>13. CASE UNCHANGED vars
  BY <1>13 DEF vars
<1>14. QED
  BY <1>1, <1>2, <1>3, <1>4, <1>5, <1>6, <1>7, <1>8, <1>9, <1>10, <1>11, <1>12,
     <1>13 DEF Next, Step

(* What a process knows of the present lock file stays true.               *)
LEMMA InformedStep ==
  ASSUME IInv, [Next]_vars
  PROVE  InformedInv'
<1> USE ProcsAssumption, NoFileAssumption
        DEF IInv, TypeOK, InformedInv, Stages, Goto, End, Removed
<1>1. ASSUME NEW p \in Procs, Begin(p) PROVE InformedInv'
  BY <1>1 DEF Begin
<1>2. ASSUME NEW p \in Procs, Create(p) PROVE InformedInv'
  BY <1>2 DEF Create
<1>3. ASSUME NEW p \in Procs, Write(p) PROVE InformedInv'
  BY <1>3, Written DEF Write
<1>4. ASSUME NEW p \in Procs, Exists(p) PROVE InformedInv'
  BY <1>4 DEF Exists
<1>5. ASSUME NEW p \in Procs, ReadGone(p) PROVE InformedInv'
  BY <1>5 DEF ReadGone
<1>6. ASSUME NEW p \in Procs, ReadTorn(p) PROVE InformedInv'
  BY <1>6 DEF ReadTorn
<1>7. ASSUME NEW p \in Procs, Read(p) PROVE InformedInv'
  BY <1>7 DEF Read
<1>8. ASSUME NEW p \in Procs, Judge(p) PROVE InformedInv'
  <2>1. Stale(p) /\ p \in informed => creator = Nobody
    BY <1>8 DEF Judge, Stale, IsProcessAlive, CreatorInv
  <2>2. QED
    BY <1>8, <2>1 DEF Judge
<1>9. ASSUME NEW p \in Procs, Remove(p) PROVE InformedInv'
  BY <1>9 DEF Remove
<1>10. ASSUME NEW p \in Procs, Release(p) PROVE InformedInv'
  BY <1>10 DEF Release
<1>11. ASSUME NEW p \in Procs, Crash(p) PROVE InformedInv'
  BY <1>11 DEF Crash
<1>12. CASE Tick
  BY <1>12, Aged DEF Tick
<1>13. CASE UNCHANGED vars
  BY <1>13 DEF vars
<1>14. QED
  BY <1>1, <1>2, <1>3, <1>4, <1>5, <1>6, <1>7, <1>8, <1>9, <1>10, <1>11, <1>12,
     <1>13 DEF Next, Step

LEMMA Invariance == Spec => []IInv
<1>1. IInv /\ [Next]_vars => IInv'
  BY TypeStep, OwnerStep, InformedStep DEF IInv
<1>2. QED
  BY InitInvariant, <1>1, PTL DEF Spec

(* The lock file's protocol is well formed.                                *)
THEOREM TypeCorrect == Spec => []TypeOK
<1>1. IInv => TypeOK
  BY DEF IInv
<1>2. QED
  BY <1>1, Invariance, PTL

(* Two processes hold the project lock only after one of them removed, by  *)
(* name, a lock file it had neither read nor created.                      *)
THEOREM Exclusion == Spec => []ExclusionUnlessRaced
<1>1. IInv => ExclusionUnlessRaced
  BY DEF IInv, HolderInv, ExclusionUnlessRaced, MutualExclusion
<1>2. QED
  BY <1>1, Invariance, PTL

(* A judgement about the present lock file never condemns a live owner.    *)
THEOREM Judgements == Spec => []JudgementsSound
<1>1. IInv => JudgementsSound
  BY DEF IInv, InformedInv, JudgementsSound
<1>2. QED
  BY <1>1, Invariance, PTL

-----------------------------------------------------------------------------
(* As long as nothing raced, the owner of the lock is the process that made*)
(* the present lock file.                                                  *)
Creator == IF creator # Nobody THEN creator
           ELSE IF file = NoFile THEN NoFile
           ELSE IF file.whole THEN Nobody ELSE TornLock

LEMMA OwnerIsCreator == IInv /\ ~ raced => LockOwner = Creator
<1> SUFFICES ASSUME IInv, ~ raced PROVE LockOwner = Creator
  OBVIOUS
<1> USE ProcsAssumption DEF IInv, TypeOK
<1>1. CASE creator # Nobody
  <2>1. creator \in Procs /\ Owners = {creator}
    BY <1>1 DEF Owners, CreatorInv, HolderInv
  <2>2. QED
    BY <1>1, <2>1 DEF LockOwner, Creator
<1>2. CASE creator = Nobody
  <2>1. Owners = {}
    BY <1>2 DEF Owners, HolderInv
  <2>2. QED
    BY <1>2, <2>1 DEF LockOwner, Creator
<1>3. QED
  BY <1>1, <1>2

LEMMA PromisedStep ==
  ASSUME IInv, IInv', [Next]_vars, ~ raced'
  PROVE  [Lock!LockNext]_LockOwner
<1>1. ~ raced
  <2>1. CASE UNCHANGED vars
    BY <2>1 DEF vars
  <2>2. CASE Tick
    BY <2>2 DEF Tick
  <2>3. ASSUME NEW p \in Procs, Begin(p) \/ Step(p) \/ Crash(p) PROVE ~ raced
    BY <2>3 DEF Begin, Step, Crash, Create, Write, Exists, ReadGone, ReadTorn, Read,
                Judge, Remove, Release
  <2>4. QED
    BY <2>1, <2>2, <2>3 DEF Next
<1>2. LockOwner = Creator /\ LockOwner' = Creator'
  <2>1. (IInv /\ ~ raced => LockOwner = Creator)'
    BY OwnerIsCreator, PTL
  <2>2. QED
    BY <1>1, <2>1, OwnerIsCreator
<1> USE ProcsAssumption, NoFileAssumption
        DEF Creator, IInv, TypeOK, Goto, End, Removed, Lock!LockNext, Lock!Take, Lock!GiveBack,
            Lock!Die, Lock!Reclaim
<1>3. CASE UNCHANGED <<file, creator>>
  BY <1>2, <1>3
<1>4. ASSUME NEW p \in Procs, Create(p) PROVE Lock!Take(p)
  <2>1. file = NoFile /\ creator = Nobody /\ creator' = p
    BY <1>4 DEF Create, CreatorInv
  <2>2. QED
    BY <1>2, <2>1
<1>5. ASSUME NEW p \in Procs, Write(p) PROVE UNCHANGED LockOwner
  <2>1. creator = p /\ creator' = creator
    BY <1>1, <1>5 DEF Write, HolderInv
  <2>2. QED
    BY <1>2, <2>1
(* What is removed unraced is the lock file of a dead process, ...         *)
<1>6. ASSUME NEW p \in Procs, Remove(p) PROVE Lock!Reclaim \/ UNCHANGED LockOwner
  <2>1. file = NoFile \/ p \in informed
    BY <1>6 DEF Remove
  <2>2. creator = Nobody /\ (file # NoFile => file.whole)
    BY <1>6, <2>1 DEF Remove, InformedInv, CreatorInv
  <2>3. creator' = Nobody /\ file' = NoFile
    BY <1>6 DEF Remove
  <2>4. QED
    BY <1>2, <2>2, <2>3
(* ... and what is released the owner's own.                               *)
<1>7. ASSUME NEW p \in Procs, Release(p) PROVE Lock!GiveBack(p)
  <2>1. creator = p
    BY <1>1, <1>7 DEF Release, HolderInv
  <2>2. creator' = Nobody /\ file' = NoFile
    BY <1>7 DEF Release
  <2>3. QED
    BY <1>2, <2>1, <2>2
<1>8. ASSUME NEW p \in Procs, Crash(p) PROVE Lock!Die(p) \/ UNCHANGED LockOwner
  <2>1. CASE creator = p
    <3>1. file' # NoFile /\ creator' = Nobody
      BY <1>8, <2>1 DEF Crash, CreatorInv
    <3>2. QED
      BY <1>2, <2>1, <3>1
  <2>2. CASE creator # p
    BY <1>2, <1>8, <2>2 DEF Crash
  <2>3. QED
    BY <2>1, <2>2
<1>9. CASE Tick
  <2>1. creator' = creator
    BY <1>9 DEF Tick
  <2>2. QED
    BY <1>2, <1>9, <2>1, Aged
<1>10. ASSUME NEW p \in Procs,
              Begin(p) \/ Exists(p) \/ ReadGone(p) \/ ReadTorn(p) \/ Read(p) \/ Judge(p)
       PROVE  UNCHANGED <<file, creator>>
  BY <1>10 DEF Begin, Exists, ReadGone, ReadTorn, Read, Judge
<1>11. CASE UNCHANGED vars
  BY <1>3, <1>11 DEF vars
<1>12. QED
  BY <1>3, <1>4, <1>5, <1>6, <1>7, <1>8, <1>9, <1>10, <1>11 DEF Next, Step

(* The lock file and its protocol implement the lock that ProjectStore     *)
(* takes in one step, up to the first removal of a lock file that was      *)
(* neither read nor created.                                               *)
THEOREM ImplementsLock == Spec => LockUntilRaced
<1>1. Init => Lock!LockInit
  BY DEF Init, Lock!LockInit, LockOwner, Owners
<1>2. IInv /\ IInv' /\ [Next]_vars => [~ raced' => [Lock!LockNext]_LockOwner]_vars
  BY PromisedStep
<1>3. QED
  BY <1>1, <1>2, Invariance, PTL DEF Spec, LockUntilRaced
=============================================================================
