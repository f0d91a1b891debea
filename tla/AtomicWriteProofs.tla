-------------------------- MODULE AtomicWriteProofs --------------------------
(* Theorems about AtomicWrite, for any number of writers and values, on    *)
(* platforms that sync directories and on those that do not.               *)
EXTENDS AtomicWrite, TLAPS

(* A temp file is a file.                                                  *)
LEMMA NewFile ==
  ASSUME NEW v \in Values \cup {Torn}, NEW s \in BOOLEAN
  PROVE  /\ [data |-> v, synced |-> s] \in File
         /\ [data |-> v, synced |-> s] # NoFile
  BY NoFileAssumption DEF File

(* A loss of power leaves a file of some kind where there was one, and a   *)
(* whole file as it was.                                                   *)
LEMMA OnDiskType ==
  ASSUME NEW f \in File \cup {NoFile}
  PROVE  /\ OnDisk(f) \in File \cup {NoFile}
         /\ Whole(f) => OnDisk(f) = f
  BY NoFileAssumption DEF OnDisk, File, Whole

LEMMA InitInvariant == Init => IInv
<1> SUFFICES ASSUME Init PROVE IInv
  OBVIOUS
<1>1. TypeOK
  BY DEF Init, TypeOK, Stages
<1>2. ValueInv
  BY DEF Init, ValueInv
<1>3. SeenInv
  BY DEF Init, SeenInv, Files
<1>4. TempInv
  BY DEF Init, TempInv
<1>5. TargetInv
  BY DEF Init, TargetInv, Whole, DoneStaysDone
<1>6. QED
  BY <1>1, <1>2, <1>3, <1>4, <1>5 DEF IInv

LEMMA TypeStep ==
  ASSUME IInv, [Next]_vars
  PROVE  TypeOK'
<1> USE DEF IInv, TypeOK, Stages, Goto, SetTemp
<1>1. ASSUME NEW w \in Writers, NEW v \in Values, Begin(w, v) PROVE TypeOK'
  BY <1>1 DEF Begin
<1>2. ASSUME NEW w \in Writers, CreateTemp(w) PROVE TypeOK'
  BY <1>2, NewFile DEF CreateTemp
<1>3. ASSUME NEW w \in Writers, WriteTemp(w) PROVE TypeOK'
  BY <1>3, NewFile DEF WriteTemp
<1>4. ASSUME NEW w \in Writers, FlushTemp(w) PROVE TypeOK'
  <2>1. tmp[w] = [data |-> val[w], synced |-> FALSE]
    BY <1>4 DEF FlushTemp, TempInv
  <2>2. tmp[w].data = val[w]
    BY <2>1
  <2>3. QED
    BY <1>4, <2>2, NewFile DEF FlushTemp
<1>5. ASSUME NEW w \in Writers, Rename(w) PROVE TypeOK'
  BY <1>5 DEF Rename
<1>6. ASSUME NEW w \in Writers, SyncDirectory(w) PROVE TypeOK'
  BY <1>6 DEF SyncDirectory
<1>7. ASSUME NEW w \in Writers, CreateFails(w) PROVE TypeOK'
  BY <1>7 DEF CreateFails
<1>8. ASSUME NEW w \in Writers, Fail(w) PROVE TypeOK'
  BY <1>8 DEF Fail
<1>9. ASSUME NEW w \in Writers, CleanUp(w) PROVE TypeOK'
  BY <1>9 DEF CleanUp
<1>10. ASSUME NEW w \in Writers, Crash(w) PROVE TypeOK'
  BY <1>10 DEF Crash
<1>11. CASE PowerLoss
  <2>1. target' \in File \cup {NoFile} /\ entries' \in SUBSET (File \cup {NoFile})
    BY <1>11, OnDiskType DEF PowerLoss
  <2>2. tmp' \in [Writers -> File \cup {NoFile}]
    BY <1>11, OnDiskType DEF PowerLoss
  <2>3. QED
    BY <1>11, <2>1, <2>2 DEF PowerLoss
<1>12. CASE UNCHANGED vars
  BY <1>12 DEF vars
<1>13. QED
  BY <1>1, <1>2, <1>3, <1>4, <1>5, <1>6, <1>7, <1>8, <1>9, <1>10, <1>11, <1>12
  DEF Next

(* A writer's value is its own: it is used once, and not reported failed   *)
(* while the write goes on.                                                *)
LEMMA ValueStep ==
  ASSUME IInv, [Next]_vars
  PROVE  ValueInv'
<1> USE DEF IInv, TypeOK, ValueInv, Stages, Goto, SetTemp
<1>1. ASSUME NEW w \in Writers, NEW v \in Values, Begin(w, v) PROVE ValueInv'
  BY <1>1 DEF Begin
<1>2. ASSUME NEW w \in Writers, CreateTemp(w) PROVE ValueInv'
  BY <1>2 DEF CreateTemp
<1>3. ASSUME NEW w \in Writers, WriteTemp(w) PROVE ValueInv'
  BY <1>3 DEF WriteTemp
<1>4. ASSUME NEW w \in Writers, FlushTemp(w) PROVE ValueInv'
  BY <1>4 DEF FlushTemp
<1>5. ASSUME NEW w \in Writers, Rename(w) PROVE ValueInv'
  BY <1>5 DEF Rename
<1>6. ASSUME NEW w \in Writers, SyncDirectory(w) PROVE ValueInv'
  BY <1>6 DEF SyncDirectory
<1>7. ASSUME NEW w \in Writers, CreateFails(w) PROVE ValueInv'
  BY <1>7 DEF CreateFails
<1>8. ASSUME NEW w \in Writers, Fail(w) PROVE ValueInv'
  BY <1>8 DEF Fail
<1>9. ASSUME NEW w \in Writers, CleanUp(w) PROVE ValueInv'
  BY <1>9 DEF CleanUp
<1>10. ASSUME NEW w \in Writers, Crash(w) PROVE ValueInv'
  BY <1>10 DEF Crash
<1>11. CASE PowerLoss
  BY <1>11 DEF PowerLoss
<1>12. CASE UNCHANGED vars
  BY <1>12 DEF vars
<1>13. QED
  BY <1>1, <1>2, <1>3, <1>4, <1>5, <1>6, <1>7, <1>8, <1>9, <1>10, <1>11, <1>12
  DEF Next

(* What has ever been visible was written before, and by a rename: no      *)
(* writer that has yet to rename can be its author.                        *)
LEMMA SeenStep ==
  ASSUME IInv, [Next]_vars
  PROVE  SeenInv'
<1> USE DEF IInv, TypeOK, ValueInv, SeenInv, BeforeRename, Stages, Goto, SetTemp
<1>1. ASSUME NEW w \in Writers, NEW v \in Values, Begin(w, v) PROVE SeenInv'
  <2>1. Files' = Files
    BY <1>1 DEF Begin, Files
  <2>2. QED
    BY <1>1, <2>1 DEF Begin
<1>2. ASSUME NEW w \in Writers,
             CreateTemp(w) \/ WriteTemp(w) \/ FlushTemp(w) \/ CreateFails(w)
               \/ Fail(w) \/ CleanUp(w) \/ Crash(w)
      PROVE  SeenInv'
  <2>1. Files' = Files /\ used' = used /\ val' = val
    BY <1>2 DEF CreateTemp, WriteTemp, FlushTemp, CreateFails, Fail, CleanUp, Crash, Files
  <2>2. \A x \in Writers : pc'[x] \in BeforeRename => pc[x] \in BeforeRename
    BY <1>2 DEF CreateTemp, WriteTemp, FlushTemp, CreateFails, Fail, CleanUp, Crash
  <2>3. QED
    BY <2>1, <2>2
<1>3. ASSUME NEW w \in Writers, Rename(w) PROVE SeenInv'
  <2>1. tmp[w] = [data |-> val[w], synced |-> TRUE]
    BY <1>3 DEF Rename, TempInv
  <2>2. Files' \subseteq Files \cup {tmp[w]}
    BY <1>3 DEF Rename, Files
  <2>3. ASSUME NEW f \in Files', f # NoFile
        PROVE  f.data \in used' /\ \A x \in Writers : pc'[x] \in BeforeRename => f.data # val'[x]
    <3>1. CASE f \in Files
      BY <1>3, <2>3, <3>1 DEF Rename
    <3>2. CASE f = tmp[w]
      BY <1>3, <2>1, <3>2 DEF Rename
    <3>3. QED
      BY <2>2, <3>1, <3>2
  <2>4. QED
    BY <2>3
<1>4. ASSUME NEW w \in Writers, SyncDirectory(w) PROVE SeenInv'
  <2>1. Files' \subseteq Files
    BY <1>4 DEF SyncDirectory, Files
  <2>2. QED
    BY <1>4, <2>1 DEF SyncDirectory
<1>5. CASE PowerLoss
  <2>1. \A f \in entries : OnDisk(f) = f
    BY OnDiskType DEF TargetInv
  <2>2. Files' \subseteq Files
    BY <1>5, <2>1 DEF PowerLoss, Files
  <2>3. QED
    BY <1>5, <2>2 DEF PowerLoss
<1>6. CASE UNCHANGED vars
  BY <1>6 DEF vars, Files
<1>7. QED
  BY <1>1, <1>2, <1>3, <1>4, <1>5, <1>6 DEF Next

(* A temp file holds what its writer has written, flushed before the       *)
(* rename; one is left over only by a writer that died.                    *)
LEMMA TempStep ==
  ASSUME IInv, [Next]_vars
  PROVE  TempInv'
<1> USE DEF IInv, TypeOK, TempInv, Stages, Goto, SetTemp
<1>1. ASSUME NEW w \in Writers, NEW v \in Values, Begin(w, v) PROVE TempInv'
  BY <1>1 DEF Begin
<1>2. ASSUME NEW w \in Writers, CreateTemp(w) PROVE TempInv'
  BY <1>2 DEF CreateTemp
<1>3. ASSUME NEW w \in Writers, WriteTemp(w) PROVE TempInv'
  BY <1>3 DEF WriteTemp
<1>4. ASSUME NEW w \in Writers, FlushTemp(w) PROVE TempInv'
  <2>1. tmp[w].data = val[w]
    BY <1>4 DEF FlushTemp
  <2>2. QED
    BY <1>4, <2>1 DEF FlushTemp
<1>5. ASSUME NEW w \in Writers, Rename(w) PROVE TempInv'
  BY <1>5 DEF Rename
<1>6. ASSUME NEW w \in Writers, SyncDirectory(w) PROVE TempInv'
  BY <1>6 DEF SyncDirectory
<1>7. ASSUME NEW w \in Writers, CreateFails(w) PROVE TempInv'
  BY <1>7 DEF CreateFails
<1>8. ASSUME NEW w \in Writers, Fail(w) PROVE TempInv'
  BY <1>8 DEF Fail
<1>9. ASSUME NEW w \in Writers, CleanUp(w) PROVE TempInv'
  BY <1>9 DEF CleanUp
<1>10. ASSUME NEW w \in Writers, Crash(w) PROVE TempInv'
  BY <1>10 DEF Crash
<1>11. CASE PowerLoss
  BY <1>11 DEF PowerLoss
<1>12. CASE UNCHANGED vars
  BY <1>12 DEF vars
<1>13. QED
  BY <1>1, <1>2, <1>3, <1>4, <1>5, <1>6, <1>7, <1>8, <1>9, <1>10, <1>11, <1>12
  DEF Next

(* The target is whole, and what a done write replaced stays replaced.     *)
LEMMA TargetStep ==
  ASSUME IInv, [Next]_vars
  PROVE  TargetInv'
<1> USE DEF IInv, TypeOK, TargetInv, DoneStaysDone, Stages, Goto, SetTemp
<1>1. ASSUME NEW w \in Writers, NEW v \in Values, Begin(w, v) PROVE TargetInv'
  BY <1>1 DEF Begin
<1>2. ASSUME NEW w \in Writers, CreateTemp(w) \/ WriteTemp(w) \/ FlushTemp(w) \/ Fail(w)
      PROVE  TargetInv'
  BY <1>2 DEF CreateTemp, WriteTemp, FlushTemp, Fail
<1>3. ASSUME NEW w \in Writers, Rename(w) PROVE TargetInv'
  <2>1. tmp[w] = [data |-> val[w], synced |-> TRUE] /\ tmp[w] # NoFile
    BY <1>3, NewFile DEF Rename, TempInv
  <2>2. val[w] \in Values
    BY <1>3 DEF Rename, ValueInv
  <2>3. Whole(tmp[w]) /\ tmp[w].data \notin failed
    BY <1>3, <2>1, <2>2, ContentAssumption DEF Whole, Rename, ValueInv
  <2>4. tmp[w] \notin Files
    BY <1>3, <2>1 DEF Rename, SeenInv, BeforeRename
  <2>5. DoneStaysDone'
    BY <1>3, <2>4 DEF Rename, Files
  <2>6. \A x \in Writers : pc'[x] = "syncDir" => target' \notin past'[x]
    BY <1>3, <2>4 DEF Rename, Files
  <2>7. QED
    BY <1>3, <2>3, <2>5, <2>6 DEF Rename
<1>4. ASSUME NEW w \in Writers, SyncDirectory(w) PROVE TargetInv'
  BY <1>4 DEF SyncDirectory
<1>5. ASSUME NEW w \in Writers, CreateFails(w) \/ CleanUp(w) PROVE TargetInv'
  <2>1. \A f \in entries : f # NoFile => f.data # val[w]
    BY <1>5 DEF CreateFails, CleanUp, SeenInv, BeforeRename, Files
  <2>2. QED
    BY <1>5, <2>1 DEF CreateFails, CleanUp
<1>6. ASSUME NEW w \in Writers, Crash(w) PROVE TargetInv'
  BY <1>6 DEF Crash
<1>7. CASE PowerLoss
  <2>1. \A f \in entries : OnDisk(f) = f
    BY OnDiskType
  <2>2. PICK f \in entries : target' = f /\ entries' = {f}
    BY <1>7, <2>1 DEF PowerLoss
  <2>3. QED
    BY <1>7, <2>2 DEF PowerLoss
<1>8. CASE UNCHANGED vars
  BY <1>8 DEF vars
<1>9. QED
  BY <1>1, <1>2, <1>3, <1>4, <1>5, <1>6, <1>7, <1>8 DEF Next

(* The strengthened invariant holds in every reachable state.              *)
THEOREM Invariant == Spec => []IInv
<1>1. Init => IInv
  BY InitInvariant
<1>2. IInv /\ [Next]_vars => IInv'
  BY TypeStep, ValueStep, SeenStep, TempStep, TargetStep DEF IInv
<1>3. QED
  BY <1>1, <1>2, PTL DEF Spec

(* No step of performAtomicWrite, no crash and no loss of power shows a    *)
(* target that is only partly written.                                     *)
THEOREM Atomicity == Spec => []NeverTorn
<1>1. IInv => NeverTorn
  BY DEF IInv, TargetInv, NeverTorn
<1>2. QED
  BY <1>1, Invariant, PTL

(* A write reported failed is never seen; a write reported done on a       *)
(* platform that syncs directories is never undone.                        *)
THEOREM Reports == Spec => []ReportsAreTrue
<1>1. IInv => ReportsAreTrue
  BY DEF IInv, TargetInv, ReportsAreTrue, FailedStaysInvisible
<1>2. QED
  BY <1>1, Invariant, PTL

(* performAtomicWrite removes its temp file on every path that fails.      *)
THEOREM CleansUp == Spec => []FailureLeavesNoTemp
<1>1. IInv => FailureLeavesNoTemp
  BY DEF IInv, TempInv, FailureLeavesNoTemp
<1>2. QED
  BY <1>1, Invariant, PTL
=============================================================================
