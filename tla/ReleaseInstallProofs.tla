------------------------- MODULE ReleaseInstallProofs -------------------------
(* Theorems about ReleaseInstall, for any number of installers, versions   *)
(* and shims, whatever the prefix holds and however many faults there are. *)
EXTENDS ReleaseInstall, TLAPS

(* An installation owns its version's directory, the shims and the         *)
(* manifest, and goes through them in a row.                               *)
LEMMA Owned ==
  ASSUME NEW v \in Versions
  PROVE  /\ InOrder(v) \in Seq(Places)
         /\ Range(InOrder(v)) = Managed(v)
         /\ Managed(v) \subseteq Places
<1>1. ShimNames \in Seq(Shims)
  BY InstallAssumption DEF Shims
<1>2. InOrder(v) \in Seq(Places)
  BY <1>1 DEF InOrder, Places
<1>3. Range(InOrder(v)) = Managed(v)
  BY DEF Managed
<1>4. Managed(v) \subseteq Places
  BY <1>2 DEF Managed, Range
<1>5. QED
  BY <1>2, <1>3, <1>4

(* Taking the first place from what is to do leaves the others.            *)
LEMMA HeadAndTail ==
  ASSUME NEW s \in Seq(Places), s # << >>
  PROVE  /\ Head(s) \in Range(s) /\ Head(s) \in Places
         /\ Tail(s) \in Seq(Places)
         /\ Range(Tail(s)) \subseteq Range(s)
         /\ Range(s) \subseteq Range(Tail(s)) \cup {Head(s)}
<1>1. /\ Len(s) \in Nat /\ Len(s) > 0 /\ DOMAIN s = 1 .. Len(s)
      /\ Head(s) = s[1]
      /\ \A k \in 1 .. Len(s) : s[k] \in Places
  OBVIOUS
<1>2. /\ Tail(s) \in Seq(Places)
      /\ DOMAIN Tail(s) = 1 .. (Len(s) - 1)
      /\ \A k \in 1 .. (Len(s) - 1) : Tail(s)[k] = s[k + 1]
  BY <1>1
<1>3. Head(s) \in Range(s) /\ Head(s) \in Places
  BY <1>1 DEF Range
<1>4. Range(Tail(s)) \subseteq Range(s)
  BY <1>1, <1>2 DEF Range
<1>5. ASSUME NEW k \in 1 .. Len(s), k # 1
      PROVE  s[k] \in Range(Tail(s))
  <2>1. k - 1 \in 1 .. (Len(s) - 1) /\ Tail(s)[k - 1] = s[k]
    BY <1>1, <1>2, <1>5
  <2>2. QED
    BY <1>2, <2>1 DEF Range
<1>6. QED
  BY <1>1, <1>2, <1>3, <1>4, <1>5 DEF Range

LEMMA NoneToDo == Range(<< >>) = {}
  BY DEF Range

(* Nothing is one of the things a place can hold.                          *)
LEMMA NothingType == Nothing \in [Places -> Contents] /\ Absent \in Contents
  BY DEF Nothing, Contents

LEMMA PlanType ==
  ASSUME NEW v \in Versions, NEW forced \in BOOLEAN
  PROVE  /\ PlanAction(v, forced) \in {"blocked", "already-installed", "create", "replace"}
         /\ PlanAction(v, forced) = "already-installed" => ExactlyInstalled(v)
         /\ PlanAction(v, forced) = "create" => \A p \in Managed(v) : ~ Exists(p)
         /\ PlanAction(v, forced) = "replace" => forced
  BY DEF PlanAction

LEMMA InitInvariant == Init => IInv
<1> SUFFICES ASSUME Init PROVE IInv
  OBVIOUS
<1>1. TypeOK
  BY NothingType, InstallAssumption DEF Init, TypeOK, Working, Failures, Successes
<1>2. AloneInv
  BY DEF Init, AloneInv, Working
<1>3. WorkInv
  BY DEF Init, WorkInv, AtWork, Working, RollingBack
<1>4. PlaceInv
  BY DEF Init, PlaceInv, Working
<1>5. FailureLeavesPrefix /\ SuccessIsComplete
  BY DEF Init, FailureLeavesPrefix, SuccessIsComplete, Failures, Successes
<1>6. PreviousSurvives
  BY DEF Init, PreviousSurvives, Nothing, Counts
<1>7. QED
  BY <1>1, <1>2, <1>3, <1>4, <1>5, <1>6 DEF IInv

-----------------------------------------------------------------------------
(* The end of an invocation keeps the types.                               *)
LEMMA EndsType ==
  ASSUME TypeOK, NEW i \in Installers, NEW code, NEW removed \in BOOLEAN,
         code \in Failures \cup Successes \cup {"none", "rollback_failed", "died"},
         Ends(i, code, removed), faults' \in 0 .. MaxFaults
  PROVE  TypeOK'
<1> USE DEF TypeOK, Ends
<1>1. << >> \in Seq(Places)
  OBVIOUS
<1>2. backup' \in [Installers -> [Places -> Contents]] /\ restored' \in [Installers -> SUBSET Places]
  BY NothingType
<1>3. QED
  BY <1>1, <1>2

LEMMA TypeStep ==
  ASSUME TypeOK, WorkInv, [Next]_installVars
  PROVE  TypeOK'
<1> USE DEF TypeOK
<1>1. \A i \in Installers : InOrder(version[i]) \in Seq(Places)
  BY Owned
<1>2. ASSUME Faulty PROVE faults' \in 0 .. MaxFaults
  BY <1>2, InstallAssumption DEF Faulty
<1>3. ASSUME NEW i \in Installers, NEW v \in Versions, NEW f \in BOOLEAN, Begin(i, v, f)
      PROVE  TypeOK'
  <2>1. /\ pc' \in [Installers -> Working \cup {"idle"}]
        /\ action' \in [Installers -> {"blocked", "already-installed", "create", "replace"}]
        /\ outcome' \in [Installers -> Failures \cup Successes \cup {"none", "rollback_failed", "died"}]
    BY <1>3, PlanType DEF Begin, Working, Failures
  <2>2. backup' \in [Installers -> [Places -> Contents]] /\ restored' \in [Installers -> SUBSET Places]
    BY <1>3, NothingType DEF Begin
  <2>3. alone' \in [Installers -> BOOLEAN]
    BY <1>3 DEF Begin
  <2>4. before' \in [Installers -> [Places -> Contents]]
    BY <1>3, NothingType DEF Begin
  <2>5. QED
    BY <1>3, <2>1, <2>2, <2>3, <2>4 DEF Begin
<1>4. ASSUME NEW i \in Installers, PlanOverturned(i) PROVE TypeOK'
  BY <1>4, EndsType DEF PlanOverturned, Failures, Successes
<1>5. ASSUME NEW i \in Installers, Stage(i) PROVE TypeOK'
  BY <1>1, <1>5 DEF Stage, Working
<1>6. ASSUME NEW i \in Installers, StageRejected(i) PROVE TypeOK'
  BY <1>2, <1>6, EndsType DEF StageRejected, Failures
<1>7. ASSUME NEW i \in Installers, BackUp(i) PROVE TypeOK'
  <2> DEFINE p == Head(todo[i])
  <2>1. todo[i] \in Seq(Places) /\ todo[i] # << >>
    BY <1>7 DEF BackUp
  <2>2. p \in Places /\ Tail(todo[i]) \in Seq(Places)
    BY <2>1, HeadAndTail
  <2>3. BackedUp(i, p) \in [Places -> Contents]
    BY <2>2 DEF BackedUp
  <2>4. backup' \in [Installers -> [Places -> Contents]]
    BY <1>7, <2>3 DEF BackUp
  <2>5. prefix' \in [Places -> Contents]
    BY <1>7, <2>2, NothingType DEF BackUp
  <2>6. QED
    BY <1>7, <2>2, <2>4, <2>5 DEF BackUp
<1>8. ASSUME NEW i \in Installers, BackedUpAll(i) PROVE TypeOK'
  BY <1>1, <1>8 DEF BackedUpAll, Working
<1>9. ASSUME NEW i \in Installers, Move(i) PROVE TypeOK'
  BY <1>9, HeadAndTail DEF Move, Contents
<1>10. ASSUME NEW i \in Installers, MovedAll(i) PROVE TypeOK'
  BY <1>10 DEF MovedAll, Working
<1>11. ASSUME NEW i \in Installers, ApplyFails(i) PROVE TypeOK'
  BY <1>1, <1>2, <1>11 DEF ApplyFails, StartRollback, Working, Failures
<1>12. ASSUME NEW i \in Installers, CheckPasses(i) PROVE TypeOK'
  BY <1>12, EndsType DEF CheckPasses, Successes
<1>13. ASSUME NEW i \in Installers, CheckFails(i) PROVE TypeOK'
  BY <1>1, <1>2, <1>13 DEF CheckFails, StartRollback, Working, Failures
<1>14. ASSUME NEW i \in Installers, RemoveNew(i) PROVE TypeOK'
  BY <1>2, <1>14, HeadAndTail, NothingType DEF RemoveNew, Removed, NotRemoved
<1>15. ASSUME NEW i \in Installers, RemovedAll(i) PROVE TypeOK'
  BY <1>1, <1>15 DEF RemovedAll, Working
<1>16. ASSUME NEW i \in Installers, RestoreBackup(i) PROVE TypeOK'
  <2> DEFINE p == Head(todo[i])
  <2>1. todo[i] \in Seq(Places) /\ todo[i] # << >>
    BY <1>16 DEF RestoreBackup
  <2>2. p \in Places /\ Tail(todo[i]) \in Seq(Places)
    BY <2>1, HeadAndTail
  <2>3. backup[i][p] \in Contents
    BY <2>2
  <2>4. /\ prefix' \in [Places -> Contents]
        /\ restored' \in [Installers -> SUBSET Places]
        /\ reasons' \in [Installers -> BOOLEAN]
        /\ faults' \in 0 .. MaxFaults
    <3>1. CASE Restored(i, p)
      BY <2>2, <2>3, <3>1 DEF Restored
    <3>2. CASE NotRestored(i, p)
      BY <1>2, <3>2 DEF NotRestored
    <3>3. CASE UNCHANGED <<prefix, reasons, restored, faults>>
      BY <3>3
    <3>4. QED
      BY <1>16, <3>1, <3>2, <3>3 DEF RestoreBackup
  <2>5. QED
    BY <1>16, <2>2, <2>4 DEF RestoreBackup
<1>17. ASSUME NEW i \in Installers, RestoredAll(i) PROVE TypeOK'
  BY <1>17 DEF RestoredAll, Working
<1>18. ASSUME NEW i \in Installers, Judge(i) PROVE TypeOK'
  BY <1>18, EndsType DEF Judge
<1>19. ASSUME NEW i \in Installers, Crash(i) PROVE TypeOK'
  BY <1>2, <1>19, EndsType DEF Crash
<1>20. CASE UNCHANGED installVars
  BY <1>20 DEF installVars, process
<1>21. QED
  BY <1>3, <1>4, <1>5, <1>6, <1>7, <1>8, <1>9, <1>10, <1>11, <1>12, <1>13, <1>14, <1>15,
     <1>16, <1>17, <1>18, <1>19, <1>20 DEF Next, Step

-----------------------------------------------------------------------------
(* Every step but the beginning of an invocation is one of an installer    *)
(* that is at work, and of nobody else.                                    *)
LEMMA WorkersStep ==
  ASSUME TypeOK, NEW i \in Installers, Step(i) \/ Crash(i)
  PROVE  /\ pc[i] \in Working
         /\ alone' = alone /\ before' = before /\ version' = version
         /\ \A j \in Installers \ {i} :
              /\ pc'[j] = pc[j] /\ force'[j] = force[j] /\ action'[j] = action[j]
              /\ todo'[j] = todo[j] /\ moved'[j] = moved[j] /\ backup'[j] = backup[j]
              /\ restored'[j] = restored[j] /\ reasons'[j] = reasons[j]
              /\ outcome'[j] = outcome[j]
<1> USE DEF TypeOK, Working
<1>1. CASE PlanOverturned(i)
  BY <1>1 DEF PlanOverturned, Ends
<1>2. CASE Stage(i)
  BY <1>2 DEF Stage
<1>3. CASE StageRejected(i)
  BY <1>3 DEF StageRejected, Ends
<1>4. CASE BackUp(i)
  BY <1>4 DEF BackUp
<1>5. CASE BackedUpAll(i) \/ MovedAll(i) \/ RemovedAll(i) \/ RestoredAll(i)
  BY <1>5 DEF BackedUpAll, MovedAll, RemovedAll, RestoredAll
<1>6. CASE Move(i)
  BY <1>6 DEF Move
<1>7. CASE ApplyFails(i)
  BY <1>7 DEF ApplyFails, StartRollback
<1>8. CASE CheckPasses(i)
  BY <1>8 DEF CheckPasses, Ends
<1>9. CASE CheckFails(i)
  BY <1>9 DEF CheckFails, StartRollback
<1>10. CASE RemoveNew(i)
  BY <1>10 DEF RemoveNew, Removed, NotRemoved
<1>11. CASE RestoreBackup(i)
  BY <1>11 DEF RestoreBackup, Restored, NotRestored
<1>12. CASE Judge(i)
  BY <1>12 DEF Judge, Ends
<1>13. CASE Crash(i)
  BY <1>13 DEF Crash, Ends
<1>14. QED
  BY <1>1, <1>2, <1>3, <1>4, <1>5, <1>6, <1>7, <1>8, <1>9, <1>10, <1>11, <1>12, <1>13
  DEF Step

(* An installer that is alone takes every step itself.                     *)
LEMMA OnlyOne ==
  ASSUME TypeOK, AloneInv, Next, NEW i \in Installers, alone'[i]
  PROVE  \/ \E v \in Versions, f \in BOOLEAN : Begin(i, v, f)
         \/ alone[i] /\ (Step(i) \/ Crash(i))
<1>1. ASSUME NEW j \in Installers, j # i, NEW v \in Versions, NEW f \in BOOLEAN,
             Begin(j, v, f)
      PROVE  FALSE
  BY <1>1 DEF Begin
<1>2. ASSUME NEW j \in Installers, j # i, Step(j) \/ Crash(j)
      PROVE  FALSE
  BY <1>2, WorkersStep DEF AloneInv
<1>3. Step(i) \/ Crash(i) => alone[i]
  BY WorkersStep
<1>4. QED
  BY <1>1, <1>2, <1>3 DEF Next

LEMMA AloneStep ==
  ASSUME TypeOK, AloneInv, [Next]_installVars
  PROVE  AloneInv'
<1> USE DEF AloneInv
<1>1. ASSUME NEW i \in Installers, NEW v \in Versions, NEW f \in BOOLEAN, Begin(i, v, f)
      PROVE  AloneInv'
  BY <1>1 DEF Begin, TypeOK
<1>2. ASSUME NEW i \in Installers, Step(i) \/ Crash(i)
      PROVE  AloneInv'
  BY <1>2, WorkersStep
<1>3. CASE UNCHANGED installVars
  BY <1>3 DEF installVars, process
<1>4. QED
  BY <1>1, <1>2, <1>3 DEF Next

(* An installer at work keeps to the places of its version.                *)
LEMMA WorkStep ==
  ASSUME TypeOK, WorkInv, [Next]_installVars
  PROVE  WorkInv'
<1> SUFFICES ASSUME NEW i \in Installers PROVE AtWork(i)'
  BY DEF WorkInv
<1> USE DEF TypeOK, AtWork, Working, RollingBack, BackedUpPlaces
<1>1. AtWork(i)
  BY DEF WorkInv
<1>2. /\ InOrder(version[i]) \in Seq(Places)
      /\ Range(InOrder(version[i])) = Managed(version[i])
      /\ Managed(version[i])' = Managed(version'[i])
  BY Owned DEF Managed, InOrder
<1>3. todo[i] # << >> =>
        /\ Head(todo[i]) \in Range(todo[i])
        /\ Range(Tail(todo[i])) \subseteq Range(todo[i])
  BY HeadAndTail
<1>4. Range(<< >>) = {}
  BY NoneToDo
<1>5. Range(todo[i])' = Range(todo'[i])
  BY DEF Range
<1>6. ASSUME NEW j \in Installers, j # i, Step(j) \/ Crash(j) PROVE AtWork(i)'
  BY <1>1, <1>2, <1>5, <1>6, WorkersStep
<1>7. ASSUME NEW j \in Installers, NEW v \in Versions, NEW f \in BOOLEAN, Begin(j, v, f)
      PROVE  AtWork(i)'
  <2>1. CASE i = j
    <3>1. /\ pc[i] = "idle" /\ moved'[i] = {} /\ ~ reasons'[i] /\ restored'[i] = {}
          /\ backup'[i] = Nothing /\ todo'[i] = << >> /\ pc'[i] \in {"idle", "applying"}
      BY <1>1, <1>7, <2>1 DEF Begin
    <3>2. {p \in Places : backup'[i][p] # Absent} = {}
      BY <3>1 DEF Nothing
    <3>3. QED
      BY <1>4, <1>5, <1>7, <2>1, <3>1, <3>2, PlanType DEF Begin
  <2>2. CASE i # j
    BY <1>1, <1>2, <1>5, <1>7, <2>2 DEF Begin
  <2>3. QED
    BY <2>1, <2>2
<1>8. CASE PlanOverturned(i)
  BY <1>1, <1>8 DEF PlanOverturned, Ends
<1>9. CASE Stage(i)
  <2>1. PlanAction(version[i], force[i]) = "replace" => force[i]
    BY PlanType
  <2>2. QED
    BY <1>1, <1>2, <1>5, <1>9, <2>1 DEF Stage
<1>10. CASE StageRejected(i)
  BY <1>1, <1>10 DEF StageRejected, Ends
<1>11. CASE BackUp(i)
  <2>1. backup'[i] = backup[i] \/ backup'[i] = [backup[i] EXCEPT ![Head(todo[i])] = prefix[Head(todo[i])]]
    BY <1>11 DEF BackUp, BackedUp
  <2>2. {p \in Places : backup'[i][p] # Absent}
          \subseteq {p \in Places : backup[i][p] # Absent} \cup {Head(todo[i])}
    BY <2>1
  <2>3. QED
    BY <1>1, <1>2, <1>3, <1>5, <1>11, <2>2 DEF BackUp
<1>12. CASE BackedUpAll(i)
  BY <1>1, <1>2, <1>5, <1>12 DEF BackedUpAll
<1>13. CASE Move(i)
  BY <1>1, <1>2, <1>3, <1>5, <1>13 DEF Move
<1>14. CASE MovedAll(i)
  BY <1>1, <1>2, <1>5, <1>14 DEF MovedAll
<1>15. CASE ApplyFails(i)
  BY <1>1, <1>2, <1>5, <1>15 DEF ApplyFails, StartRollback
<1>16. CASE CheckPasses(i)
  BY <1>1, <1>16 DEF CheckPasses, Ends
<1>17. CASE CheckFails(i)
  BY <1>1, <1>2, <1>5, <1>17 DEF CheckFails, StartRollback
<1>18. CASE RemoveNew(i)
  BY <1>1, <1>2, <1>3, <1>5, <1>18 DEF RemoveNew, Removed, NotRemoved
<1>19. CASE RemovedAll(i)
  BY <1>1, <1>2, <1>5, <1>19 DEF RemovedAll
<1>20. CASE RestoreBackup(i)
  BY <1>1, <1>2, <1>3, <1>5, <1>20 DEF RestoreBackup, Restored, NotRestored
<1>21. CASE RestoredAll(i)
  BY <1>1, <1>2, <1>5, <1>21 DEF RestoredAll
<1>22. CASE Judge(i)
  BY <1>1, <1>22 DEF Judge, Ends
<1>23. CASE Crash(i)
  BY <1>1, <1>23 DEF Crash, Ends
<1>24. CASE UNCHANGED installVars
  BY <1>1, <1>2, <1>5, <1>24 DEF installVars, process
<1>25. QED
  BY <1>6, <1>7, <1>8, <1>9, <1>10, <1>11, <1>12, <1>13, <1>14, <1>15, <1>16, <1>17,
     <1>18, <1>19, <1>20, <1>21, <1>22, <1>23, <1>24 DEF Next, Step

(* What a place counts for is there, in a backup, or was never there.      *)
LEMMA PlaceStep ==
  ASSUME TypeOK, AloneInv, WorkInv, PlaceInv, [Next]_installVars
  PROVE  PlaceInv'
<1> SUFFICES ASSUME NEW i \in Installers, alone'[i], pc'[i] \in Working, NEW p \in Places
             PROVE  Accounted(i, p)'
  BY DEF PlaceInv, Working
<1> USE DEF TypeOK, Accounted, Counts
<1>1. AtWork(i)
  BY DEF WorkInv
<1>2. /\ Range(InOrder(version[i])) = Managed(version[i])
      /\ Managed(version[i])' = Managed(version'[i])
  BY Owned DEF Managed, InOrder
<1>3. todo[i] # << >> =>
        /\ Head(todo[i]) \in Range(todo[i])
        /\ Head(todo[i]) \in Places
        /\ Range(todo[i]) \subseteq Range(Tail(todo[i])) \cup {Head(todo[i])}
  BY HeadAndTail
<1>4. Range(todo[i])' = Range(todo'[i]) /\ Range(<< >>) = {}
  BY NoneToDo DEF Range
<1>5. ASSUME NEW v \in Versions, NEW f \in BOOLEAN, Begin(i, v, f)
      PROVE  Accounted(i, p)'
  <2>1. /\ pc'[i] = "applying" /\ prefix' = prefix /\ before'[i] = prefix
        /\ backup'[i] = Nothing /\ moved'[i] = {} /\ restored'[i] = {}
    BY <1>1, <1>5, PlanType DEF Begin, AtWork, Working
  <2>2. QED
    BY <2>1 DEF Nothing
<1>6. ASSUME alone[i], Step(i) \/ Crash(i)
      PROVE  Accounted(i, p)'
  <2>1. /\ pc[i] \in Working /\ before' = before /\ version' = version
        /\ \A q \in Places : Accounted(i, q)
    BY <1>6, WorkersStep DEF PlaceInv
  <2>2. CASE PlanOverturned(i)
    BY <2>2 DEF PlanOverturned, Ends, Working
  <2>3. CASE Stage(i)
    <3>1. /\ pc[i] = "applying" /\ prefix' = prefix /\ backup' = backup /\ restored' = restored
          /\ moved' = moved /\ reasons' = reasons /\ todo'[i] = InOrder(version[i])
      BY <2>3 DEF Stage
    <3>2. pc'[i] = "moving" => \A q \in Managed(version[i]) : ~ Counts(prefix[q])
      BY <2>3, PlanType DEF Stage, Exists
    <3>3. pc'[i] \in {"backing", "moving"}
      BY <2>3 DEF Stage
    <3>4. QED
      BY <1>1, <1>2, <1>4, <2>1, <3>1, <3>2, <3>3 DEF AtWork
  <2>4. CASE StageRejected(i)
    BY <2>4 DEF StageRejected, Ends, Working
  <2>5. CASE BackUp(i)
    <3>1. /\ pc[i] = "backing" /\ todo[i] # << >> /\ pc' = pc
          /\ moved' = moved /\ restored' = restored /\ reasons' = reasons
          /\ todo'[i] = Tail(todo[i])
      BY <2>5 DEF BackUp
    <3>2. moved[i] = {} /\ restored[i] = {}
      BY <1>1, <3>1 DEF AtWork
    <3>3. CASE p = Head(todo[i]) /\ Exists(p)
      <4>1. prefix'[p] = Absent /\ backup'[i][p] = prefix[p] /\ prefix[p] # Absent
        BY <2>5, <3>3 DEF BackUp, BackedUp, Exists
      <4>2. prefix[p] = before[i][p]
        BY <2>1, <3>2, <4>1
      <4>3. QED
        BY <2>1, <3>1, <3>2, <4>1, <4>2
    <3>4. CASE ~ (p = Head(todo[i]) /\ Exists(p))
      <4>1. prefix'[p] = prefix[p] /\ backup'[i][p] = backup[i][p]
        BY <1>3, <2>5, <3>1, <3>4 DEF BackUp, BackedUp
      <4>2. Counts(prefix[p]) /\ p \in Managed(version[i]) => p \in Range(Tail(todo[i]))
        BY <1>3, <2>1, <3>1, <3>4 DEF Exists
      <4>3. QED
        BY <1>2, <1>4, <2>1, <3>1, <3>2, <4>1, <4>2
    <3>5. QED
      BY <3>3, <3>4
  <2>6. CASE BackedUpAll(i)
    BY <1>1, <1>2, <1>4, <2>1, <2>6 DEF BackedUpAll, AtWork
  <2>7. CASE Move(i)
    <3>1. /\ pc[i] = "moving" /\ todo[i] # << >> /\ pc' = pc
          /\ restored' = restored /\ reasons' = reasons /\ backup' = backup
          /\ moved'[i] = moved[i] \cup {Head(todo[i])}
      BY <2>7 DEF Move
    <3>2. restored[i] = {} /\ Range(todo[i]) \subseteq Managed(version[i])
      BY <1>1, <3>1 DEF AtWork, Working
    <3>3. CASE p = Head(todo[i])
      <4>1. p \in moved'[i] /\ p \in Managed(version[i])
        BY <1>3, <3>1, <3>2, <3>3
      <4>2. Counts(before[i][p]) => backup[i][p] # Absent
        BY <2>1, <3>1, <4>1
      <4>3. QED
        BY <1>2, <2>1, <3>1, <3>2, <4>1, <4>2
    <3>4. CASE p # Head(todo[i])
      <4>1. prefix'[p] = prefix[p]
        BY <1>3, <2>7, <3>1, <3>4 DEF Move
      <4>2. QED
        BY <1>2, <2>1, <3>1, <3>2, <3>4, <4>1
    <3>5. QED
      BY <3>3, <3>4
  <2>8. CASE MovedAll(i)
    BY <1>1, <1>2, <1>4, <2>1, <2>8 DEF MovedAll, AtWork
  <2>9. CASE ApplyFails(i) \/ CheckFails(i)
    <3>1. /\ pc[i] \in {"backing", "moving", "checking"} /\ pc'[i] = "removing"
          /\ todo'[i] = InOrder(version[i])
          /\ UNCHANGED <<prefix, moved, backup, restored, reasons>>
      BY <2>9 DEF ApplyFails, CheckFails, StartRollback
    <3>2. moved[i] \subseteq Managed(version[i])
      BY <1>1, <2>1 DEF AtWork
    <3>3. QED
      BY <1>2, <1>4, <2>1, <3>1, <3>2
  <2>10. CASE CheckPasses(i)
    BY <2>10 DEF CheckPasses, Ends, Working
  <2>11. CASE RemoveNew(i)
    <3>1. /\ pc[i] = "removing" /\ todo[i] # << >> /\ pc' = pc
          /\ moved' = moved /\ backup' = backup /\ restored' = restored
          /\ todo'[i] = Tail(todo[i])
          /\ reasons[i] => reasons'[i]
      BY <2>11 DEF RemoveNew, Removed, NotRemoved
    <3>2. restored[i] = {}
      BY <1>1, <3>1 DEF AtWork
    <3>3. CASE p = Head(todo[i]) /\ p \in moved[i]
      <4>1. prefix'[p] = Absent \/ (prefix'[p] = prefix[p] /\ reasons'[i])
        BY <2>11, <3>3 DEF RemoveNew, Removed, NotRemoved, Undo
      <4>2. QED
        BY <1>4, <2>1, <3>1, <3>2, <3>3, <4>1
    <3>4. CASE p = Head(todo[i]) /\ p \notin moved[i]
      <4>1. prefix'[p] = prefix[p]
        BY <2>11, <3>4 DEF RemoveNew, Removed, NotRemoved, Undo
      <4>2. QED
        BY <1>4, <2>1, <3>1, <3>2, <3>4, <4>1
    <3>5. CASE p # Head(todo[i])
      <4>1. prefix'[p] = prefix[p]
        BY <1>3, <2>11, <3>1, <3>5 DEF RemoveNew, Removed, NotRemoved
      <4>2. p \in Range(todo[i]) => p \in Range(Tail(todo[i]))
        BY <1>3, <3>1, <3>5
      <4>3. QED
        BY <1>4, <2>1, <3>1, <3>2, <4>1, <4>2
    <3>6. QED
      BY <3>3, <3>4, <3>5
  <2>12. CASE RemovedAll(i)
    BY <1>4, <2>1, <2>12 DEF RemovedAll
  <2>13. CASE RestoreBackup(i)
    <3>1. /\ pc[i] = "restoring" /\ todo[i] # << >> /\ pc' = pc
          /\ moved' = moved /\ backup' = backup
          /\ restored[i] \subseteq restored'[i]
          /\ restored'[i] \subseteq restored[i] \cup {Head(todo[i])}
          /\ reasons[i] => reasons'[i]
      BY <2>13 DEF RestoreBackup, Restored, NotRestored
    <3>2. CASE p = Head(todo[i]) /\ p \in BackedUpPlaces(i) /\ Restored(i, p)
      <4>1. prefix'[p] = backup[i][p] /\ p \in restored'[i] /\ backup[i][p] # Absent
        BY <3>2 DEF Restored, BackedUpPlaces
      <4>2. QED
        BY <2>1, <3>1, <4>1
    <3>3. CASE p = Head(todo[i]) /\ ~ (p \in BackedUpPlaces(i) /\ Restored(i, p))
      <4>1. prefix'[p] = prefix[p] /\ restored'[i] = restored[i]
        BY <2>13, <3>3 DEF RestoreBackup, NotRestored
      <4>2. QED
        BY <2>1, <3>1, <4>1
    <3>4. CASE p # Head(todo[i])
      <4>1. prefix'[p] = prefix[p] /\ (p \in restored'[i] <=> p \in restored[i])
        BY <1>3, <2>13, <3>1, <3>4 DEF RestoreBackup, Restored, NotRestored
      <4>2. QED
        BY <2>1, <3>1, <4>1
    <3>5. QED
      BY <3>2, <3>3, <3>4
  <2>14. CASE RestoredAll(i)
    BY <1>4, <2>1, <2>14 DEF RestoredAll
  <2>15. CASE Judge(i)
    BY <2>15 DEF Judge, Ends, Working
  <2>16. CASE Crash(i)
    BY <2>16 DEF Crash, Ends, Working
  <2>17. QED
    BY <1>6, <2>2, <2>3, <2>4, <2>5, <2>6, <2>7, <2>8, <2>9, <2>10, <2>11, <2>12, <2>13,
       <2>14, <2>15, <2>16 DEF Step
<1>7. CASE UNCHANGED installVars
  BY <1>2, <1>4, <1>7 DEF installVars, process, PlaceInv
<1>8. QED
  BY <1>5, <1>6, <1>7, OnlyOne

-----------------------------------------------------------------------------
(* A transaction that begins finds the prefix as its history records it.   *)
LEMMA Refused ==
  ASSUME NEW i \in Installers, NEW v \in Versions, NEW f \in BOOLEAN, Begin(i, v, f),
         alone'[i], TypeOK
  PROVE  /\ prefix' = prefix /\ before'[i] = prefix
         /\ pc'[i] = "idle" => outcome'[i] = "blocked"
  BY DEF Begin, TypeOK

(* The steps that end an invocation, and what they report.                 *)
LEMMA LastSteps ==
  ASSUME TypeOK, NEW i \in Installers, Step(i) \/ Crash(i), pc'[i] = "idle"
  PROVE  \/ /\ PlanOverturned(i) \/ StageRejected(i)
            /\ pc[i] = "applying"
            /\ outcome'[i] = "already-installed" => ExactlyInstalled(version[i])
         \/ CheckPasses(i) /\ outcome'[i] \in Successes
         \/ Judge(i) /\ outcome'[i] = (IF RollbackClean(i) THEN outcome[i] ELSE "rollback_failed")
         \/ Crash(i) /\ outcome'[i] = "died"
<1> USE DEF TypeOK
<1>1. CASE PlanOverturned(i)
  BY <1>1, PlanType DEF PlanOverturned, Ends
<1>2. CASE StageRejected(i)
  BY <1>2 DEF StageRejected, Ends
<1>3. CASE CheckPasses(i)
  BY <1>3 DEF CheckPasses, Ends, Successes
<1>4. CASE Judge(i)
  BY <1>4 DEF Judge, Ends
<1>5. CASE Crash(i)
  BY <1>5 DEF Crash, Ends
<1>6. CASE Stage(i)
  BY <1>6 DEF Stage
<1>7. CASE BackUp(i) \/ BackedUpAll(i) \/ Move(i) \/ MovedAll(i) \/ RemoveNew(i) \/ RemovedAll(i)
             \/ RestoreBackup(i) \/ RestoredAll(i)
  BY <1>7 DEF BackUp, BackedUpAll, Move, MovedAll, RemoveNew, RemovedAll, RestoreBackup, RestoredAll
<1>8. CASE ApplyFails(i) \/ CheckFails(i)
  BY <1>8 DEF ApplyFails, CheckFails, StartRollback
<1>9. QED
  BY <1>1, <1>2, <1>3, <1>4, <1>5, <1>6, <1>7, <1>8 DEF Step

(* restoreBackups calls a rollback clean only if every place holds again   *)
(* what it held.                                                           *)
LEMMA CleanRollback ==
  ASSUME TypeOK, WorkInv, PlaceInv, NEW i \in Installers, alone[i],
         Judge(i), RollbackClean(i), NEW p \in Places
  PROVE  Counts(before[i][p]) \/ Counts(prefix[p]) => prefix[p] = before[i][p]
<1>1. pc[i] = "judging" /\ Accounted(i, p)
  BY DEF Judge, PlaceInv, Working
<1>2. ~ reasons[i] /\ (backup[i][p] # Absent => p \in restored[i])
  BY DEF RollbackClean, BackedUpPlaces
<1>3. CASE p \in restored[i]
  BY <1>1, <1>3 DEF Accounted
<1>4. CASE p \notin restored[i]
  <2>1. p \in moved[i] => prefix[p] = Absent /\ ~ Counts(before[i][p])
    BY <1>1, <1>2, <1>4 DEF Accounted
  <2>2. p \notin moved[i] => prefix[p] = before[i][p]
    BY <1>1, <1>2, <1>4 DEF Accounted
  <2>3. QED
    BY <2>1, <2>2 DEF Counts
<1>5. QED
  BY <1>3, <1>4

LEMMA FailureStep ==
  ASSUME IInv, [Next]_installVars
  PROVE  FailureLeavesPrefix'
<1> USE DEF IInv
<1> SUFFICES ASSUME NEW i \in Installers, pc'[i] = "idle", outcome'[i] \in Failures, alone'[i],
                    NEW p \in Managed(version'[i])
             PROVE  Counts(before'[i][p]) \/ Counts(prefix'[p]) => prefix'[p] = before'[i][p]
  BY DEF FailureLeavesPrefix, Managed, InOrder, Counts
<1>1. p \in Places
  BY TypeStep, Owned DEF TypeOK
<1>2. ASSUME NEW v \in Versions, NEW f \in BOOLEAN, Begin(i, v, f)
      PROVE  prefix'[p] = before'[i][p]
  BY <1>2, Refused
<1>3. ASSUME alone[i], Step(i) \/ Crash(i)
      PROVE  Counts(before'[i][p]) \/ Counts(prefix'[p]) => prefix'[p] = before'[i][p]
  <2>1. before' = before /\ version' = version /\ pc[i] \in Working
    BY <1>3, WorkersStep
  <2>2. CASE (PlanOverturned(i) \/ StageRejected(i)) /\ pc[i] = "applying"
    <3>1. prefix' = prefix
      BY <2>2 DEF PlanOverturned, StageRejected, Ends
    <3>2. prefix[p] = before[i][p]
      BY <1>1, <1>3, <2>1, <2>2 DEF PlaceInv, Accounted
    <3>3. QED
      BY <2>1, <3>1, <3>2
  <2>3. CASE Judge(i) /\ outcome'[i] = (IF RollbackClean(i) THEN outcome[i] ELSE "rollback_failed")
    <3>1. RollbackClean(i)
      BY <2>3 DEF Failures
    <3>2. prefix' = prefix
      BY <2>3 DEF Judge, Ends
    <3>3. QED
      BY <1>1, <1>3, <2>1, <2>3, <3>1, <3>2, CleanRollback
  <2>4. QED
    BY <1>3, <2>2, <2>3, LastSteps DEF Failures, Successes
<1>4. CASE UNCHANGED installVars
  BY <1>4 DEF installVars, process, FailureLeavesPrefix
<1>5. QED
  BY <1>2, <1>3, <1>4, OnlyOne

LEMMA PreviousStep ==
  ASSUME IInv, PlaceInv', [Next]_installVars
  PROVE  PreviousSurvives'
<1> USE DEF IInv
<1> SUFFICES ASSUME NEW i \in Installers, alone'[i], pc'[i] # "idle" \/ outcome'[i] \notin Successes,
                    NEW p \in Places, Counts(before'[i][p])
             PROVE  \/ prefix'[p] = before'[i][p]
                    \/ p \notin restored'[i] /\ backup'[i][p] = before'[i][p]
  BY DEF PreviousSurvives, Counts
<1>1. CASE pc'[i] # "idle"
  <2>1. pc'[i] \in Working
    BY <1>1, TypeStep DEF TypeOK
  <2>2. Accounted(i, p)'
    BY <2>1 DEF PlaceInv
  <2>3. QED
    BY <2>2 DEF Accounted, Counts
<1>2. CASE pc'[i] = "idle"
  <2>1. ASSUME NEW v \in Versions, NEW f \in BOOLEAN, Begin(i, v, f)
        PROVE  prefix'[p] = before'[i][p]
    BY <2>1, Refused
  <2>2. ASSUME alone[i], Step(i) \/ Crash(i)
        PROVE  \/ prefix'[p] = before'[i][p]
               \/ p \notin restored'[i] /\ backup'[i][p] = before'[i][p]
    <3>1. before' = before /\ version' = version /\ pc[i] \in Working
      BY <2>2, WorkersStep
    <3>2. Accounted(i, p)
      BY <2>2, <3>1 DEF PlaceInv
    <3>3. CASE (PlanOverturned(i) \/ StageRejected(i)) /\ pc[i] = "applying"
      <4>1. prefix' = prefix
        BY <3>3 DEF PlanOverturned, StageRejected, Ends
      <4>2. QED
        BY <3>1, <3>2, <3>3, <4>1 DEF Accounted
    <3>4. CASE CheckPasses(i) /\ outcome'[i] \in Successes
      BY <1>2, <3>4
    <3>5. CASE Judge(i) /\ RollbackClean(i)
      <4>1. prefix' = prefix
        BY <3>5 DEF Judge, Ends
      <4>2. QED
        BY <2>2, <3>1, <3>5, <4>1, CleanRollback
    <3>6. CASE (Judge(i) /\ ~ RollbackClean(i)) \/ Crash(i)
      <4>1. prefix' = prefix /\ backup'[i] = backup[i] /\ restored'[i] = restored[i]
        BY <2>2, <3>6 DEF Judge, Crash, Ends
      <4>2. QED
        BY <3>1, <3>2, <4>1 DEF Accounted, Counts
    <3>7. QED
      BY <1>2, <2>2, <3>3, <3>4, <3>5, <3>6, LastSteps
  <2>3. CASE UNCHANGED installVars
    BY <2>3 DEF installVars, process, PreviousSurvives
  <2>4. QED
    BY <2>1, <2>2, <2>3, OnlyOne
<1>3. QED
  BY <1>1, <1>2

LEMMA SuccessStep ==
  ASSUME IInv, [Next]_installVars
  PROVE  SuccessIsComplete'
<1> USE DEF IInv
<1> SUFFICES ASSUME NEW i \in Installers, pc'[i] = "idle", outcome'[i] \in Successes, alone'[i]
             PROVE  ExactlyInstalled(version[i])'
  BY DEF SuccessIsComplete, ExactlyInstalled, Managed, InOrder
<1>1. ASSUME NEW v \in Versions, NEW f \in BOOLEAN, Begin(i, v, f)
      PROVE  FALSE
  BY <1>1, Refused DEF Successes
<1>2. ASSUME alone[i], Step(i) \/ Crash(i)
      PROVE  ExactlyInstalled(version[i])'
  <2>1. version' = version
    BY <1>2, WorkersStep
  <2>2. CASE PlanOverturned(i) /\ outcome'[i] = "already-installed"
    <3>1. prefix' = prefix
      BY <2>2 DEF PlanOverturned, Ends
    <3>2. ExactlyInstalled(version[i])
      BY <2>2, PlanType DEF PlanOverturned, Ends, TypeOK
    <3>3. QED
      BY <2>1, <3>1, <3>2 DEF ExactlyInstalled, Managed, InOrder
  <2>3. CASE PlanOverturned(i) /\ outcome'[i] = "blocked"
    BY <2>3 DEF Successes
  <2>4. CASE StageRejected(i)
    BY <2>4 DEF StageRejected, Ends, Successes, TypeOK
  <2>5. CASE CheckPasses(i)
    <3>1. prefix' = prefix /\ ExactlyInstalled(version[i])
      BY <2>5 DEF CheckPasses, Ends
    <3>2. QED
      BY <2>1, <3>1 DEF ExactlyInstalled, Managed, InOrder
  <2>6. CASE Judge(i) /\ outcome'[i] = (IF RollbackClean(i) THEN outcome[i] ELSE "rollback_failed")
    <3>1. outcome[i] \notin Successes
      BY <2>6 DEF Judge, WorkInv, AtWork, RollingBack, Successes
    <3>2. QED
      BY <2>6, <3>1 DEF Successes
  <2>7. PlanOverturned(i) => outcome'[i] \in {"already-installed", "blocked"}
    BY DEF PlanOverturned, Ends, TypeOK
  <2>8. QED
    BY <1>2, <2>2, <2>3, <2>4, <2>5, <2>6, <2>7, LastSteps DEF Successes
<1>3. CASE UNCHANGED installVars
  BY <1>3 DEF installVars, process, SuccessIsComplete, ExactlyInstalled, Managed, InOrder
<1>4. QED
  BY <1>1, <1>2, <1>3, OnlyOne

-----------------------------------------------------------------------------
LEMMA Invariance == Spec => []IInv
<1>1. IInv /\ [Next]_installVars => IInv'
  <2> SUFFICES ASSUME IInv, [Next]_installVars PROVE IInv'
    OBVIOUS
  <2>1. TypeOK' /\ AloneInv' /\ WorkInv' /\ PlaceInv'
    BY TypeStep, AloneStep, WorkStep, PlaceStep DEF IInv
  <2>2. FailureLeavesPrefix' /\ PreviousSurvives' /\ SuccessIsComplete'
    BY <2>1, FailureStep, PreviousStep, SuccessStep
  <2>3. QED
    BY <2>1, <2>2 DEF IInv
<1>2. QED
  BY <1>1, InitInvariant, PTL DEF Spec

(* All or nothing: an installer that was alone and reports a failure other *)
(* than rollback_failed left every managed place as it found it.           *)
THEOREM AllOrNothing == Spec => []FailureLeavesPrefix
<1>1. IInv => FailureLeavesPrefix
  BY DEF IInv
<1>2. QED
  BY <1>1, Invariance, PTL

(* At every moment of an undisturbed transaction, and after a rollback     *)
(* that failed or the death of the process, what a place held is there or  *)
(* in the transaction directory.                                           *)
THEOREM PreviousIsSafe == Spec => []PreviousSurvives
<1>1. IInv => PreviousSurvives
  BY DEF IInv
<1>2. QED
  BY <1>1, Invariance, PTL

(* An installer that was alone reports success only for a whole product.   *)
THEOREM SuccessMeansInstalled == Spec => []SuccessIsComplete
<1>1. IInv => SuccessIsComplete
  BY DEF IInv
<1>2. QED
  BY <1>1, Invariance, PTL

(* Without --force nothing is displaced that was there before.             *)
THEOREM NothingWithoutForce == Spec => ForceIsNeeded
<1> DEFINE Displaced == \A p \in Places : Counts(prefix[p]) /\ prefix'[p] # prefix[p] =>
       \E i \in Installers :
         pc[i] \in Working /\ (force[i] \/ ~ alone[i] \/ p \in moved[i])
<1>1. ASSUME IInv, Next PROVE Displaced
  <2> SUFFICES ASSUME NEW p \in Places, Counts(prefix[p]), prefix'[p] # prefix[p]
               PROVE  \E i \in Installers :
                        pc[i] \in Working /\ (force[i] \/ ~ alone[i] \/ p \in moved[i])
    OBVIOUS
  <2>1. PICK i \in Installers : BackUp(i) \/ Move(i) \/ RemoveNew(i) \/ RestoreBackup(i)
    BY <1>1 DEF Next, Step, Begin, PlanOverturned, Stage, StageRejected, BackedUpAll, MovedAll,
       ApplyFails, CheckPasses, CheckFails, StartRollback, RemovedAll, RestoredAll, Judge, Crash,
       Ends
  <2>2. pc[i] \in Working /\ AtWork(i) /\ (alone[i] => Accounted(i, p))
    BY <1>1, <2>1 DEF BackUp, Move, RemoveNew, RestoreBackup, Working, IInv, WorkInv, PlaceInv
  <2>3. todo[i] # << >> =>
          Head(todo[i]) \in Range(todo[i]) /\ Range(todo[i]) \subseteq Managed(version[i])
    BY <1>1, <2>2, HeadAndTail DEF IInv, TypeOK, AtWork
  <2>4. CASE BackUp(i)
    <3>1. force[i]
      BY <2>2, <2>4 DEF BackUp, AtWork
    <3>2. QED
      BY <2>2, <3>1
  <2>5. CASE Move(i)
    <3>1. p = Head(todo[i]) /\ pc[i] = "moving" /\ todo[i] # << >>
      BY <1>1, <2>5 DEF Move, IInv, TypeOK
    <3>2. alone[i] => p \in moved[i]
      BY <2>2, <2>3, <3>1 DEF Accounted
    <3>3. QED
      BY <2>2, <3>2
  <2>6. CASE RemoveNew(i)
    <3>1. p \in moved[i]
      BY <1>1, <2>6 DEF RemoveNew, Removed, NotRemoved, Undo, IInv, TypeOK
    <3>2. QED
      BY <2>2, <3>1
  <2>7. CASE RestoreBackup(i)
    BY <1>1, <2>7 DEF RestoreBackup, Restored, NotRestored, Present, Counts, IInv, TypeOK
  <2>8. QED
    BY <2>1, <2>4, <2>5, <2>6, <2>7
<1>2. IInv /\ [Next]_installVars => [Displaced]_installVars
  BY <1>1
<1>3. QED
  BY <1>2, Invariance, PTL DEF Spec, ForceIsNeeded
=============================================================================
