----------------------------- MODULE ProjectLock -----------------------------
(***************************************************************************)
(* What ProjectStore takes the project lock for, with no file, no clock    *)
(* and no attempts: a lock that one process has at a time, that only its   *)
(* owner gives back, that a process takes over only when the owner has     *)
(* died, and that nobody takes or removes once it is torn.  ProjectStore   *)
(* uses no more than this; StoreLock implements it until a lock file is    *)
(* removed by mistake.                                                     *)
(***************************************************************************)
CONSTANTS
  Procs,       \* the processes
  Free,        \* nobody has the lock
  DeadOwner,   \* a process had it when it died
  TornLock     \* a process died while it took it: whose it was is unknown

VARIABLE lock  \* who has the lock

LockInit == lock = Free

Take(p) == lock \in {Free, DeadOwner} /\ lock' = p
GiveBack(p) == lock = p /\ lock' = Free

(* A process dies with the lock, or while it takes it.                     *)
Die(p) == lock \in {Free, DeadOwner, p} /\ lock' \in {DeadOwner, TornLock}

(* A process makes a dead owner's lock free for everybody, itself included.*)
Reclaim == lock = DeadOwner /\ lock' = Free

LockNext == Reclaim \/ \E p \in Procs : Take(p) \/ GiveBack(p) \/ Die(p)

LockSpec == LockInit /\ [][LockNext]_lock
=============================================================================
