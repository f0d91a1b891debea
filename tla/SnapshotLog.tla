----------------------------- MODULE SnapshotLog -----------------------------
(***************************************************************************)
(* What the Project Memory store promises its readers, with no files, no   *)
(* lock and no writers: an append-only log of snapshots and, for every     *)
(* piece of evidence the log has ever needed, the one observation that was *)
(* recorded for it.  ProjectStore implements this specification.           *)
(***************************************************************************)
EXTENDS Naturals, Sequences

CONSTANTS
  Snapshots,   \* snapshot identities (a digest of the finalized snapshot)
  Evidence,    \* evidence identities (a digest of the observed content)
  Refs,        \* Refs[s]: the evidence that snapshot s cites
  None         \* no observation

VARIABLES
  log,         \* the committed snapshots, in commit order
  observed     \* observed[e]: the capture whose observation of e is on record

logVars == <<log, observed>>

InLog(s) == \E i \in DOMAIN log : log[i] = s

LogInit ==
  /\ log = << >>
  /\ observed = [e \in Evidence |-> None]

(* A snapshot enters the log once, with all the evidence it cites on      *)
(* record; evidence already on record is never replaced.                  *)
AppendSnapshot(s) ==
  /\ ~ InLog(s)
  /\ log' = Append(log, s)
  /\ observed' \in [Evidence -> Snapshots \cup {None}]
  /\ \A e \in Evidence :
       /\ observed[e] # None => observed'[e] = observed[e]
       /\ e \in Refs[s] => observed'[e] # None
       /\ observed'[e] # observed[e] => e \in Refs[s]

(* The project's memory is deleted as a whole.                             *)
Erase ==
  /\ log # << >>
  /\ LogInit'

LogNext == Erase \/ \E s \in Snapshots : AppendSnapshot(s)

LogSpec == LogInit /\ [][LogNext]_logVars
=============================================================================
