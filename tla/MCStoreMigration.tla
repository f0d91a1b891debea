--------------------------- MODULE MCStoreMigration ---------------------------
(* A small instance of StoreMigration for TLC: of the three snapshots the  *)
(* store inherited two have one time and the latest has the earliest.      *)
EXTENDS StoreMigration

MCSnapshots == 1..5
MCInherited == 1..3
MCTime == <<7, 7, 5, 8, 9>>
===============================================================================
