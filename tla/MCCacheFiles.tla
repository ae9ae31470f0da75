---------------------------- MODULE MCCacheFiles ----------------------------
(***************************************************************************)
(* Bounds for CacheFiles: two generations of the package list and of the   *)
(* database, of one size, so that only the time tells them apart; the      *)
(* first list and the second database have dependencies on files.          *)
(***************************************************************************)
EXTENDS CacheFiles

CONSTANTS w, u

MCMaxGen == [s \in Sources |-> 2]
MCSizeOf == [s \in Sources |-> [g \in 1..2 |-> 1]]
MCFileDeps == [s \in Sources |-> IF s = "list" THEN {1} ELSE {2}]
=============================================================================
