---------------------------- MODULE MCBoardCycles ----------------------------
(* Small instances of BoardCycles for TLC. *)
EXTENDS BoardCycles, TLC

\* For safety properties: no task is special.
Symmetry == Permutations(Task)
=============================================================================
