------------------------------- MODULE MCQaRuns -------------------------------
(* QaQueue for TLC, twice: calls of two users on two projects one after      *)
(* another, and two calls at once on the queue of one user, either of which  *)
(* may die half way.                                                        *)
EXTENDS MCQaQueue

CONSTANTS u1, w1, w2

VARIABLE mode

Race == INSTANCE QaQueue WITH
  User <- {u1}, Task <- {cardA, cardB}, Listener <- {}, Worker <- {w1, w2}, MaxFail <- 1

MCInit ==
  \/ mode = "serial" /\ Init
  \/ mode = "race" /\ Race!Init

MCNext ==
  /\ \/ mode = "serial" /\ Next
     \/ mode = "race" /\ Race!Next
  /\ UNCHANGED mode

\* Two cards of one project, both of them in either instance.
Symmetry == Permutations({cardA, cardB})

MCSpec == MCInit /\ [][MCNext]_<<vars, mode>>
=============================================================================
