---------------------------- MODULE CycleTimeline ----------------------------
(***************************************************************************)
(* What the board cycles of one project promise, without requests, rows or *)
(* transactions: the windows 0 .. last-1 are closed, the window last is    *)
(* active, and last only grows.  BoardCycles implements it.                *)
(***************************************************************************)
EXTENDS Integers

CONSTANT CycleDays

VARIABLES day,   \* days since the project was created
          last   \* the active window, -1 before the first one

Current == day \div CycleDays

Init == day = 0 /\ last = -1

NextDay == day' = day + 1 /\ UNCHANGED last

\* The first windows are entered at once.  A request that started before
\* midnight may commit after it; one that advances closes one window early.
Start ==
  /\ last = -1
  /\ last' \in 0 .. Current + 1
  /\ UNCHANGED day

\* Every window that has ended may be closed in one step...
CatchUp ==
  /\ last # -1
  /\ last' \in last + 1 .. Current
  /\ UNCHANGED day

\* ... and a user may close one that has not.
CloseEarly ==
  /\ last # -1
  /\ last' = last + 1
  /\ UNCHANGED day

Next == NextDay \/ Start \/ CatchUp \/ CloseEarly

Spec == Init /\ [][Next]_<<day, last>>
=============================================================================
