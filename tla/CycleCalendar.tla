---------------------------- MODULE CycleCalendar ----------------------------
(***************************************************************************)
(* Date arithmetic of the board cycles (src/board-cycles/board-cycle.util).*)
(*                                                                         *)
(* A UTC date is its number of days from some epoch: the code only takes   *)
(* dates apart at UTC midnight, and its 'YYYY-MM-DD' strings compare as    *)
(* the days they name.  CycleDays is the literal 7 of the source.          *)
(***************************************************************************)
EXTENDS Integers

CONSTANT CycleDays

ASSUME CycleDaysAssumption == CycleDays \in Nat \ {0}

Bounds == [startDate : Int, endDate : Int]

\* The number of the window a reference day falls in, never negative.
CycleIndex(anchor, ref) ==
  IF ref < anchor THEN 0 ELSE (ref - anchor) \div CycleDays

Window(anchor, index) ==
  [startDate |-> anchor + index * CycleDays,
   endDate   |-> anchor + index * CycleDays + (CycleDays - 1)]

getProjectAnchoredCycleBounds(anchor, ref) ==
  Window(anchor, CycleIndex(anchor, ref))

\* Mutant: the next window starts on the last day of this one.
OverlappingBounds(closedEndDate) ==
  [startDate |-> closedEndDate, endDate |-> closedEndDate + (CycleDays - 1)]

getNextCycleBounds(closedEndDate) ==
  [startDate |-> closedEndDate + 1,
   endDate   |-> closedEndDate + 1 + (CycleDays - 1)]

\* Mutant: the last day is not part of the window.
EndedOnLastDay(endDate, today) == today >= endDate

isCyclePeriodEnded(endDate, today) == today > endDate

\* The windows bootstrapProjectCycles walks through to reach the window of
\* today: it starts from the window of the project's creation day and follows
\* getNextCycleBounds while the window ends before the current one starts.
BootstrapWalk(anchor, today) ==
  LET current == getProjectAnchoredCycleBounds(anchor, today)
      walk[n \in Nat] == IF n = 0
                         THEN getProjectAnchoredCycleBounds(anchor, anchor)
                         ELSE getNextCycleBounds(walk[n - 1].endDate)
  IN  { walk[n] : n \in { m \in 0 .. (today - anchor) :
                            walk[m].endDate < current.startDate } }
=============================================================================
