----------------------------- MODULE CycleWindows -----------------------------
(* CycleCalendar against reference definitions: a project is created on some *)
(* day and time passes, to a day that is a bound.                            *)
EXTENDS CycleCalendar, FiniteSets

CONSTANT MaxDay

ASSUME CalendarAssumption == MaxDay \in Int

VARIABLES created, now

Created == created \in -2 .. 2 * CycleDays /\ now = created

\* Clocks may step back: a day before the creation day is a legal reference.
Tick == now' = now + 1 /\ now < MaxDay /\ UNCHANGED created
Back == now' = now - 1 /\ now > created - 2 /\ UNCHANGED created

Pass == Tick \/ Back

Days(b) == b.startDate .. b.endDate
Current == getProjectAnchoredCycleBounds(created, now)

\* The window of today contains today, or the creation day when today is
\* before it, and it ends exactly when isCyclePeriodEnded says so.
CurrentWindowIsCurrent ==
  /\ Cardinality(Days(Current)) = CycleDays
  /\ (IF now < created THEN created ELSE now) \in Days(Current)
  /\ \A d \in created .. MaxDay :
       isCyclePeriodEnded(Current.endDate, d) <=>
         d \notin Days(Current) /\ d >= Current.startDate

\* The windows that bootstrapProjectCycles enters as closed cover each day
\* from the creation day to the day before the current window exactly once,
\* and the chain of next windows arrives at the current one.
BootstrapTilesThePast ==
  LET past == BootstrapWalk(created, now)
  IN  /\ UNION { Days(b) : b \in past } = created .. Current.startDate - 1
      /\ \A b, c \in past : b # c => Days(b) \cap Days(c) = {}
      /\ past # {} => \E b \in past : getNextCycleBounds(b.endDate) = Current

\* The windows of the present and of the past.
WindowsTile == CurrentWindowIsCurrent /\ BootstrapTilesThePast
=============================================================================
