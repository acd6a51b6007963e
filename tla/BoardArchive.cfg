SPECIFICATION Spec
CONSTANTS
  Task = {t1, t2}
  NoTask = none
  Scheduler = tick
  Request = {tick, u1}
  Editor = {ed}
  CycleDays = 1
  MaxDay = 2
  MaxWeek = 3
  MaxAdvances = 1
  MaxFails = 0
INVARIANT ArchivedIsSnapshotted
SYMMETRY Symmetry
