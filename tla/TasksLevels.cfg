SPECIFICATION Spec
CONSTANTS
  NONE = NONE
  KEEP = KEEP
  Task = {t1, t2, t3}
  Project = {p}
  Creator = {c1}
  Editor = {e1}
  Remover = {}
  Manager = {}
  Edit <- Nest
SYMMETRY Symmetry
INVARIANTS TwoLevels
CHECK_DEADLOCK FALSE
