SPECIFICATION Spec
CONSTANTS
  NONE = NONE
  KEEP = KEEP
  Task = {t1, t2}
  Project = {p, q}
  Creator = {c1}
  Editor = {e1}
  Remover = {}
  Manager = {}
  Edit <- Move
SYMMETRY Symmetry
INVARIANTS CounterAhead
CHECK_DEADLOCK FALSE
