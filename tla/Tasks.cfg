SPECIFICATION FairSpec
CONSTANTS
  NONE = NONE
  KEEP = KEEP
  Task = {t1, t2}
  Project = {p, q}
  Creator = {c1, c2}
  Editor = {e1}
  Remover = {r1}
  Manager = {}
  Edit <- AnyBody
INVARIANTS TypeOK Acyclic
PROPERTIES ImplementsNumbers CreateEnds
CHECK_DEADLOCK FALSE
