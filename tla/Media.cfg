SPECIFICATION Spec
CONSTANTS
  File = {f1, f2}
  User = {}
  Tick = {}
  Conn = {x1, x2}
  Room = 2
  MaxDepth = 2
  Nothing = nothing
INVARIANT QuotaHolds
CHECK_DEADLOCK FALSE
