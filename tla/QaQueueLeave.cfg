SPECIFICATION Spec
CONSTANTS
  cardA = cardA
  cardB = cardB
  cardC = cardC
  cardD = cardD
  User = {u1}
  Task = {cardA, cardB}
  Project <- ProjectOf
  Listener = {}
  Worker = {w1, w2}
  MaxRow = 3
  MaxLeave = 1
  MaxGone = 1
  MaxFail = 0
INVARIANT LeavingDrops
