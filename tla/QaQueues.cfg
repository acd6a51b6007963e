SPECIFICATION MCSpec
CONSTANTS
  cardA = cardA
  cardB = cardB
  cardC = cardC
  cardD = cardD
  u1 = u1
  w1 = w1
  w2 = w2
  User = {u1, u2}
  Task = {cardA, cardB, cardC, cardD}
  Project <- ProjectOf
  Listener = {u1, u2}
  Worker = {w1}
  MaxRow = 3
  MaxLeave = 1
  MaxGone = 1
  MaxFail = 0
SYMMETRY Symmetry
INVARIANTS SerialNeverCollides SerialStreamsAgree SerialCardsBelong
INVARIANTS CommitsWhole
PROPERTIES SerialImplementsQueues
