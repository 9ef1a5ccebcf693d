SPECIFICATION Spec
CONSTANTS
  w1 = w1  w2 = w2  k1 = k1  k2 = k2
  Workers = {w1, w2}
  Cards = {k1, k2, NoCard}
  NoCard = NoCard
  Cap = 2
  Limit = 2
  Window = 2
  MaxTime = 3
  MaxRequests = 4
SYMMETRY Interchangeable
CHECK_DEADLOCK FALSE
INVARIANTS
  TypeOK
  BurstBound
  DeclineJustified
