SPECIFICATION Spec
CONSTANTS
  t1 = t1  t2 = t2  c1 = c1  id1 = id1  id2 = id2
  Threads = {t1, t2}
  Coordinators = {c1}
  CoordOf <- OneCoordinator
  TxnIds = {id1, id2}
  NoTxn = NoTxn
  NoThread = NoThread
  MaxActive = 2
  MaxParticipants = 2
  FreshIds = FALSE
  MaxBegins = 1
  MaxCrashes = 0
INVARIANTS
  NoUseAfterFree
