SPECIFICATION PayFairSpec
CONSTANTS
  t1 = t1  t2 = t2  c1 = c1  c2 = c2  r1 = r1  r2 = r2  j1 = j1  j2 = j2  text = text
  Threads = {t1, t2}
  Coordinators = {c1, c2}
  CoordOf <- OwnCoordinator
  TxnIds <- AllTxnIds
  NoTxn = NoTxn
  NoThread = NoThread
  MaxActive = 1
  MaxParticipants = 2
  FreshIds = TRUE
  MaxBegins = 2
  MaxCrashes = 0
  Jobs = {j1, j2}
  NoJob = NoJob
  ReqIds = {r1}
  NoReq = NoReq
  ReqOf <- Retry
  LongReqs = {}
  CutText <- Cut
  MaxTime = 2
  Bootstrap = Bootstrap
  MaxFaults = 1
  Faults = {"connect", "memory"}
CHECK_DEADLOCK FALSE
PROPERTIES
  EveryJobAnswered
  
