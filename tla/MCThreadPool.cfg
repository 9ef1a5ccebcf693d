SPECIFICATION FairSpec
CONSTANTS
  w1 = w1  w2 = w2  w3 = w3  j1 = j1  j2 = j2  j3 = j3  j4 = j4
  Workers = {w1, w2, w3}
  Jobs = {j1, j2, j3, j4}
  NoWorker = NoWorker
  NoJob = NoJob
  Cap = 2
  SpawnFails = TRUE
INVARIANTS
  TypeOK
  NoLostWakeup
  EachJobOnce
  DrainedAtEnd
PROPERTIES
  EveryJobServed
  DestroyTerminates
