SPECIFICATION FairSpec
CONSTANTS
  k1 = k1 k2 = k2 k3 = k3 t1 = t1 t2 = t2 t3 = t3
  Turns = {k1, k2, k3}
  Tasks = {t1, t2, t3}
  NoTask = NoTask
  Serialized = TRUE
  Mortal = {k1, k2, k3}
  LateWorker = TRUE
  FaultOps <- TimerFaultOps
  MaxFaults = 2
CHECK_DEADLOCK FALSE
INVARIANTS TimerTypeOK OneLiveTimer
PROPERTIES TimeoutOnlyAfterSilence CancelErasesOnlyWhatItRead UnansweredTimesOut
