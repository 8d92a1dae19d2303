SPECIFICATION FairSpec
CONSTANTS
  MaxMsgs = 2
  Protocols = {"kf", "bot"}
  Modes = {"queue", "memory"}
  PageSize = 1
  MaxPages = 2
  Recent = 1
  Enough = 1
  MaxAttempts = 2
  FaultOps = {"receive", "sync", "enqueue", "acquire", "turn", "send", "release", "mark", "repeat", "crash"}
  MaxFaults = 2
INVARIANTS TypeOK AnsweredOnce
PROPERTIES EveryMessageSettled
CHECK_DEADLOCK FALSE
