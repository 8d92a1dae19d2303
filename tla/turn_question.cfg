SPECIFICATION Spec
CONSTANTS
  n1 = n1
  MaxPrompts = 2
  Messages <- MCMessages
  Protocols = {"kf", "bot"}
  Notices = {n1}
  MaxTurns = 6
  Expiries = {}
  FaultOps = {"v2"}
  MaxFaults = 1
INVARIANTS QuestionsStayOut
CHECK_DEADLOCK FALSE
