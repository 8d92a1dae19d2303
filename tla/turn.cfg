SPECIFICATION Spec
CONSTANTS
  n1 = n1
  MaxPrompts = 2
  Messages <- MCMessages
  Protocols = {"kf", "bot"}
  Notices = {n1}
  MaxTurns = 6
  Expiries = {"conv", "draft"}
  FaultOps <- Ops
  MaxFaults = 2
INVARIANTS TypeOK FlagsFollowDraft PromptsBounded
PROPERTIES OnlyReportsOpenDrafts QuestionsSuspend AckedWasShown
CHECK_DEADLOCK FALSE
