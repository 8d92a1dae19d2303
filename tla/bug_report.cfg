SPECIFICATION FairSpec
CONSTANTS
  s1 = s1 s2 = s2
  Identities = {s1}
  KeysOf <- OneIdentity
  MaxRequests = 3
  Inputs <- AllInputs
  MaxDrafts = 2
  MaxRetries = 0
  MaxOpen = 2
  ForeignRows = 1
  FaultOps <- Ops
  MaxFaults = 2
  MaxLate = 1
CHECK_DEADLOCK FALSE
INVARIANTS TypeOK RecordedIsListed CancelledStaysOut OpenDraftIsBound
PROPERTIES ImplementsSubmission RecordedCompletely HandledIsRecorded
