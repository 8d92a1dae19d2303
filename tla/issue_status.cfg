SPECIFICATION FairSpec
CONSTANTS
  A = A B = B h5 = h5 kf = kf beat = beat route = route
  Records = {A}
  NumIssues = 2
  RecordOf <- SharedRecord
  LocalIssues = {2}
  Users = {h5, kf}
  PushUsers = {kf}
  Reachable = {kf}
  Beats = {beat}
  Routes = {}
  Limit = 2
  Progresses = {0, 1, 2}
  MaxEdits = 1
  MaxDeliveries = 4
  MaxReports = 1
  MaxRetries = 1
  FaultOps <- Ops
  MaxFaults = 2
CHECK_DEADLOCK FALSE
INVARIANTS StatusTypeOK HiddenIsHandled SentMeansTold
PROPERTIES ReadStaysRead SnapshotsConverge QueuedIsDelivered
