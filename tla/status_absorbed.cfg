SPECIFICATION Spec
CONSTANTS
  A = A B = B h5 = h5 kf = kf beat = beat route = route
  Records = {A}
  NumIssues = 1
  RecordOf <- OneRecord
  LocalIssues = {}
  Users = {h5, kf}
  PushUsers = {kf}
  Reachable = {kf}
  Beats = {beat}
  Routes = {}
  Limit = 1
  Progresses = {1, 2}
  MaxEdits = 1
  MaxDeliveries = 2
  MaxReports = 1
  MaxRetries = 0
  FaultOps = {}
  MaxFaults = 0
CHECK_DEADLOCK FALSE
PROPERTY ChangesAreTold
