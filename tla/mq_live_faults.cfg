SPECIFICATION FairSpec
CONSTANTS
  a = a b = b cc = cc a1 = a1 b1 = b1 c1 = c1
  d1 = d1 d2 = d2 m1 = m1 m2 = m2 u1 = u1
  NoWorker = NoWorker NoRaw = NoRaw
  Consumers = {a, b}
  Mortal = {b}
  Workers = {a1, b1}
  OwnerOf <- MCOwnerOf
  Deliveries = {d1}
  Msgs = {m1}
  MsgOf <- SameMsg
  Users = {u1}
  UserOf <- OneUser
  Unreadable = {}
  MaxAttempts = 2
  Stamps = {1, 2, 3}
  FaultOps <- SurvivableFaults
  MaxFaults = 2
  LapseKinds = {}
  MaxLapses = 0
PROPERTIES EveryDeliveryResolved
