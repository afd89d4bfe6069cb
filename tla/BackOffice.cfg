SPECIFICATION Spec
CONSTANTS
  Parts = {"fees", "pause", "reconciliation", "export", "webhooks"}
  p1 = p1
  p2 = p2
  p3 = p3
  Settled = {p1, p2, p3}
  Withdrawal = {w1, w2, w3}
  FeeOf <- MCFeeOf
  Withdrawn = {0, 1, 2}
  NoHolder = NoHolder
  Node = {n1, n2}
  Forced = {"streaming"}
  Asked <- MCAsked
  Retrying = {n1}
  PayBatch = 2
  MaxCalls = 2
  MaxReads = 1
  MaxBlips = 1
  MaxSession = 3
  Deposits = {1, 2}
  ReconBatchSize = 2
  MaxMoves = 4
  MaxFailures = 1
  MaxId = 3
  MaxStamp = 1
  Queries <- MCQueries
  Limit = 1
  AnyStatus = AnyStatus
  Subscription = {s1}
  Event = {"e1", "e2"}
  EventSets <- MCEventSets
  Instance = {"i1"}
  MaxAttempts = 3
  Base = 1
  MaxDelay = 2
  BatchSize = 1
  MaxHiccups = 2
  None = None
  Removed = Removed
INVARIANTS
  NotOverdrawn
  ExportComplete
  SendsBounded
  PauseDrains
PROPERTIES
  TruthTold
  EndedStays
  DeliveriesEnd
  PauseReaches
CHECK_DEADLOCK FALSE
