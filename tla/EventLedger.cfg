SPECIFICATION Spec
CONSTANTS
  None = None  Failed = Failed
  k1 = k1  k2 = k2  k3 = k3  p1 = p1  p2 = p2  l1 = l1  l2 = l2
  Key = {k1, k2, k3}
  WatchedProfile <- WatchesProfile
  WatchedLedger <- WatchesLedger
  Profile = {p1, p2}
  Ledger = {l1, l2}
  Call = {1, 2, 3, 4}
  Watcher = {1}
  KeyOf <- Duplicated
  LedgerOf <- TwoLedgers
  ProfileOf <- LastApart
  Buffer = 1
  ListLimit = 1
INVARIANTS
  AtMostOneCreated
  SequencesGapless
  ResultsStored
PROPERTIES
  RecordReturns
CHECK_DEADLOCK FALSE
