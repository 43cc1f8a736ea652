SPECIFICATION Spec
CONSTANTS
  t1 = t1
  a = a
  b = b
  Tasks = {t1}
  Workers = {a, b}
  Fetches = {}
  Quotas = {0, 1, 2}
  Reports = {"IN_PROGRESS", "SUCCESS", "FAILURE"}
  Times = {1, 2}
  LegacyCutoff = 2
  MaxCutoff = 2
  Realtime = {}
  Unreachable = {}
  MaxPollFailures = 2
  MaxFaults = 2
INVARIANT TypeOK
INVARIANT ChargedIsQuota
INVARIANT FailedTaskRefunded
INVARIANT NoOverRefund
PROPERTY FinishedStays
SYMMETRY Symmetry
