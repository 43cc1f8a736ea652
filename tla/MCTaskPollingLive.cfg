SPECIFICATION FairSpec
CONSTANTS
  t1 = t1
  a = a
  c = c
  Tasks = {t1}
  Workers = {a}
  Fetches = {c}
  Quotas = {0, 1}
  Reports = {"IN_PROGRESS", "SUCCESS", "FAILURE"}
  Times = {1, 2}
  LegacyCutoff = 2
  MaxCutoff = 3
  Realtime = {t1}
  Unreachable = {t1}
  MaxPollFailures = 2
  MaxFaults = 1
PROPERTY EverySubmissionEnds
