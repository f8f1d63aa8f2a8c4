SPECIFICATION FairSpec
CONSTANTS
  f1 = f1
  f2 = f2
  Flows = {f1, f2}
  Chains = {t1}
  Workers = {w1, w2}
  Schedules <- MCSchedules
  MaxStarts = 1
  Endless = {f2}
  None = None
PROPERTIES DueFlowExecutes StopReturns
