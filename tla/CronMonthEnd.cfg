SPECIFICATION SchedulingSpec
CONSTANTS
  f1 = f1
  f2 = f2
  Flows = {f1, f2}
  Chains = {t1}
  Workers = {w1}
  Schedules <- MCSchedules
  MaxStarts = 0
  Endless = {}
  None = None
  Cron <- MCTwiceDaily
  FirstMinute <- MCMonthEnd
  Horizon = 1440
INVARIANTS MatchingMinuteFires
