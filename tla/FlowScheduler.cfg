SPECIFICATION SchedulingSpec
CONSTANTS
  f1 = f1
  f2 = f2
  Flows = {f1, f2}
  Chains = {t1, t2}
  Workers = {w1, w2}
  Schedules <- MCSchedules
  MaxStarts = 2
  Endless = {}
  None = None
  Cron <- MCCron
  FirstMinute <- MCStart
  Horizon = 8640
SYMMETRY MCSymmetry
INVARIANTS SchedulingTypeOK NoOverlap ClaimLostOnlyByStop StoppedIsQuiet OncePerMinute MatchingMinuteFires FiresOnNamedDays
