CONSTANTS
  TestDuration = 80
  Periods <- TaskPeriods
  Workloads <- TaskWorkloads
  Timeout = 10
  Interval = 2
  Capacity = 3
  Second = 6
  Seconds = 2
  PrintSteps = 14
  Delay = 3
  MinSteps = 5
  MaxSteps = 12
  Lag = 2
  Horizon = 100
  Chosen <- AllPrograms
SPECIFICATION FairSpec
INVARIANT TypeOK
INVARIANT TestsPass
INVARIANT CleanAfterPass
PROPERTY QuietAfterEnd
PROPERTY EventuallyReports
CHECK_DEADLOCK FALSE
