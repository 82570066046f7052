CONSTANTS
  Base = 3
  MaxPrescaler = 1
  Levels = 1
  Deadlines <- AllDeadlines
  Counts <- AllDeadlines
  Durations <- AllDurations
  NoDeadline = NoDeadline
SPECIFICATION FairSpec
INVARIANT TypeOK
INVARIANT PrescaleBounded
PROPERTY ImplementsAlarmClock
PROPERTY OneShotFires
