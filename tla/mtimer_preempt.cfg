CONSTANTS
  Base = 2
  MaxPrescaler = 1
  Levels = 2
  Deadlines <- SomeDeadlines
  Counts <- SomeCounts
  Durations <- SomeDurations
SPECIFICATION Spec
INVARIANT SetCmpNoSpurious
INVARIANT ResetIsQuiet
INVARIANT OneShotNotEarly
PROPERTY SetCounterLands
PROPERTY EnableKeepsPrescaler
