CONSTANTS
  Base = 3
  MaxPrescaler = 1
  Levels = 1
  Deadlines <- SomeDeadlines
  Counts <- SomeCounts
  Durations <- SomeDurations
SPECIFICATION Spec
PROPERTY CounterInWindow
