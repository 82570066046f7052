CONSTANTS
  CntValues = 8
  Divisors <- ReachableDivisors
SPECIFICATION FairSpec
INVARIANT TypeOK
INVARIANT OnePerPulse
PROPERTY PulseDelivered
