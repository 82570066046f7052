CONSTANTS
  CntValues = 4
  Divisors <- RegisterDivisors
SPECIFICATION Spec
INVARIANT OnePerPulse
