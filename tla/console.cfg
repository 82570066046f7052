CONSTANTS
  Freq <- TheFreq
  Baud <- TheBaud
  BufferSize = 2
  Burst = 2
  MaxTyped = 3
  Dividers = {1, 2}
  ResetDivider = 1
  Codes <- SomeCodes
  FifoDepth = 2
  RingSize = 3
  NoChar = NoChar
SPECIFICATION SpecBoth
INVARIANT TypesOK
INVARIANT WellFormed
INVARIANT FifoNotOverrun
INVARIANT GetcFinds
INVARIANT InOrder
PROPERTY OutcomeTold
PROPERTY RxServed
PROPERTY PrintReturns
CHECK_DEADLOCK FALSE
