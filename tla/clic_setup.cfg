CONSTANTS
  MaxLevel = 2
  Depth = 3
  MainCalls <- SetupsAndTear
  IrqCalls <- HandlerFunctions
  Others <- LowerOrTied
  Overlaps = {TRUE, FALSE}
SPECIFICATION FairSpec
INVARIANT TypeOK
INVARIANT PendingIsOwed
PROPERTY CallSetsItsField
PROPERTY TakenAsSetUp
PROPERTY EdgeServed
