CONSTANTS
  MaxLevel = 3
  Programs <- Mixtures
  Volatile <- Ilp32eVolatile
  StackTop = 42
  Dead = Dead
SPECIFICATION FairSpec
INVARIANT TypeOK
INVARIANT OwnRegisters
INVARIANT CallsOwnHandler
INVARIANT StackBounded
PROPERTY ReturnRestoresContext
PROPERTY HighestServed
