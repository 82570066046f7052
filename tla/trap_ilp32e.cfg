CONSTANTS
  MaxLevel = 2
  Programs <- SoftwareStacked
  Volatile <- Ilp32eVolatile
  StackTop = 28
  Dead = Dead
SPECIFICATION Spec
PROPERTY ReturnRestoresAll
