CONSTANTS
  MemAddresses = {dmem}
  ApbAddresses = {preg}
  Values = {0, 1}
  MaxTrans = 3
  NoRequest = NoRequest
  dmem = dmem
  preg = preg
SPECIFICATION FairSpec
INVARIANT TypeOK
PROPERTY ApbProtocol
PROPERTY Answered
PROPERTY ImplementsOrderedMemory
