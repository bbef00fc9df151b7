SPECIFICATION Spec
CONSTANTS
  Exchanges <- MCExchanges
  Documents <- MCDocuments
  Environment <- MCEnvironment
  AddressBits <- MCAddressBits
  CidrLengths <- MCCidrLengths
  Addresses <- MCAddresses
  HeaderSize = 2
  MaxDepth = 3
  Word = 16
  Radix = 3
  GroupDigits = 2
  MaxInt64 = 127
  MaxNesting = 10
INVARIANTS
  EchoFaithful
  ArgumentsFit
  AnswerIsFirst
  RefsUnfolded
  BigIntegerExact
  PathCoherent
  AdmittedAsSent
  MarkLongest
CHECK_DEADLOCK FALSE
