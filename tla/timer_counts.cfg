SPECIFICATION Spec
CONSTANTS
  Channels = {0}
  ByteSize = 2
  DecimalBase = 1
  Bytes = {0, 1}
  Prescalers = {0, 1}
  MaxElapsed = 5
  GuestPairs = TRUE
INVARIANTS
  TypeOK
  NullCountHonest
  NeverEarly
PROPERTIES
  LatchedPairIsOneCount
