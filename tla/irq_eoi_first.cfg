SPECIFICATION IrqFairSpec
CONSTANTS
  MaxClients = 1
  InCap = 1
  OutCap = 1
  DivisorLowBytes = {1}
  DivisorHighBytes = {1}
  GuestProgramsDivisor = TRUE
  GuestChecksStatus = TRUE
  GuestIER = "once"
  MayHangUp = FALSE
  EoiFirst = TRUE
INVARIANTS
  IrqTypeOK
  NoLostInterrupt
PROPERTIES
  PendingHeard
  ReceiveServed
