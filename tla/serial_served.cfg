SPECIFICATION FairSpec
CONSTANTS
  MaxClients = 2
  InCap = 1
  OutCap = 1
  DivisorLowBytes = {1}
  DivisorHighBytes = {0}
  GuestProgramsDivisor = TRUE
  GuestChecksStatus = TRUE
  GuestIER = "never"
  MayHangUp = FALSE
PROPERTIES
  RxServed
  TxServed
