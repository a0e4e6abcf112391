SPECIFICATION FairSpec
CONSTANTS
  MaxClients = 1
  InCap = 2
  OutCap = 2
  DivisorLowBytes = {0, 1}
  DivisorHighBytes = {0, 45}
  GuestProgramsDivisor = TRUE
  GuestChecksStatus = TRUE
  GuestIER = "once"
  MayHangUp = FALSE
INVARIANTS
  TypeOK
  OnePhase
  Paced
PROPERTIES
  FiresOnlyWhenIdle
  ReceiverServes
  TransmitterServes
