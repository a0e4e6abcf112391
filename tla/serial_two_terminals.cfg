SPECIFICATION Spec
CONSTANTS
  MaxClients = 2
  InCap = 1
  OutCap = 1
  DivisorLowBytes = {1}
  DivisorHighBytes = {0}
  GuestProgramsDivisor = TRUE
  GuestChecksStatus = FALSE
  GuestIER = "once"
  MayHangUp = TRUE
INVARIANTS
  EveryClientHeard
  NotStranded
  IirMatchesLsr
PROPERTIES
  NewConditionFires
