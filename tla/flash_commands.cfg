SPECIFICATION Spec
CONSTANTS
  Addresses = {54527317, 55116458, 55117141, 55575893}
  Bytes = {170, 85, 128, 160, 144, 48, 16, 240}
  ProgramBytes = {240}
  WindowEnd = 55574528
INVARIANTS
  TypeOK
  ShownUnlessIdentifying
  RefusedOnlyIfStranded
PROPERTIES
  ContentsFollowHandled
CHECK_DEADLOCK FALSE
