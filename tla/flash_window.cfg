SPECIFICATION Spec
CONSTANTS
  Addresses = {54527317, 55116458, 55117141, 55575893}
  Bytes = {170, 85, 128, 160, 144, 48, 16, 240}
  ProgramBytes = {170, 240}
  WindowEnd = 3473408
PROPERTIES
  ContentsFollowCommands
