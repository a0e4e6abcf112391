SPECIFICATION FairSpec
CONSTANTS
  Sources = {a, b, c}
  Interrupt = Interrupt
  a = a
  b = b
  c = c
  MaxEvents = 4
  MaxAgain = 2
  Sticky = {}
  MayRemove = TRUE
INVARIANTS
  TypeOK
  WatchedHasHandler
PROPERTIES
  NoOvertaking
  EverySourceServed
  ShutdownCompletes
