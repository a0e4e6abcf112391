SPECIFICATION FairSpec
CONSTANTS
  Sources = {a, b}
  Interrupt = Interrupt
  a = a
  b = b
  MaxEvents = 4
  MaxAgain = 1
  Sticky = {a}
  MayRemove = FALSE
PROPERTIES
  EverySourceServed
