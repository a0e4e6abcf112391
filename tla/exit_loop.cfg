SPECIFICATION Spec
CONSTANTS
  Cells = {14, 127}
  Accesses <- GuestAccesses
  SelectBytes <- GuestSelects
  DataBytes <- GuestData
  MaxLate = 2
INVARIANTS
  TypeOK
  AlarmKeepsTime
  WrapFollowsGate
  AtMostOneLateExit
  GateChangesSucceed
PROPERTIES
  ImplementsStore
