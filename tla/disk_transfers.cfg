SPECIFICATION Spec
CONSTANT
  Requests <- WithinWord
INVARIANTS
  TypeOK
  RegisterIsMapped
  StaysUp
  MovesRequested
PROPERTIES
  ImplementsSectorDisk
