SPECIFICATION Spec
CONSTANT
  Requests <- AcrossWord
INVARIANTS
  MovesRequested
