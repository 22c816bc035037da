SPECIFICATION Spec
CONSTANTS
  MaxFailures = 0
  MaxErrors = 1
  MaxObjects = 1
INVARIANTS
  ErrorsTellAll
