SPECIFICATION FMSpec
CONSTANTS
  Ids = {"i"}
  Multiplicity = 1
  MaxRecords = 5
INVARIANTS
  EmittedIsValid
CHECK_DEADLOCK FALSE
