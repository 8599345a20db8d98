CONSTANTS
  Files <- MCTailFiles
  MAX_COLS = 2
  MapBytes = 5
SPECIFICATION Spec
INVARIANT FieldsKeepTheirColumn
\* main returns (or exits) after its queries: the model ends there.
CHECK_DEADLOCK FALSE
