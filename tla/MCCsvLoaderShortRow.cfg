CONSTANTS
  Files <- MCFiles
  MAX_COLS = 2
  MapBytes = 5
SPECIFICATION Spec
INVARIANT NoUninitialisedToken
\* main returns (or exits) after its queries: the model ends there.
CHECK_DEADLOCK FALSE
