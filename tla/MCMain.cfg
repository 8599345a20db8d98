CONSTANTS
  FirstSize = 14
  LastSize = 15
  Durations <- MCDurations
  UINT64_MAX <- MCUint64Max
  Argvs <- MCArgvs

SPECIFICATION Spec

INVARIANT TypeOK
PROPERTY ReturnsUnlessStress

\* main returns, aborts or is killed, and stress mode may stop in a test
\* whose trials are all taken: the model may stop.
CHECK_DEADLOCK FALSE
