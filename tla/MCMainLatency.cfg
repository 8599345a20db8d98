CONSTANTS
  FirstSize = 14
  LastSize = 15
  Durations <- MCTrialDurations
  UINT64_MAX <- MCUint64Max
  Argvs <- MCLatencyArgvs

SPECIFICATION Spec

INVARIANT ChaseVisitsEveryCell
INVARIANT KeptMinimum

\* main returns after the last sequential test, and stress mode l may stop
\* in a test whose trials are all taken: the model may stop.
CHECK_DEADLOCK FALSE
