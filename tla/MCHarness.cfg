CONSTANTS
  FirstCpu = 1
  LastCpu = 2
  Main = Main
  Durations <- MCDurations
  UINT64_MAX <- MCUint64Max

SPECIFICATION Spec

INVARIANT TypeOK
INVARIANT ResultIsMeanOfMinima
PROPERTY Termination
PROPERTY ImplementsRendezvous

\* start_threads returns: the model ends with Main in "done".
CHECK_DEADLOCK FALSE
