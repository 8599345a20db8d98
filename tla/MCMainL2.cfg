CONSTANTS
  FirstSize = 14
  LastSize = 15
  Durations <- MCDurations
  UINT64_MAX <- MCUint64Max
  Argvs <- MCArgvs

SPECIFICATION Spec

INVARIANT ReadKernelUsesPerThreadL2

CHECK_DEADLOCK FALSE
