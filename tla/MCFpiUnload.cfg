CONSTANTS
  Readers = {r1}
  Signals = FALSE
  MaxIrqs <- MCMaxIrqs
  MaxReads <- MCMaxReads
  MaxSends <- MCMaxSends
  MaxLoads <- MCMaxLoads
  Majors = {m1, m2}
SPECIFICATION Spec
INVARIANT ExitReleasesDevice
\* A read with no interrupt to come blocks for good: the system may stop.
CHECK_DEADLOCK FALSE
