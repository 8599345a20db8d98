CONSTANTS
  Readers = {r1, r2}
  Signals = FALSE
  MaxIrqs <- MCMaxIrqs
  MaxReads <- MCMaxReads
  MaxSends <- MCMaxSends
  MaxLoads <- MCMaxLoads
  Majors = {m1}
SPECIFICATION Spec
INVARIANT NoReadWithoutInterrupt
\* A read with no interrupt to come blocks for good: the system may stop.
CHECK_DEADLOCK FALSE
