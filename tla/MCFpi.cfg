CONSTANTS
  Readers = {r1}
  Signals = TRUE
  MaxIrqs <- MCMaxIrqs
  MaxReads <- MCMaxReads
  MaxSends <- MCMaxSends
  MaxLoads <- MCMaxLoads
  Majors = {m1}
SPECIFICATION Spec
INVARIANT TypeOK
INVARIANT HandlerFindsQueue
PROPERTY WokenReaderReturns
\* A read with no interrupt to come blocks for good: the system may stop.
CHECK_DEADLOCK FALSE
