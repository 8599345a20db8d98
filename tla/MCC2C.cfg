CONSTANTS
  MaxI = 5
  OldValues <- MCOldValues

SPECIFICATION Spec

INVARIANT TypeOK
INVARIANT NoEarlyExit
INVARIANT EveryRoundEchoed
PROPERTY Termination
PROPERTY ImplementsRendezvous

\* do_c2c_test returns: the model ends with main in "done".
CHECK_DEADLOCK FALSE
