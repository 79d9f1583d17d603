\* The process may end: CHECK_DEADLOCK is off.
CONSTANT MaxSignals = 3
SPECIFICATION Spec
INVARIANTS TypeOK NoWaitForTheDead
PROPERTIES EndsUnlessStuck SecondSignalEnds
CHECK_DEADLOCK FALSE
