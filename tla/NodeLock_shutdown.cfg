\* As many requests as workers.  The process really stops once it has exited,
\* or once the loop waits for its own lock.
CONSTANTS
    Requests <- MCRequests
    Writing <- MCWriting
    Workers = 3
SPECIFICATION Spec
INVARIANTS LockTypeOK LoopIsAlone ExitSaved
PROPERTIES LoopIsReached ShutdownUnlessStuck
CHECK_DEADLOCK FALSE
