SPECIFICATION FairSpec
CONSTANTS
    Streams = {"stdout", "stderr"}
    Waiters = {w1}
    Killers = {k1}
    Cap = 1
    MaxWrite <- FewWrites
    Fallible = {"stdout"}
INVARIANTS TypeOK CapturedIsPrefix UntruncatedIsComplete
PROPERTIES ExitIsPublished CallsReturn ImplementsManagedProcess
CHECK_DEADLOCK FALSE
