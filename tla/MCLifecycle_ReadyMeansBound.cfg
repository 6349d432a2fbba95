SPECIFICATION FairSpec
CONSTANT Requests = {r1, r2}
INVARIANT ReadyMeansBound
CHECK_DEADLOCK FALSE
