SPECIFICATION FairSpec
CONSTANT Requests = {r1, r2}
INVARIANT DrainAnswersProbes
CHECK_DEADLOCK FALSE
