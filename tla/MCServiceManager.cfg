\* Two services and one place in the pool, two callers; n1 is only added when it
\* is not there.
CONSTANTS
    Name = {n1, n2}
    Caller = {c1, c2}
    PoolSize = 1
    Careful = {n1}
    MaxOrphans = 2
SPECIFICATION FairSpec
INVARIANTS TypeOK NoOverlap StaysScheduled
PROPERTIES StopIsFinal KeepsRunning StopReturns
