\* A package is reloaded while a job of its service runs.
CONSTANTS
    Name = {n1}
    Caller = {c1}
    PoolSize = 1
    Careful = {n1}
    MaxOrphans = 0
SPECIFICATION FairSpec
PROPERTIES RunsAgain
