\* Two targets: the thread of one may end while the other goes on.
SPECIFICATION FairSpec
CONSTANTS
    cp = cp
    dp = dp
    Targets <- TwoTargets
    Deployed <- TwoTargets
    Batch = 1
    Window = 1
    MaxPods = 1
    MaxLines = 1
    MaxFaults = 1
PROPERTIES
    TailResumes
CHECK_DEADLOCK FALSE
