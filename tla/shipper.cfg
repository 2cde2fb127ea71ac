\* Two targets, one with pods: batches of two, a window of one, two pods of two lines.
SPECIFICATION FairSpec
CONSTANTS
    cp = cp
    dp = dp
    Targets <- TwoTargets
    Deployed <- OneTarget
    Batch = 2
    Window = 1
    MaxPods = 2
    MaxLines = 2
    MaxFaults = 2
INVARIANTS
    TypeOK
    OncePerStream
    NothingLostSilently
PROPERTIES
    LiveThreadTails
CHECK_DEADLOCK FALSE
