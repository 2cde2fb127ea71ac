\* One pod, two overlapping authorizations of one app, duplicate callbacks.
SPECIFICATION FairSpec
CONSTANTS
    f1 = f1
    f2 = f2
    pod1 = pod1
    pod2 = pod2
    app = app
    plain = plain
    headed = headed
    Flows <- TwoFlows
    Pods <- OnePod
    Apps <- OneApp
    Configs <- BothConfigs
    WithHeaders <- Headed
    MaxClients = 2
    MaxHits = 3
    MayCrash = TRUE
    MalformedAnswers = TRUE
INVARIANTS
    TypeOK
    SingleUse
    FlowKeepsItsClient
    KnownUntilUsed
    SuccessMeansStored
PROPERTIES
    CallbackAnswered
    PromiseKept
