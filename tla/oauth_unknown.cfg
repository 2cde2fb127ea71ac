\* Two pods share the vault; duplicate callbacks may land on both.
SPECIFICATION Spec
CONSTANTS
    f1 = f1
    f2 = f2
    pod1 = pod1
    pod2 = pod2
    app = app
    plain = plain
    headed = headed
    Flows <- OneFlow
    Pods <- TwoPods
    Apps <- OneApp
    Configs <- PlainOnly
    WithHeaders <- NoneHeaded
    MaxClients = 2
    MaxHits = 2
    MayCrash = TRUE
    MalformedAnswers = TRUE
INVARIANTS
    UnknownMeansUnknown
