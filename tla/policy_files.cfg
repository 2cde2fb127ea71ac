\* Two rule files of four possible contents, one tool of two servers.
SPECIFICATION FairSpec
CONSTANTS
    granola = granola
    notion = notion
    list = list
    Absent = Absent
    Unreadable = Unreadable
    Any = Any
    NumFiles = 2
    Servers <- TwoServers
    Tools <- OneTool
    Versions <- AllVersions
    MaxViews = 3
INVARIANTS
    TypeOK
    StableDenyBlocks
    DeniedByACurrentRule
    OneChangeIsAtomic
PROPERTIES
    UpdateTakesEffect
