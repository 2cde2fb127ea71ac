\* Two users and two servers with colliding names, two writers.
SPECIFICATION FairSpec
CONSTANTS
    loop = loop
    callback = callback
    Missing = Missing
    Empty = Empty
    Torn = Torn
    Closed = Closed
    Letters <- FewLetters
    Anonymous <- AnonymousWord
    BaseDir <- TokenDir
    Principals <- TwoPrincipals
    Servers <- TwoServers
    Writers <- TwoWriters
    MaxTokens = 2
INVARIANTS
    TypeOK
    ListedIsStored
    StableIsListed
    TornOnlyByFault
PROPERTIES
    ListEnds
