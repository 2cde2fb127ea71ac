\* Two principals, overlapping calls, refresh tokens that rotate or stay.
SPECIFICATION Spec
CONSTANTS
    p1 = p1
    p2 = p2
    n1 = n1
    n2 = n2
    r1 = r1
    r2 = r2
    c1 = c1
    Pairs <- MCPairs
    Names <- MCNames
    SecretNameOf <- MCSecretName
    Pats <- MCPats
    Requests <- MCRequests
    Callbacks <- MCCallbacks
    ReportsExpiry <- Always
    MaxTokens = 3
INVARIANTS
    TypeOK
    OwnCredential
    StrandedOnlyByFault
    RefreshOnlyWhenStale
PROPERTIES
    RefreshNeverGoesBack
    RefreshTokenKept
SYMMETRY RequestSymmetry
