\* Token answers may omit expires_in.
SPECIFICATION Spec
CONSTANTS
    p1 = p1
    p2 = p2
    n1 = n1
    n2 = n2
    r1 = r1
    r2 = r2
    c1 = c1
    Pairs <- OnePair
    Names <- OneName
    SecretNameOf <- OneSecretName
    Pats <- NoPats
    Requests <- MCRequests
    Callbacks <- MCCallbacks
    ReportsExpiry <- Sometimes
    MaxTokens = 3
INVARIANTS
    RefreshOnlyWhenStale
