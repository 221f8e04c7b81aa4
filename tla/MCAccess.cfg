SPECIFICATION FairSpec
CONSTANTS
    c1 = c1
    c2 = c2
    Calls = {c1, c2}
    Nobody = Nobody
    Lifetime = 4
    Skew = 2
    MaxLatency = 1
    MaxWait = 1
    MaxTime = 5
    MaxTokens = 4
INVARIANTS
    TypeOK
    RetryUsesAnotherToken
    OneTokenAtATime
    TokenOutlivesItsWait
PROPERTY CallsEnd
