SPECIFICATION Spec
CONSTANTS
    l1 = l1
    l2 = l2
    NoToken = NoToken
    Tokens = {l1, l2}
    NotBefore <- MCNotBefore
    Expires <- MCExpires
    Grace <- MCGrace
    Defect <- MCDefect
    Skew = 1
    HasCrl = TRUE
    MaxTime = 3
    MaxCrashes = 1
    MaxRevoked = 1
INVARIANT TypeOK
INVARIANT RevocationSticks
PROPERTY ClockPromise
PROPERTY ExpiryTakesEffect
