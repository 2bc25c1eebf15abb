CONSTANTS
    s1 = s1 s2 = s2 s3 = s3 e1 = e1 e2 = e2 x1 = x1 x2 = x2
    Events <- MCOneEvent
    OrderIds = {x1, x2}
    OrderIdOf <- MCOwnOrderId
    Sessions = {s1, s2, s3}
    NoEvent = NoEvent
    DiscardsOverlap = TRUE
    MaxFaults = 0
SPECIFICATION FairSpec
INVARIANTS ReadIsCurrent
PROPERTIES CallsEnd
