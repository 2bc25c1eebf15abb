CONSTANTS
    w1 = w1 w2 = w2 m1 = m1 m2 = m2 m3 = m3 e1 = e1 e2 = e2 x1 = x1 x2 = x2
    Events <- MCEvents
    OrderIds = {x1, x2}
    OrderIdOf <- MCSharedOrderId
    Workers = {w1, w2}
    Messages = {m1, m2, m3}
    Body <- MCPoisonBody
    Malformed = Malformed
    NoMessage = NoMessage
    MaxReceives = 3
    MaxFaults = 1
SPECIFICATION FairSpec
INVARIANTS TypeOK DeletedMeansCompleted PendingHasMessage
PROPERTIES EventuallySettled
