CONSTANTS
    w1 = w1 w2 = w2 m1 = m1 m2 = m2 e1 = e1 x1 = x1
    Events = {e1}
    OrderIds = {x1}
    OrderIdOf <- MCOrderId
    Workers = {w1, w2}
    Messages = {m1, m2}
    Body <- MCTwiceSentBody
    Malformed = Malformed
    NoMessage = NoMessage
    MaxReceives = 2
    MaxFaults = 0
    Brokers = {"sqs"}
    ApiEvents = {e1}
SPECIFICATION LabFairSpec
INVARIANTS LabTypeOK ConfirmedPauseStays PauseLetsOneThrough AcceptedOrderIsKept
PROPERTIES RunningSettles AcceptedOrdersEnd
