CONSTANTS
    c1 = c1 c2 = c2 p1 = p1 p2 = p2 e1 = e1 e2 = e2 x1 = x1 x2 = x2
    Events <- MCEvents
    OrderIds = {x1, x2}
    OrderIdOf <- MCOwnOrderId
    Consumers = {c1}
    Partitions = {p1}
    Log <- MCPoisonLog
    Malformed = Malformed
    NoOwner = NoOwner
    NoMessage = NoMessage
    HasDownstream = FALSE
    HasDeadLetter = TRUE
    ContinueAfterError = TRUE
    MaxAttempts = 1
    Retryable = {"downstream"}
    MaxFaults = 1
    MaxRebalances = 0
SPECIFICATION Spec
INVARIANTS AcknowledgedMeansHandled
