CONSTANTS
    c1 = c1 c2 = c2 p1 = p1 p2 = p2 e1 = e1 e2 = e2 x1 = x1 x2 = x2
    Events <- MCEvents
    OrderIds = {x1, x2}
    OrderIdOf <- MCSharedOrderId
    Consumers = {c1, c2}
    Partitions = {p1, p2}
    Log <- MCPoisonTwoPartitionLog
    Malformed = Malformed
    NoOwner = NoOwner
    NoMessage = NoMessage
    HasDownstream = TRUE
    HasDeadLetter = TRUE
    ContinueAfterError = FALSE
    MaxAttempts = 2
    Retryable = {"downstream"}
    MaxFaults = 2
    MaxRebalances = 0
SPECIFICATION FairSpec
INVARIANTS TypeOK AcknowledgedMeansHandled EarlierRecordsHandled DeadLetterAfterRetries PendingIsUnderWay
PROPERTIES DeliverySpec AcknowledgedOrderStays EventuallyAcknowledged
