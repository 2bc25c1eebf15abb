CONSTANTS
    r1 = r1 r2 = r2 r3 = r3
    Requests = {r1, r2, r3}
    Bodies <- MCBodies
    CentsLimit = 30000
    QueueLimit = 2
    MaxFaults = 2
SPECIFICATION FairSpec
INVARIANTS TypeOK AcceptedMeansPublished ValidRequestsDoNotFail PublishedOrdersCanBeStored
PROPERTIES EveryRequestAnswered
CHECK_DEADLOCK FALSE
