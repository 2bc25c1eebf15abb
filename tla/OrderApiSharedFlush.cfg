CONSTANTS
    r1 = r1 r2 = r2 r3 = r3
    Requests = {r1, r2}
    Bodies <- MCGoodBodies
    CentsLimit = 30000
    QueueLimit = 2
    MaxFaults = 0
SPECIFICATION Spec
PROPERTIES RefusedMeansUnacknowledged
CHECK_DEADLOCK FALSE
