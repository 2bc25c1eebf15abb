CONSTANTS
    Initializers <- MCInitializers
    Fixtures <- MCFixtures
    Callers <- MCCallers
    Topics <- MCTopics
    MaxFaults = 1
SPECIFICATION ProvisioningFairSpec
INVARIANTS ProvisioningTypeOK InitializedMeansProvisioned FixtureOwnsItsTopic
PROPERTIES RerunFailsOnlyByFault EventuallyProvisioned
