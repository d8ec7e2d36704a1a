SPECIFICATION FairSpec
CONSTANTS
    p1 = p1
    p2 = p2
    Process = {p1, p2}
    Host = {h1}
    Container = {h1}
    Kinds = {"metadata", "chain", "replication"}
    Instances <- MCInstances
    Outcomes <- MCOutcomes
    None = None
    NominalPage = 6
    MinPage = 2
    GrowAfter = 1
    Batch = 3
    MinBatch = 1
INVARIANTS
    TypeOK
    Singleton
PROPERTIES
    FalseRefusalsFollowCrashes
    WorkerIsShown
    DeathIsNoticed
    StallIsWithdrawn
    PaceRecovers
