SPECIFICATION FairSpec
CONSTANTS
    a1 = a1  a2 = a2  wA = wA  wB = wB  t1 = t1  t2 = t2  p1 = p1  p2 = p2
    Ark = {a1}
    Authority = {wA}
    Target = {t1}
    Payload = {p1}
    None = None
    MaxAttempts = 1
    PublishAfter = 1
    TargetReplicas = 2
    Fragile <- Level1OfP1
    Cached <- Level2OfP1
    MaxPending = 1
    Revocable = {}
    Foreign = {a1}
    Offers <- OffersOne
    ApiAssigned = {wA}
    ReplicationAssigned = {wA}
    ChainAssigned = {wA}
    PageSize = 1
    RpcBatchSize = 1
PROPERTIES
    PendingSettles
    DurabilityCompletes
CHECK_DEADLOCK FALSE
