SPECIFICATION Spec
CONSTANTS
    a1 = a1  a2 = a2  wA = wA  wB = wB  t1 = t1  t2 = t2  p1 = p1  p2 = p2
    Ark = {a1}
    Authority = {wA}
    Target = {t1}
    Payload = {p1}
    None = None
    MaxAttempts = 0
    PublishAfter = 1
    TargetReplicas = 1
    Fragile <- NoCid
    Cached <- NoCid
    MaxPending = 1
    Revocable = {}
    Foreign = {a1}
    Offers <- OffersOne
    ApiAssigned = {wA}
    ReplicationAssigned = {wA}
    ChainAssigned = {wA}
    PageSize = 1
    RpcBatchSize = 1
PROPERTIES
    ContentFixedDuringAttempt
CHECK_DEADLOCK FALSE
