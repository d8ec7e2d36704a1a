SPECIFICATION Spec
CONSTANTS
    a1 = a1  a2 = a2  wA = wA  wB = wB  t1 = t1  t2 = t2  p1 = p1  p2 = p2
    Ark = {a1}
    Authority = {wA, wB}
    Target = {t1, t2}
    Payload = {p1}
    None = None
    MaxAttempts = 0
    PublishAfter = 1
    TargetReplicas = 1
    Fragile <- BothOfP1
    Cached <- BothOfP1
    MaxPending = 1
    Revocable = {}
    Foreign = {a1}
    Offers <- OffersOwners
    ApiAssigned = {wA, wB}
    ReplicationAssigned = {wA}
    ChainAssigned = {wB}
    PageSize = 1
    RpcBatchSize = 1
INVARIANTS
    TombstoneInert
    IInv
CHECK_DEADLOCK FALSE
