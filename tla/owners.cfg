SPECIFICATION Spec
CONSTANTS
    a1 = a1  a2 = a2  wA = wA  wB = wB  t1 = t1  t2 = t2  p1 = p1  p2 = p2
    Ark = {a1}
    Authority = {wA, wB}
    Target = {t1, t2}
    Payload = {p1}
    None = None
    MaxAttempts = 0
    PublishAfter = 1
    TargetReplicas = 1
    Fragile <- NoCid
    Cached <- NoCid
    MaxPending = 2
    Revocable = {wA}
    Foreign = {a1}
    Offers <- OffersOwners
    ApiAssigned = {wA, wB}
    ReplicationAssigned = {wA, wB}
    ChainAssigned = {wA, wB}
    PageSize = 1
    RpcBatchSize = 1
INVARIANTS
    SignedOnlyByItsAuthority
    PublishedIsOnChain
PROPERTIES
    ConfirmedFailsForIdentity
    ImplementsLifecycle
