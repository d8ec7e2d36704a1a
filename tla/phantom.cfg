SPECIFICATION Spec
CONSTANTS
    r1 = r1  r2 = r2  r3 = r3  i1 = i1  i2 = i2
    Request = {r1}
    Single = {}
    wanted <- Wanted
    Item = {i1, i2}
    MaxRetries = 2
    MaxSends = 1
    Foreign = {}
    Breakable = {r1}
    Base = 5
    MinLength = 1
    Prefix <- MCPrefix
    None = None
    Failed = Failed
INVARIANTS
    ResultsAreReserved
CHECK_DEADLOCK FALSE
