SPECIFICATION Spec
CONSTANTS
    r1 = r1  r2 = r2  r3 = r3  i1 = i1  i2 = i2
    Request = {r1, r2, r3}
    Single = {r3}
    wanted <- Wanted
    Item = {i1, i2}
    MaxRetries = 2
    MaxSends = 1
    Foreign = {0, 1}
    Breakable = {}
    Base = 5
    MinLength = 1
    Prefix <- MCPrefix
    None = None
    Failed = Failed
INVARIANTS
    TypeOK
    AnswersNeverClash
    AnswersAgree
    AnswersWereLive
    RefusedOnlyWhenCrowded
    MintedNamesDiffer
    
PROPERTIES
    ImplementsRegistry
CHECK_DEADLOCK FALSE
