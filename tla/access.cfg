\* The authorization cache of the API, and the import command, against an
\* administration that grants and revokes.
CONSTANTS
    p1 = p1
    p2 = p2
    p3 = p3
    a1 = a1
    a2 = a2
    u1 = u1
    u2 = u2
    t1 = t1
    t2 = t2
    Pair = {p1, p2, p3}
    Thread = {t1, t2}
    Ttl = 2
    MaxSize = 2
    None = None
    Ark = {a1, a2}
    Url = {u1, u2}
    Me = Me
    Other = Other
    Inputs <- MCInputs
    Contested = {a1}
    NoUrl = NoUrl
    ImportPair = p1
    Scenes = {"requests", "import"}

SPECIFICATION Spec

INVARIANTS
    TypeOK
    ReportsAreTrue

PROPERTY GrantsAreRecent
