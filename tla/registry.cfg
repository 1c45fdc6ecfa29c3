\* Two workers, two names, four requests and a restart.
CONSTANTS
    Workers = {w1, w2}
    Names = {n1, n2}
    Passwords = {p1, empty}
    Empty = empty
    MaxRequests = 4
    MaxStarts = 1
    None = None
SPECIFICATION Spec
INVARIANTS
    TypeOK
    AccountKept
    CacheBacked
PROPERTIES
    AccountOpens
    Served
