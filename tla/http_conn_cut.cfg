\* One connection whose client sends one well-formed request with a body.
CONSTANTS
    RequestLines <- MCRequestLines
    KeepAlive = "keep-alive"
    ContentLength = "length"
    BodyLen = 2
    kREAD_BUFFER_SIZE = 16
    NULL = NULL
    Pages <- MCPages
    HeaderLen = 4
    FormLen = 3
    IntMax = 7
    MAP_FAILED = MAP_FAILED
    Requests <- PostOnly
    MaxRequests = 2
    MaxConns = 2
    Closed = Closed
    Idle = Idle
SPECIFICATION Spec
INVARIANTS
    NoRequestMeansMore
