\* Two connections after one another, two requests, every piece a request or a response may be cut into.
CONSTANTS
    RequestLines <- MCRequestLines
    KeepAlive = "keep-alive"
    ContentLength = "length"
    BodyLen = 2
    kREAD_BUFFER_SIZE = 12
    NULL = NULL
    Pages <- MCPages
    HeaderLen = 4
    FormLen = 3
    IntMax = 7
    MAP_FAILED = MAP_FAILED
    Requests <- MCRequests
    MaxRequests = 2
    MaxConns = 2
    Closed = Closed
    Idle = Idle
SPECIFICATION Spec
INVARIANTS
    TypeOK
    MappingSound
    OwnBody
PROPERTIES
    ImplementsExchange
    Answered
