\* Two workers compete for a queue of two places and two slots.
CONSTANTS
    Workers = {w1, w2}
    Requests = {r1, r2}
    requests_list_max_ = 2
    Main = main
    None = None
SPECIFICATION Spec
INVARIANTS
    TypeOK
    NoLostWakeup
PROPERTIES
    ImplementsWorkQueue
