\* The proactor whose every request can be answered and whose pool keeps up.
CONSTANTS
    Fds = {f1, f2}
    Conns = {c1, c2, c3}
    Workers = {w1, w2}
    None = None
    NoFd = NoFd
    Spent = Spent
    concurrency_model_ = "PROACTOR_MODEL"
    requests_list_max_ = 1
    kFD_MAX = 8
    IdleSlots = 2
    Answers = {"incomplete", "reply"}
    CutsTwice = TRUE
    Prompt = TRUE
    MayStop = FALSE
SPECIFICATION Spec
INVARIANTS
    NoCrossTalk
PROPERTIES
    OneHandler
    PoolGivesBack
    ClosesOnlyIdle
