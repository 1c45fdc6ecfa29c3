\* The proactor with requests for missing files and a pool that keeps up.
CONSTANTS
    Fds = {f1, f2}
    Conns = {c1, c2, c3}
    Workers = {w1, w2}
    None = None
    NoFd = NoFd
    Spent = Spent
    concurrency_model_ = "PROACTOR_MODEL"
    requests_list_max_ = 2
    kFD_MAX = 8
    IdleSlots = 2
    Answers = {"reply", "drop"}
    CutsTwice = FALSE
    Prompt = TRUE
    MayStop = FALSE
SPECIFICATION Spec
PROPERTIES
    ClosesOnlyIdle
