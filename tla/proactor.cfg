\* The proactor with a queue of one place and a limit on users that is reached.
CONSTANTS
    Fds = {f1, f2}
    Conns = {c1, c2, c3}
    Workers = {w1, w2}
    None = None
    NoFd = NoFd
    Spent = Spent
    concurrency_model_ = "PROACTOR_MODEL"
    requests_list_max_ = 1
    kFD_MAX = 5
    IdleSlots = 1
    Answers = {"reply", "drop"}
    CutsTwice = TRUE
    Prompt = FALSE
    MayStop = FALSE
SPECIFICATION Safety
SYMMETRY Symmetry
INVARIANTS
    TypeOK
    OpenHasTimer
    TimerAlive
