\* The reactor with time and SIGTERM: what must happen in the end.
CONSTANTS
    Fds = {f1}
    Conns = {c1, c2}
    Workers = {w1}
    None = None
    NoFd = NoFd
    Spent = Spent
    concurrency_model_ = "REACTOR_MODEL"
    requests_list_max_ = 1
    kFD_MAX = 8
    IdleSlots = 1
    Answers = {"incomplete", "reply", "drop"}
    CutsTwice = TRUE
    Prompt = FALSE
    MayStop = TRUE
SPECIFICATION Spec
PROPERTIES
    SpinEnds
    TimeoutEnforced
    StopHonoured
