\* The reactor with every outcome of a request and with SIGTERM.
CONSTANTS
    Fds = {f1, f2}
    Conns = {c1, c2}
    Workers = {w1, w2}
    None = None
    NoFd = NoFd
    Spent = Spent
    concurrency_model_ = "REACTOR_MODEL"
    requests_list_max_ = 2
    kFD_MAX = 6
    IdleSlots = 1
    Answers = {"incomplete", "reply", "drop"}
    CutsTwice = TRUE
    Prompt = FALSE
    MayStop = TRUE
SPECIFICATION Safety
SYMMETRY Symmetry
INVARIANTS
    OpenHasTimer
    TimerAlive
    CompletionMatches
    QueueDrained
