\* Three timers, a term of two and a clock that runs to three and may be set back.
CONSTANTS
    Timers = {t1, t2, t3}
    NULL = NULL
    Term = 2
    MaxTime = 3
SPECIFICATION Spec
INVARIANTS
    TypeOK
    WellLinked
    Sorted
PROPERTIES
    ImplementsTimerSet
    CallsEnd
