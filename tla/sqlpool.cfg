\* Fewer connections than threads.  What needs as many connections as callers
\* is claimed of the behaviours in which at most two threads call at a time.
CONSTANTS
    Threads = {t1, t2, t3}
    Conns = {m1, m2}
    None = None
SPECIFICATION Spec
INVARIANTS
    TypeOK
    Accounted
    NeverNull
    NeverAborts
    ReserveCounts
PROPERTIES
    Served
