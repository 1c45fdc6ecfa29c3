------------------------------- MODULE TimerSet ------------------------------
(***************************************************************************)
(* What the list of timers promises to the event loop: it keeps a deadline *)
(* for every timer in use, and a tick takes timers that are due and no     *)
(* other.  It takes all of them as long as nobody set the clock back.      *)
(***************************************************************************)
EXTENDS Integers

CONSTANTS
    Timers,    \* the timers there may be
    Term       \* time from the last use of a timer to its deadline

VARIABLES
    deadline,  \* timer in use -> when it is due
    now,       \* the clock
    setBack,   \* the clock was set back at some time
    ticking,   \* a tick is under way
    due        \* the timers it has still to take

vars == <<deadline, now, setBack, ticking, due>>

InUse == DOMAIN deadline

Init ==
    /\ deadline = [t \in {} |-> 0]
    /\ now = 0 /\ setBack = FALSE
    /\ ticking = FALSE /\ due = {}

Drop(t) == deadline' = [u \in InUse \ {t} |-> deadline[u]]

\* a new timer, or one that was used again
Set(t) ==
    /\ ~ticking
    /\ deadline' = [u \in InUse \cup {t} |-> IF u = t THEN now + Term ELSE deadline[u]]
    /\ UNCHANGED <<now, setBack, ticking, due>>

Remove(t) ==
    /\ ~ticking /\ t \in InUse
    /\ Drop(t)
    /\ UNCHANGED <<now, setBack, ticking, due>>

TickBegin ==
    /\ ~ticking /\ ticking' = TRUE
    /\ due' = {t \in InUse : deadline[t] <= now}
    /\ UNCHANGED <<deadline, now, setBack>>

TickTake(t) ==
    /\ ticking /\ t \in due
    /\ due' = due \ {t}
    /\ Drop(t)
    /\ UNCHANGED <<now, setBack, ticking>>

TickEnd ==
    /\ ticking /\ ticking' = FALSE
    /\ due = {} \/ setBack
    /\ due' = {}
    /\ UNCHANGED <<deadline, now, setBack>>

Clock ==
    /\ setBack' = (setBack \/ now' < now)
    /\ UNCHANGED <<deadline, ticking, due>>

Next ==
    \/ \E t \in Timers : Set(t) \/ Remove(t) \/ TickTake(t)
    \/ TickBegin \/ TickEnd
    \/ Clock

Safety == Init /\ [][Next]_vars

\* A tick comes to its end.
Spec == Safety /\ WF_vars(TickEnd \/ \E t \in Timers : TickTake(t))
=============================================================================
