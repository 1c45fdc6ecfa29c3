------------------------------ MODULE Ownership ------------------------------
(***************************************************************************)
(* What EPOLLONESHOT is used for: at any time one party handles a          *)
(* connection.  The kernel watches it, or the event loop has an event for  *)
(* it, or it is with the pool; it changes hands in this order, and it is   *)
(* closed by the event loop or for being idle, never under a worker.  A    *)
(* pool that is full refuses it, and then nobody has it until it expires.  *)
(***************************************************************************)
EXTENDS Naturals, FiniteSets

CONSTANTS
    Conns,     \* the connections clients may make
    Capacity   \* what the pool takes before it may refuse

VARIABLE owner    \* connection -> who has it

Party == {"nobody", "kernel", "loop", "pool", "refused", "closed"}

TypeOK == owner \in [Conns -> Party]

Init == owner = [c \in Conns |-> "nobody"]

Move(c, from, to) == owner[c] = from /\ owner' = [owner EXCEPT ![c] = to]

\* accepted and watched, or turned away
Open(c) == Move(c, "nobody", "kernel") \/ Move(c, "nobody", "closed")

\* one round of epoll_wait reports some of the watched connections
Deliver(S) ==
    /\ \A c \in S : owner[c] = "kernel"
    /\ owner' = [c \in Conns |-> IF c \in S THEN "loop" ELSE owner[c]]

\* the loop handles an event itself, or closes, or asks the pool
Serve(c) == \E to \in {"kernel", "pool", "closed"} : Move(c, "loop", to)

\* the pool is full
Refuse(c) ==
    /\ Cardinality({d \in Conns : owner[d] = "pool"}) >= Capacity
    /\ Move(c, "loop", "refused")

\* the pool re-arms the connection, or hands it back to a loop that waits
Finish(c) == Move(c, "pool", "kernel") \/ Move(c, "pool", "loop")

\* the timers of some connections that nobody works on expire
Expire(S) ==
    /\ \A c \in S : owner[c] \in {"kernel", "refused"}
    /\ owner' = [c \in Conns |-> IF c \in S THEN "closed" ELSE owner[c]]

Next ==
    \/ \E c \in Conns : Open(c) \/ Serve(c) \/ Refuse(c) \/ Finish(c)
    \/ \E S \in SUBSET Conns : Deliver(S) \/ Expire(S)

Safety == Init /\ [][Next]_owner

\* The pool gives back what it got.
Fairness == \A c \in Conns : WF_owner(Finish(c))

Spec == Safety /\ Fairness
=============================================================================
