------------------------------ MODULE WorkQueue ------------------------------
(***************************************************************************)
(* What the thread pool promises to the event loop: a bounded queue of     *)
(* jobs, served first in, first out, each job by exactly one worker.       *)
(* A job is a request together with the direction (0 read, 1 write) the    *)
(* event loop asked for.                                                   *)
(***************************************************************************)
EXTENDS Naturals, Sequences

CONSTANTS
    Workers,              \* the threads of the pool
    Requests,             \* what a job may be about: the HttpConn slots
    requests_list_max_,   \* capacity of the queue
    None                  \* no job

Job == Requests \X {0, 1}

VARIABLES
    queue,    \* jobs accepted and not taken yet
    inHand    \* worker -> the job it took and has not finished, or None

vars == <<queue, inHand>>

TypeOK ==
    /\ queue \in Seq(Job)
    /\ Len(queue) <= requests_list_max_
    /\ inHand \in [Workers -> Job \cup {None}]

Init ==
    /\ queue = <<>>
    /\ inHand = [w \in Workers |-> None]

Accept(j) ==
    /\ Len(queue) < requests_list_max_
    /\ queue' = Append(queue, j)
    /\ UNCHANGED inHand

Take(w) ==
    /\ queue # <<>>
    /\ inHand[w] = None
    /\ inHand' = [inHand EXCEPT ![w] = Head(queue)]
    /\ queue' = Tail(queue)

Finish(w) ==
    /\ inHand[w] # None
    /\ inHand' = [inHand EXCEPT ![w] = None]
    /\ UNCHANGED queue

Next ==
    \/ \E j \in Job : Accept(j)
    \/ \E w \in Workers : Take(w) \/ Finish(w)

Safety == Init /\ [][Next]_vars

\* A job at the head of the queue does not wait while a worker has nothing to do.
Spec == Safety /\ WF_vars(\E w \in Workers : Take(w))
=============================================================================
