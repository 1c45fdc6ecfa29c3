------------------------------ MODULE ThreadPool -----------------------------
(***************************************************************************)
(* The template ThreadPool of threadpool/threadpool.h with the Sem and     *)
(* Locker wrappers of lock/locker.h it is built from: one producer (the    *)
(* event loop's thread) appends to workqueue_ under a mutex and posts a    *)
(* semaphore; the workers wait on the semaphore, lock, pop and run.        *)
(*                                                                         *)
(* A step ends where another thread can see a difference: a critical       *)
(* section (acquire ... release) is the acquiring step and one step for    *)
(* its body together with the release.  The result of sem_wait is ignored  *)
(* by Run, so a wait cut short by a signal goes on as if it had succeeded. *)
(***************************************************************************)
EXTENDS Naturals, Sequences, FiniteSets

CONSTANTS
    Workers,              \* the threads of the pool
    Requests,             \* HttpConn slots that may be appended
    requests_list_max_,   \* capacity of workqueue_
    Main,                 \* the thread that runs the event loop
    None                  \* no request, no owner of the mutex

ASSUME ThreadPoolAssumption ==
    /\ IsFiniteSet(Workers)
    /\ Workers # {}
    /\ requests_list_max_ \in Nat \ {0}
    /\ Main \notin Workers
    /\ None \notin Workers \cup {Main}
    /\ None \notin Requests
    /\ None \notin Requests \X {0, 1}

Threads == Workers \cup {Main}

VARIABLES
    workqueue_,          \* list of requests that wait for a worker
    workqueue_locker_,   \* the thread that holds the mutex, or None
    workqueue_sem_,      \* value of the semaphore
    http_state_,         \* request -> direction written by the last append
    appending,           \* <<request, state>> of the append in progress, or None
    request,             \* worker -> request it popped, or None
    job,                 \* worker -> <<request, state>> it is processing, or None
    pc                   \* thread -> where it stands

vars == <<workqueue_, workqueue_locker_, workqueue_sem_, http_state_,
          appending, request, job, pc>>

Job == Requests \X {0, 1}

TypeOK ==
    /\ workqueue_ \in Seq(Requests)
    /\ Len(workqueue_) <= requests_list_max_
    /\ workqueue_locker_ \in Threads \cup {None}
    /\ workqueue_sem_ \in Nat
    /\ http_state_ \in [Requests -> {0, 1}]
    /\ appending \in Job \cup {None}
    /\ request \in [Workers -> Requests \cup {None}]
    /\ job \in [Workers -> Job \cup {None}]
    /\ pc \in [Threads -> {"idle", "lock", "locked", "post",
                           "wait", "taken", "run"}]
    /\ pc[Main] \in {"idle", "lock", "locked", "post"}
    /\ \A w \in Workers : pc[w] \in {"wait", "lock", "locked", "taken", "run"}

Init ==
    /\ workqueue_ = <<>>
    /\ workqueue_locker_ = None
    /\ workqueue_sem_ = 0
    /\ http_state_ = [r \in Requests |-> 0]
    /\ appending = None
    /\ request = [w \in Workers |-> None]
    /\ job = [w \in Workers |-> None]
    /\ pc = [t \in Threads |-> IF t = Main THEN "idle" ELSE "wait"]

Goto(t, l) == pc' = [pc EXCEPT ![t] = l]

----------------------------------------------------------------------------
(* ReactorAppendRequests, called by the event loop only.                   *)

\* An obligation of the caller, which the pool does not check: with the direction of
\* a request still unread, http_state_ must not be overwritten with another.  The
\* reactor's loop keeps it, since it waits for a request until a worker has read its
\* direction and finds the queue empty at the next append (CompletionMatches and
\* QueueDrained of WebServer); the proactor's loop only ever passes 0.
Settled(r, s) ==
    (\/ \E i \in DOMAIN workqueue_ : workqueue_[i] = r
     \/ \E w \in Workers : pc[w] = "taken" /\ request[w] = r)
        => http_state_[r] = s

AppendCall(r, s) ==
    /\ pc[Main] = "idle"
    /\ Settled(r, s)
    /\ appending' = <<r, s>>
    /\ Goto(Main, "lock")
    /\ UNCHANGED <<workqueue_, workqueue_locker_, workqueue_sem_, http_state_,
                   request, job>>

\* workqueue_locker_.Lock(), of the event loop or of a worker
Lock(t) ==
    /\ pc[t] = "lock"
    /\ workqueue_locker_ = None
    /\ workqueue_locker_' = t
    /\ Goto(t, "locked")
    /\ UNCHANGED <<workqueue_, workqueue_sem_, http_state_, appending,
                   request, job>>

\* the queue is full: unlock and return false
AppendRefused ==
    /\ pc[Main] = "locked"
    /\ Len(workqueue_) >= requests_list_max_
    /\ workqueue_locker_' = None
    /\ appending' = None
    /\ Goto(Main, "idle")
    /\ UNCHANGED <<workqueue_, workqueue_sem_, http_state_, request, job>>

\* Slip: the test of the capacity is off by one.
AppendPushOverfull ==
    /\ pc[Main] = "locked"
    /\ Len(workqueue_) <= requests_list_max_
    /\ http_state_' = [http_state_ EXCEPT ![appending[1]] = appending[2]]
    /\ workqueue_' = Append(workqueue_, appending[1])
    /\ workqueue_locker_' = None
    /\ appending' = None
    /\ Goto(Main, "post")
    /\ UNCHANGED <<workqueue_sem_, request, job>>

\* set the direction, push at the back, unlock
AppendPush ==
    /\ pc[Main] = "locked"
    /\ Len(workqueue_) < requests_list_max_
    /\ http_state_' = [http_state_ EXCEPT ![appending[1]] = appending[2]]
    /\ workqueue_' = Append(workqueue_, appending[1])
    /\ workqueue_locker_' = None
    /\ appending' = None
    /\ Goto(Main, "post")
    /\ UNCHANGED <<workqueue_sem_, request, job>>

\* Slip: the semaphore is not posted.
AppendPostNot ==
    /\ pc[Main] = "post"
    /\ Goto(Main, "idle")
    /\ UNCHANGED <<workqueue_, workqueue_locker_, workqueue_sem_, http_state_,
                   appending, request, job>>

\* workqueue_sem_.Post(), return true
AppendPost ==
    /\ pc[Main] = "post"
    /\ workqueue_sem_' = workqueue_sem_ + 1
    /\ Goto(Main, "idle")
    /\ UNCHANGED <<workqueue_, workqueue_locker_, http_state_, appending,
                   request, job>>

----------------------------------------------------------------------------
(* Run, the loop of every worker.                                          *)

SemWait(w) ==
    /\ pc[w] = "wait"
    /\ workqueue_sem_ > 0
    /\ workqueue_sem_' = workqueue_sem_ - 1
    /\ Goto(w, "lock")
    /\ UNCHANGED <<workqueue_, workqueue_locker_, http_state_, appending,
                   request, job>>

\* A signal (SIGALRM, SIGTERM: installed without SA_RESTART) ends a blocked
\* sem_wait with EINTR; Run does not look at the result.
SemInterrupted(w) ==
    /\ pc[w] = "wait"
    /\ workqueue_sem_ = 0
    /\ Goto(w, "lock")
    /\ UNCHANGED <<workqueue_, workqueue_locker_, workqueue_sem_, http_state_,
                   appending, request, job>>

TakeNothing(w) ==
    /\ pc[w] = "locked"
    /\ workqueue_ = <<>>
    /\ workqueue_locker_' = None
    /\ Goto(w, "wait")
    /\ UNCHANGED <<workqueue_, workqueue_sem_, http_state_, appending,
                   request, job>>

\* Slip: the request at the back is taken, the one at the front removed.
TakeBack(w) ==
    /\ pc[w] = "locked"
    /\ workqueue_ # <<>>
    /\ request' = [request EXCEPT ![w] = workqueue_[Len(workqueue_)]]
    /\ workqueue_' = Tail(workqueue_)
    /\ workqueue_locker_' = None
    /\ Goto(w, "taken")
    /\ UNCHANGED <<workqueue_sem_, http_state_, appending, job>>

Take(w) ==
    /\ pc[w] = "locked"
    /\ workqueue_ # <<>>
    /\ request' = [request EXCEPT ![w] = Head(workqueue_)]
    /\ workqueue_' = Tail(workqueue_)
    /\ workqueue_locker_' = None
    /\ Goto(w, "taken")
    /\ UNCHANGED <<workqueue_sem_, http_state_, appending, job>>

\* the test of request->http_state_, outside the lock
Dispatch(w) ==
    /\ pc[w] = "taken"
    /\ job' = [job EXCEPT ![w] = <<request[w], http_state_[request[w]]>>]
    /\ Goto(w, "run")
    /\ UNCHANGED <<workqueue_, workqueue_locker_, workqueue_sem_, http_state_,
                   appending, request>>

\* ReadOnce, Process or Write returned; what they do is in module WebServer
Finish(w) ==
    /\ pc[w] = "run"
    /\ request' = [request EXCEPT ![w] = None]
    /\ job' = [job EXCEPT ![w] = None]
    /\ Goto(w, "wait")
    /\ UNCHANGED <<workqueue_, workqueue_locker_, workqueue_sem_, http_state_,
                   appending>>

----------------------------------------------------------------------------
MainStep == AppendRefused \/ AppendPush \/ AppendPost

Run(w) == TakeNothing(w) \/ Take(w) \/ Dispatch(w) \/ Finish(w)

Next ==
    \/ \E r \in Requests, s \in {0, 1} : AppendCall(r, s)
    \/ \E t \in Threads : Lock(t)
    \/ MainStep
    \/ \E w \in Workers : SemWait(w) \/ SemInterrupted(w) \/ Run(w)

\* A thread that can go on does.  For the mutex that is not enough: the event
\* loop may find the queue full and come back for ever, so that a worker finds
\* the mutex free again and again without ever having it free for good.
Fairness ==
    /\ WF_vars(MainStep)
    /\ \A w \in Workers : WF_vars(Run(w)) /\ WF_vars(SemWait(w))
    /\ \A t \in Threads : SF_vars(Lock(t))

Spec == Init /\ [][Next]_vars /\ Fairness

----------------------------------------------------------------------------
\* The workers that are past the semaphore and have not looked into the queue.
Awake == {w \in Workers : pc[w] \in {"lock", "locked"}}

\* No lost wake-up: every queued request is matched by a unit of the semaphore,
\* by a worker on its way to the queue, or by the post the event loop is about
\* to make.  So a request is never left in the queue with every worker asleep
\* (threadpool.h:101-105 against 142-153), although a wait may end early.
NoLostWakeup ==
    Len(workqueue_) <= workqueue_sem_ + Cardinality(Awake)
                       + (IF pc[Main] = "post" THEN 1 ELSE 0)

\* The pool is the bounded first-in-first-out queue of module WorkQueue.  A job
\* is in a worker's hand from the pop on, although the worker reads the
\* direction only later and outside the lock.
Directed(q, h) == [i \in DOMAIN q |-> <<q[i], h[q[i]]>>]

Pool == INSTANCE WorkQueue WITH
    queue  <- Directed(workqueue_, http_state_),
    inHand <- [w \in Workers |->
                  IF pc[w] = "taken"
                  THEN <<request[w], http_state_[request[w]]>>
                  ELSE job[w]]

\* Requests are taken in the order they were appended, each once, with the
\* direction it was appended with, never more than requests_list_max_ wait, and
\* the first one does not wait for ever while a worker is free
\* (threadpool.h:91-107, 136-203).
ImplementsWorkQueue == Pool!Spec
=============================================================================
