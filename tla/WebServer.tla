------------------------------ MODULE WebServer ------------------------------
(***************************************************************************)
(* The running server: the event loop of webserver.cpp, the idle timers of *)
(* timer/list_timer.cpp, the workers of threadpool/threadpool.h and the    *)
(* slots (HttpConn objects, one per descriptor) of http/http_conn.cpp they *)
(* share without a lock.                                                   *)
(*                                                                         *)
(* Reduced to what the properties tell apart: a connection is a name; the  *)
(* read buffer of a slot is the connection whose bytes it holds; the write *)
(* buffer is the connection whose request it answers; the outcome of       *)
(* recv, writev and of parsing a request is a choice.  The queue of the    *)
(* pool is the atomic queue that module ThreadPool implements.  Time is    *)
(* counted in slots of kTIMESLOT seconds.                                  *)
(***************************************************************************)
EXTENDS Integers, Sequences, FiniteSets

CONSTANTS
    Fds,                  \* descriptors accept may return; they index the slots
    Conns,                \* the connections clients may make
    Workers,              \* the threads of the pool
    None,                 \* no connection, no timer
    NoFd,                 \* no descriptor (-1)
    Spent,                \* a response with bytes to send and none in the iovecs
    concurrency_model_,   \* REACTOR_MODEL or PROACTOR_MODEL
    requests_list_max_,   \* capacity of the pool's queue
    kFD_MAX,              \* number of users the server admits
    IdleSlots,            \* slots until a timer expires (3 in the code)
    Answers,              \* what parsing may lead to
    CutsTwice,            \* the header of an error page may leave in three pieces
    Prompt,               \* no slot of time passes while the pool has work
    MayStop               \* SIGTERM may come

ASSUME WebServerAssumption ==
    /\ concurrency_model_ \in {"REACTOR_MODEL", "PROACTOR_MODEL"}
    /\ IsFiniteSet(Conns) /\ IsFiniteSet(Fds)
    /\ None \notin Conns /\ NoFd \notin Fds
    /\ Spent \notin Conns /\ Spent # None
    /\ requests_list_max_ \in Nat \ {0}
    /\ kFD_MAX \in Nat
    /\ IdleSlots \in Nat \ {0}
    /\ Answers \subseteq {"incomplete", "reply", "drop"}
    /\ CutsTwice \in BOOLEAN /\ Prompt \in BOOLEAN /\ MayStop \in BOOLEAN

VARIABLES
    \* the kernel
    fresh,      \* connections no client has made yet
    conn,       \* descriptor -> the connection open on it, or None
    interest,   \* descriptor -> "in" / "out" armed, "off" after the one event
    pipe,       \* signals written to the pipe and not read: "alarm", "term"
    alarm,      \* the alarm is set
    \* the slots
    sockfd_, completed_flag_, close_conn_flag_, http_state_,
    req,        \* slot -> connection whose bytes are in the read buffer
    resp,       \* slot -> connection whose answer is in the write buffer, or Spent
    client_counts_,
    \* the timers; a timer is named after the connection it was made for
    timer_list_,   \* timers in the list
    timer,         \* client_resource_[fd].timer
    user_data,     \* timer -> descriptor it closes
    age,           \* timer -> slots since it was set, up to IdleSlots
    \* the event loop
    pc,         \* "wait" in epoll_wait, "events", "spin" for a worker, "stopped"
    events_,    \* events of this round still to handle
    cur,        \* descriptor the loop spins on
    curTimer,   \* its timer, read before the loop started to spin
    clock_flag, stop_server_flag,
    \* the pool
    workqueue_,
    wpc,        \* worker -> where it stands
    request,    \* worker -> slot it works on, or NoFd
    answer,     \* worker -> connection whose request it parsed, or None
    count       \* worker -> client_counts_ as it read it

kernel == <<fresh, conn, interest, pipe, alarm>>
slots  == <<sockfd_, completed_flag_, close_conn_flag_, http_state_, req, resp>>
timers == <<timer_list_, timer, user_data, age>>
loop   == <<pc, events_, cur, curTimer, clock_flag, stop_server_flag>>
pool   == <<workqueue_, wpc, request, answer, count>>
vars   == <<kernel, slots, client_counts_, timers, loop, pool>>

REACTOR == concurrency_model_ = "REACTOR_MODEL"

Event == {<<"accept", NoFd>>, <<"signal", NoFd>>} \cup ({"in", "out", "hup"} \X Fds)

WorkerPlace == {"wait", "run", "parse", "reply", "arm_in", "arm_out",
                "drop_fd", "drop_mark", "drop_count", "drop_store", "mark"}

TypeOK ==
    /\ fresh \subseteq Conns
    /\ conn \in [Fds -> Conns \cup {None}]
    /\ interest \in [Fds -> {"in", "out", "off"}]
    /\ pipe \subseteq {"alarm", "term"} /\ alarm \in BOOLEAN
    /\ sockfd_ \in [Fds -> Fds \cup {NoFd}]
    /\ completed_flag_ \in [Fds -> {0, 1}] /\ close_conn_flag_ \in [Fds -> {0, 1}]
    /\ http_state_ \in [Fds -> {0, 1}]
    /\ req \in [Fds -> Conns \cup {None}] /\ resp \in [Fds -> Conns \cup {None, Spent}]
    /\ client_counts_ \in Int
    /\ timer_list_ \subseteq Conns /\ timer \in [Fds -> Conns \cup {None}]
    /\ user_data \in [Conns -> Fds \cup {NoFd}] /\ age \in [Conns -> 0 .. IdleSlots]
    /\ pc \in {"wait", "events", "spin", "stopped"}
    /\ events_ \subseteq Event
    /\ cur \in Fds \cup {NoFd} /\ curTimer \in Conns \cup {None}
    /\ clock_flag \in BOOLEAN /\ stop_server_flag \in BOOLEAN
    /\ workqueue_ \in Seq(Fds) /\ Len(workqueue_) <= requests_list_max_
    /\ wpc \in [Workers -> WorkerPlace] /\ request \in [Workers -> Fds \cup {NoFd}]
    /\ answer \in [Workers -> Conns \cup {None}] /\ count \in [Workers -> Int]

Init ==
    /\ fresh = Conns
    /\ conn = [f \in Fds |-> None] /\ interest = [f \in Fds |-> "off"]
    /\ pipe = {} /\ alarm = TRUE
    /\ sockfd_ = [f \in Fds |-> NoFd]
    /\ completed_flag_ = [f \in Fds |-> 0] /\ close_conn_flag_ = [f \in Fds |-> 0]
    /\ http_state_ = [f \in Fds |-> 0]
    /\ req = [f \in Fds |-> None] /\ resp = [f \in Fds |-> None]
    /\ client_counts_ = 0
    /\ timer_list_ = {} /\ timer = [f \in Fds |-> None]
    /\ user_data = [c \in Conns |-> NoFd] /\ age = [c \in Conns |-> 0]
    /\ pc = "wait" /\ events_ = {} /\ cur = NoFd /\ curTimer = None
    /\ clock_flag = FALSE /\ stop_server_flag = FALSE
    /\ workqueue_ = <<>>
    /\ wpc = [w \in Workers |-> "wait"] /\ request = [w \in Workers |-> NoFd]
    /\ answer = [w \in Workers |-> None] /\ count = [w \in Workers |-> 0]

----------------------------------------------------------------------------
(* What the handlers are built from.                                       *)

\* The descriptor a slot would hand to a system call is open.
Valid(f) == sockfd_[f] = f /\ conn[f] # None

\* EpollModFd: it fails on a descriptor that is closed or -1
Arm(f, ev) ==
    interest' = IF Valid(f) THEN [interest EXCEPT ![f] = ev] ELSE interest

\* a closed descriptor leaves the event table
Close(f) ==
    /\ conn' = [conn EXCEPT ![f] = None]
    /\ interest' = [interest EXCEPT ![f] = "off"]

\* Slip: the worker does not report that it is done.
CompletedUntold(f, v) == completed_flag_' = [completed_flag_ EXCEPT ![f] = v]

\* completed_flag_ when a call of ReadOnce or Write has returned and left it at v:
\* the reactor's worker then sets it
Completed(f, v) ==
    completed_flag_' = [completed_flag_ EXCEPT ![f] = IF REACTOR THEN 1 ELSE v]

\* Slip: the flags are cleared, the buffers are not.
HttpClearFlags(f) ==
    /\ close_conn_flag_' = [close_conn_flag_ EXCEPT ![f] = 0]
    /\ http_state_' = [http_state_ EXCEPT ![f] = 0]
    /\ UNCHANGED <<req, resp>>

HttpClear(f) ==
    /\ close_conn_flag_' = [close_conn_flag_ EXCEPT ![f] = 0]
    /\ http_state_' = [http_state_ EXCEPT ![f] = 0]
    /\ req' = [req EXCEPT ![f] = None]
    /\ resp' = [resp EXCEPT ![f] = None]

\* recv returned bytes (ok), or the end of the stream, an error or EAGAIN
ReadOnce(f, ok) ==
    /\ ok => Valid(f)
    /\ req' = IF ok THEN [req EXCEPT ![f] = conn[f]] ELSE req
    /\ Completed(f, completed_flag_[f])
    /\ UNCHANGED <<sockfd_, close_conn_flag_, http_state_, resp>>

\* The header of an error page was cut twice: writev, with empty iovecs, returns 0
\* for ever while the descriptor is open.
Endless(f) == resp[f] = Spent /\ Valid(f)

\* Write gets there
Spend(f) ==
    /\ CutsTwice /\ resp[f] \in Conns /\ Valid(f)
    /\ resp' = [resp EXCEPT ![f] = Spent]
    /\ UNCHANGED <<kernel, sockfd_, completed_flag_, close_conn_flag_, http_state_, req,
                   client_counts_, timers, loop, pool>>

\* Write returns: nothing to send; EAGAIN; all sent and kept alive; all sent and to
\* be closed (armed for reading all the same); error
Write(f, ok) ==
    /\ ~Endless(f)
    /\ UNCHANGED sockfd_
    /\ \/ /\ ok
          /\ resp[f] # None => Valid(f)
          /\ Arm(f, "in")
          /\ HttpClear(f)
          /\ Completed(f, 0)
       \/ /\ ok /\ resp[f] # None /\ Valid(f)
          /\ Arm(f, "out")
          /\ Completed(f, completed_flag_[f])
          /\ UNCHANGED <<close_conn_flag_, http_state_, req, resp>>
       \/ /\ ~ok /\ resp[f] # None /\ Valid(f)
          /\ Arm(f, "in")
          /\ resp' = [resp EXCEPT ![f] = None]
          /\ Completed(f, completed_flag_[f])
          /\ UNCHANGED <<close_conn_flag_, http_state_, req>>
       \/ /\ ~ok /\ resp[f] # None
          /\ Completed(f, completed_flag_[f])
          /\ UNCHANGED <<interest, close_conn_flag_, http_state_, req, resp>>

\* Slip: the test of the capacity is off by one.
EnqueueOverfull(f, s) ==
    IF Len(workqueue_) <= requests_list_max_
    THEN /\ workqueue_' = Append(workqueue_, f)
         /\ http_state_' = [http_state_ EXCEPT ![f] = s]
    ELSE UNCHANGED <<workqueue_, http_state_>>

\* thread_pool_->ReactorAppendRequests, whose result the handlers ignore
Enqueue(f, s) ==
    IF Len(workqueue_) < requests_list_max_
    THEN /\ workqueue_' = Append(workqueue_, f)
         /\ http_state_' = [http_state_ EXCEPT ![f] = s]
    ELSE UNCHANGED <<workqueue_, http_state_>>

\* DelayTimer
Delay(c) == age' = [age EXCEPT ![c] = 0]

\* Slip: a descriptor that had a timer before keeps the pointer to it.
AddTimerStale(f, c) ==
    /\ timer' = IF timer[f] = None THEN [timer EXCEPT ![f] = c] ELSE timer
    /\ timer_list_' = timer_list_ \cup {c}
    /\ user_data' = [user_data EXCEPT ![c] = f]
    /\ Delay(c)

\* Slip: the timer is made and not put into the list.
AddTimerUnlisted(f, c) ==
    /\ timer' = [timer EXCEPT ![f] = c]
    /\ user_data' = [user_data EXCEPT ![c] = f]
    /\ Delay(c)
    /\ UNCHANGED timer_list_

\* a new timer, bound to the descriptor's resources
AddTimer(f, c) ==
    /\ timer' = [timer EXCEPT ![f] = c]
    /\ timer_list_' = timer_list_ \cup {c}
    /\ user_data' = [user_data EXCEPT ![c] = f]
    /\ Delay(c)

\* Slip: the timer is removed and its callback not called.
DelTimerOnly(f, c) ==
    /\ timer_list_' = timer_list_ \ {c}
    /\ UNCHANGED <<conn, interest, client_counts_>>

\* DelTimer: ReleseResource on the slot's resources, then the timer is freed
DelTimer(f, c) ==
    /\ Close(f)
    /\ client_counts_' = client_counts_ - 1
    /\ timer_list_' = timer_list_ \ {c}

----------------------------------------------------------------------------
(* The environment: time, clients, the operator.                           *)

PoolIdle == workqueue_ = <<>> /\ \A w \in Workers : wpc[w] = "wait"

\* A slot of time passes; an alarm that is set goes off and its handler writes
\* to the pipe.
Elapse ==
    /\ pc # "stopped"
    /\ Prompt => PoolIdle /\ pc = "wait" /\ pipe = {}
    /\ \/ alarm
       \/ \E c \in timer_list_ : age[c] < IdleSlots
    /\ age' = [c \in Conns |-> IF c \in timer_list_ /\ age[c] < IdleSlots
                                THEN age[c] + 1 ELSE age[c]]
    /\ pipe' = IF alarm THEN pipe \cup {"alarm"} ELSE pipe
    /\ alarm' = FALSE
    /\ UNCHANGED <<fresh, conn, interest, slots, client_counts_, timer_list_,
                   timer, user_data, loop, pool>>

\* SIGTERM comes and its handler writes to the pipe.
SigTerm ==
    /\ MayStop /\ pc # "stopped" /\ ~stop_server_flag
    /\ "term" \notin pipe
    /\ pipe' = pipe \cup {"term"}
    /\ UNCHANGED <<fresh, conn, interest, alarm, slots, client_counts_, timers,
                   loop, pool>>

----------------------------------------------------------------------------
(* The event loop.                                                         *)

\* Slip: without EPOLLONESHOT a descriptor stays armed.
DisarmNot(heard) == UNCHANGED interest

\* EPOLLONESHOT: a descriptor that is reported is off until it is armed again.
Disarm(heard) ==
    interest' = [f \in Fds |-> IF f \in heard THEN "off" ELSE interest[f]]

\* The clients that are heard of are the environment's choice; the pipe is
\* level triggered.  One event per descriptor.
EpollWait ==
    /\ pc = "wait"
    /\ \E acc \in SUBSET {<<"accept", NoFd>>}, heard \in SUBSET Fds :
       \E ev \in [heard -> {"in", "out", "hup"}] :
          /\ acc # {} => fresh # {}
          /\ \A f \in heard : /\ conn[f] # None /\ interest[f] # "off"
                               /\ ev[f] \in {interest[f], "hup"}
          /\ events_' = acc \cup {<<ev[f], f>> : f \in heard}
                           \cup (IF pipe # {} THEN {<<"signal", NoFd>>} ELSE {})
          /\ events_' # {}
          /\ Disarm(heard)
    /\ pc' = "events"
    /\ UNCHANGED <<fresh, conn, pipe, alarm, slots, client_counts_, timers,
                   cur, curTimer, clock_flag, stop_server_flag, pool>>

\* The loop looks at the events of a round in no order the program controls.
Handle(e) ==
    /\ pc = "events"
    /\ e \in events_
    /\ events_' = events_ \ {e}

\* no descriptor is left: accept fails and the client stays in the backlog
AcceptFails ==
    /\ Handle(<<"accept", NoFd>>)
    /\ \A f \in Fds : conn[f] # None
    /\ UNCHANGED <<kernel, slots, client_counts_, timers, pc, cur, curTimer,
                   clock_flag, stop_server_flag, pool>>

\* too many users: told so and closed
Reject(c) ==
    /\ Handle(<<"accept", NoFd>>)
    /\ c \in fresh /\ \E f \in Fds : conn[f] = None
    /\ fresh' = fresh \ {c}
    /\ client_counts_' = client_counts_ + 1
    /\ client_counts_' >= kFD_MAX
    /\ UNCHANGED <<conn, interest, pipe, alarm, slots, timers, pc, cur, curTimer,
                   clock_flag, stop_server_flag, pool>>

\* accept, HttpConn::Init (which counts the user again), AddTimer
HandleNewConn(c, f) ==
    /\ Handle(<<"accept", NoFd>>)
    /\ c \in fresh /\ conn[f] = None
    /\ client_counts_ + 1 < kFD_MAX
    /\ fresh' = fresh \ {c}
    /\ conn' = [conn EXCEPT ![f] = c]
    /\ interest' = [interest EXCEPT ![f] = "in"]
    /\ sockfd_' = [sockfd_ EXCEPT ![f] = f]
    /\ HttpClear(f)
    /\ completed_flag_' = [completed_flag_ EXCEPT ![f] = 0]
    /\ client_counts_' = client_counts_ + 2
    /\ AddTimer(f, c)
    /\ UNCHANGED <<pipe, alarm, pc, cur, curTimer, clock_flag, stop_server_flag,
                   pool>>

\* the peer closed or the socket failed
HandleHup(f) ==
    /\ Handle(<<"hup", f>>)
    /\ DelTimer(f, timer[f])
    /\ UNCHANGED <<fresh, pipe, alarm, slots, timer, user_data, age, pc, cur,
                   curTimer, clock_flag, stop_server_flag, pool>>

\* Slip: one signal of several is looked at.
DealWithOneSignal ==
    /\ Handle(<<"signal", NoFd>>)
    /\ clock_flag' = (clock_flag \/ "alarm" \in pipe)
    /\ stop_server_flag' = (stop_server_flag \/ pipe = {"term"})
    /\ pipe' = {}
    /\ UNCHANGED <<fresh, conn, interest, alarm, slots, client_counts_, timers,
                   pc, cur, curTimer, pool>>

DealWithSigna ==
    /\ Handle(<<"signal", NoFd>>)
    /\ clock_flag' = (clock_flag \/ "alarm" \in pipe)
    /\ stop_server_flag' = (stop_server_flag \/ "term" \in pipe)
    /\ pipe' = {}
    /\ UNCHANGED <<fresh, conn, interest, alarm, slots, client_counts_, timers,
                   pc, cur, curTimer, pool>>

\* Slip: the loop does not wait for the worker.
AwaitNobody(f) == UNCHANGED <<pc, cur, curTimer>>

AwaitWorker(f) == pc' = "spin" /\ cur' = f /\ curTimer' = timer[f]

\* the reactor's handlers of both directions: delay, append, spin
ReactorHandle(f, ev, s) ==
    /\ REACTOR
    /\ Handle(<<ev, f>>)
    /\ Delay(timer[f])
    /\ Enqueue(f, s)
    /\ AwaitWorker(f)
    /\ UNCHANGED <<kernel, sockfd_, completed_flag_, close_conn_flag_, req, resp,
                   client_counts_, timer_list_, timer, user_data, clock_flag,
                   stop_server_flag, wpc, request, answer, count>>

\* Slip: completed_flag_ is not taken back.
AcknowledgeNot(f) ==
    /\ close_conn_flag_' = [close_conn_flag_ EXCEPT ![f] = 0]
    /\ UNCHANGED completed_flag_

Acknowledge(f) ==
    /\ completed_flag_' = [completed_flag_ EXCEPT ![f] = 0]
    /\ close_conn_flag_' = [close_conn_flag_ EXCEPT ![f] = 0]

\* the loop that waits for the worker: one look at the two flags
Spin ==
    /\ pc = "spin"
    /\ completed_flag_[cur] = 1
    /\ Acknowledge(cur)
    /\ IF close_conn_flag_[cur] = 1
       THEN DelTimer(cur, curTimer)
       ELSE UNCHANGED <<conn, interest, client_counts_, timer_list_>>
    /\ pc' = "events" /\ cur' = NoFd /\ curTimer' = None
    /\ UNCHANGED <<fresh, pipe, alarm, sockfd_, http_state_, req, resp, timer,
                   user_data, age, events_, clock_flag, stop_server_flag, pool>>

\* the proactor reads itself and leaves the request to the pool
ProactorRead(f) ==
    /\ ~REACTOR
    /\ Handle(<<"in", f>>)
    /\ \/ /\ Valid(f)
          /\ req' = [req EXCEPT ![f] = conn[f]]
          /\ Enqueue(f, 0)
          /\ Delay(timer[f])
          /\ UNCHANGED <<conn, interest, client_counts_, timer_list_>>
       \/ /\ DelTimer(f, timer[f])
          /\ UNCHANGED <<http_state_, req, workqueue_, age>>
    /\ UNCHANGED <<fresh, pipe, alarm, sockfd_, completed_flag_, close_conn_flag_,
                   resp, timer, user_data, pc, cur, curTimer, clock_flag,
                   stop_server_flag, wpc, request, answer, count>>

\* the proactor writes itself
ProactorWrite(f) ==
    /\ ~REACTOR
    /\ Handle(<<"out", f>>)
    /\ \/ /\ Write(f, TRUE)
          /\ Delay(timer[f])
          /\ UNCHANGED <<conn, client_counts_, timer_list_>>
       \/ /\ resp[f] # None /\ ~Endless(f)
          /\ resp' \in {resp, [resp EXCEPT ![f] = None]}
          /\ DelTimer(f, timer[f])
          /\ UNCHANGED <<sockfd_, completed_flag_, close_conn_flag_, http_state_,
                         req, age>>
    /\ UNCHANGED <<fresh, pipe, alarm, timer, user_data, pc, cur, curTimer,
                   clock_flag, stop_server_flag, pool>>

\* the proactor's loop does not come back from Write
ProactorSpends(f) ==
    /\ ~REACTOR
    /\ pc = "events" /\ <<"out", f>> \in events_
    /\ Spend(f)

\* Slip: timers expire one slot too early.
ExpiredEarly == {c \in timer_list_ : age[c] >= IdleSlots - 1}

Expired == {c \in timer_list_ : age[c] = IdleSlots}

\* Slip: with no timer in the list the alarm is not set again.
SetAlarmOnce == alarm' = (timer_list_ # {})

SetAlarm == alarm' = TRUE

\* Tick closes whatever the expired timers point at and sets the alarm again.
Tick ==
    LET closed == {user_data[c] : c \in Expired}
    IN  /\ timer_list_' = timer_list_ \ Expired
        /\ conn' = [f \in Fds |-> IF f \in closed THEN None ELSE conn[f]]
        /\ interest' = [f \in Fds |-> IF f \in closed THEN "off" ELSE interest[f]]
        /\ client_counts_' = client_counts_ - Cardinality(Expired)
        /\ SetAlarm
        /\ clock_flag' = FALSE

\* Slip: the timers are looked at while events of the round are left.
RoundDoneEarly == pc = "events" /\ (events_ = {} \/ clock_flag)

RoundDone == pc = "events" /\ events_ = {}

\* the events of the round are handled
EndRound ==
    /\ RoundDone
    /\ IF clock_flag
       THEN Tick
       ELSE UNCHANGED <<timer_list_, conn, interest, client_counts_, alarm, clock_flag>>
    /\ pc' = IF stop_server_flag THEN "stopped" ELSE "wait"
    /\ UNCHANGED <<fresh, pipe, slots, timer, user_data, age, events_, cur,
                   curTimer, stop_server_flag, pool>>

----------------------------------------------------------------------------
(* The workers.                                                            *)

Goto(w, l) == wpc' = [wpc EXCEPT ![w] = l]

\* back to the queue
Done(w) ==
    /\ Goto(w, "wait")
    /\ request' = [request EXCEPT ![w] = NoFd]

\* Slip: the front of the queue is read and not popped.
PopNot(w) ==
    /\ request' = [request EXCEPT ![w] = Head(workqueue_)]
    /\ UNCHANGED workqueue_

Pop(w) ==
    /\ request' = [request EXCEPT ![w] = Head(workqueue_)]
    /\ workqueue_' = Tail(workqueue_)

\* pop a request; the reactor's worker looks at its direction, the proactor's
\* processes it
Take(w) ==
    /\ wpc[w] = "wait"
    /\ workqueue_ # <<>>
    /\ Pop(w)
    /\ Goto(w, IF REACTOR THEN "run" ELSE "parse")
    /\ UNCHANGED <<kernel, slots, client_counts_, timers, loop, answer, count>>

\* ReadOnce, completed_flag_ = 1, on to Process or to close_conn_flag_
WorkerRead(w, ok) ==
    /\ wpc[w] = "run" /\ http_state_[request[w]] = 0
    /\ ReadOnce(request[w], ok)
    /\ Goto(w, IF ok THEN "parse" ELSE "mark")
    /\ UNCHANGED <<kernel, client_counts_, timers, loop, workqueue_, request,
                   answer, count>>

\* Write, completed_flag_ = 1, and close_conn_flag_ next if it failed
WorkerWrite(w, ok) ==
    /\ wpc[w] = "run" /\ http_state_[request[w]] = 1
    /\ Write(request[w], ok)
    /\ IF ok THEN Done(w) ELSE Goto(w, "mark") /\ UNCHANGED request
    /\ UNCHANGED <<fresh, conn, pipe, alarm, client_counts_, timers, loop,
                   workqueue_, answer, count>>

\* a worker does not come back from Write
WorkerSpends(w) ==
    /\ wpc[w] = "run" /\ http_state_[request[w]] = 1
    /\ Spend(request[w])

\* close_conn_flag_ = 1, after completed_flag_
Mark(w) ==
    /\ wpc[w] = "mark"
    /\ close_conn_flag_' = [close_conn_flag_ EXCEPT ![request[w]] = 1]
    /\ Done(w)
    /\ UNCHANGED <<kernel, sockfd_, completed_flag_, http_state_, req, resp,
                   client_counts_, timers, loop, workqueue_, answer, count>>

\* ProcessRead: more bytes are needed, or a response can be made, or
\* ProcessWrite will refuse (a missing or an empty file)
Parse(w, a) ==
    /\ wpc[w] = "parse"
    /\ a # "incomplete" => req[request[w]] # None
    /\ answer' = [answer EXCEPT ![w] = IF a = "reply" THEN req[request[w]] ELSE None]
    /\ Goto(w, CASE a = "incomplete" -> "arm_in"
                 [] a = "reply"      -> "reply"
                 [] a = "drop"       -> "drop_fd")
    /\ UNCHANGED <<kernel, slots, client_counts_, timers, loop, workqueue_,
                   request, count>>

\* ProcessWrite fills the write buffer
Reply(w) ==
    /\ wpc[w] = "reply"
    /\ resp' = [resp EXCEPT ![request[w]] = answer[w]]
    /\ answer' = [answer EXCEPT ![w] = None]
    /\ Goto(w, "arm_out")
    /\ UNCHANGED <<kernel, sockfd_, completed_flag_, close_conn_flag_, http_state_,
                   req, client_counts_, timers, loop, workqueue_, request, count>>

\* the last step of Process
Rearm(w) ==
    /\ wpc[w] \in {"arm_in", "arm_out"}
    /\ Arm(request[w], IF wpc[w] = "arm_in" THEN "in" ELSE "out")
    /\ Done(w)
    /\ UNCHANGED <<fresh, conn, pipe, alarm, slots, client_counts_, timers, loop,
                   workqueue_, answer, count>>

\* CloseConn: EpollRemoveFd, unless the slot has no descriptor any more
DropFd(w) ==
    /\ wpc[w] = "drop_fd"
    /\ IF sockfd_[request[w]] # NoFd
       THEN Close(request[w]) /\ Goto(w, "drop_mark")
       ELSE UNCHANGED <<conn, interest>> /\ Goto(w, "arm_out")
    /\ UNCHANGED <<fresh, pipe, alarm, slots, client_counts_, timers, loop,
                   workqueue_, request, answer, count>>

\* sockfd_ = -1
DropMark(w) ==
    /\ wpc[w] = "drop_mark"
    /\ sockfd_' = [sockfd_ EXCEPT ![request[w]] = NoFd]
    /\ Goto(w, "drop_count")
    /\ UNCHANGED <<kernel, completed_flag_, close_conn_flag_, http_state_, req, resp,
                   client_counts_, timers, loop, workqueue_, request, answer, count>>

\* client_counts_--, unsynchronised: the load ...
DropCount(w) ==
    /\ wpc[w] = "drop_count"
    /\ count' = [count EXCEPT ![w] = client_counts_]
    /\ Goto(w, "drop_store")
    /\ UNCHANGED <<kernel, slots, client_counts_, timers, loop, workqueue_,
                   request, answer>>

\* ... and the store, which overwrites what the others did in between, or is
\* overwritten by one of them
DropStore(w) ==
    /\ wpc[w] = "drop_store"
    /\ \/ client_counts_' = count[w] - 1
       \/ client_counts_ # count[w] /\ UNCHANGED client_counts_
    /\ count' = [count EXCEPT ![w] = 0]
    /\ Goto(w, "arm_out")
    /\ UNCHANGED <<kernel, slots, timers, loop, workqueue_, request, answer>>

----------------------------------------------------------------------------
Environment == Elapse \/ SigTerm

NewConn == \E c \in Conns : Reject(c) \/ \E f \in Fds : HandleNewConn(c, f)

HandleEvent(f) ==
    \/ HandleHup(f)
    \/ ReactorHandle(f, "in", 0) \/ ReactorHandle(f, "out", 1)
    \/ ProactorRead(f) \/ ProactorWrite(f) \/ ProactorSpends(f)

EventLoop ==
    \/ AcceptFails \/ NewConn \/ DealWithSigna \/ Spin \/ EndRound
    \/ \E f \in Fds : HandleEvent(f)

Process(w) ==
    \/ \E a \in Answers : Parse(w, a)
    \/ Reply(w) \/ Rearm(w)
    \/ DropFd(w) \/ DropMark(w) \/ DropCount(w) \/ DropStore(w)

Run(w) ==
    \/ Take(w)
    \/ \E ok \in BOOLEAN : WorkerRead(w, ok) \/ WorkerWrite(w, ok)
    \/ WorkerSpends(w)
    \/ Mark(w)
    \/ Process(w)

Exited == pc = "stopped" /\ UNCHANGED vars

\* a thread is in a Write that does not end
Hung == \E f \in Fds : Endless(f)

\* Write goes round once more
WriteAgain == Hung /\ UNCHANGED vars

Next ==
    \/ Environment
    \/ EpollWait
    \/ EventLoop
    \/ pc # "stopped" /\ \E w \in Workers : Run(w)
    \/ Exited \/ WriteAgain

Safety == Init /\ [][Next]_vars

\* The loop and the workers go on while they can, the pipe makes epoll_wait
\* return, and time passes.  Clients need not do anything.
Fairness ==
    /\ WF_vars(EventLoop)
    /\ WF_vars(EpollWait /\ pipe # {})
    /\ WF_vars(Elapse)
    /\ \A w \in Workers : WF_vars(pc # "stopped" /\ Run(w))

Spec == Safety /\ Fairness

----------------------------------------------------------------------------
(* What must hold in every mode.                                           *)

\* Every open connection can be closed for idleness: the timer of its
\* descriptor is its own and in the list (webserver.cpp:255-311, 432-464).
OpenHasTimer ==
    \A f \in Fds : conn[f] # None =>
        /\ timer[f] = conn[f]
        /\ timer[f] \in timer_list_
        /\ user_data[timer[f]] = f

\* No handler dereferences a timer that was freed: neither through the pointer
\* kept in client_resource_ nor through the one the loop holds while it spins
\* (webserver.cpp:219-220, 317-372, 381-426, 457-464).
TimerAlive ==
    /\ \A f \in Fds, k \in {"in", "out", "hup"} :
          <<k, f>> \in events_ => timer[f] \in timer_list_
    /\ pc = "spin" => curTimer \in timer_list_

\* A completion is always for the request the loop waits for, and it comes once
\* (webserver.cpp:334-349, 395-409; threadpool.h:168-190).
CompletionMatches ==
    \A f \in Fds : completed_flag_[f] = 1 =>
        /\ pc = "spin" /\ cur = f
        /\ f \notin {workqueue_[i] : i \in DOMAIN workqueue_}
        /\ \A w \in Workers : ~(wpc[w] = "run" /\ request[w] = f)

\* The reactor's queue is empty whenever the loop appends, so an append is never
\* refused and the loop never waits for a request that was not queued
\* (webserver.cpp:331, 393; threadpool.h:95).
QueueDrained == REACTOR /\ pc # "spin" => workqueue_ = <<>>

\* The loop never spins for ever: a worker always completes the request it was
\* given, but for the one it cannot: the header of an error page was cut twice, and
\* Write does not return (webserver.cpp:334-349, 395-409; threadpool.h:166-192;
\* http_conn.cpp:152-187).
SpinEnds == pc = "spin" ~> pc # "spin" \/ Endless(cur)

\* A connection that stayed idle for its time is closed or gets a new term,
\* which needs the chain of alarm, pipe, event and Tick never to break
\* (list_timer.cpp:121-147, 177-184; webserver.cpp:244-250), unless a Write hangs.
TimeoutEnforced ==
    \A c \in Conns :
        c \in timer_list_ /\ age[c] = IdleSlots
            ~> c \notin timer_list_ \/ age[c] < IdleSlots \/ pc = "stopped" \/ Hung

\* SIGTERM ends the loop however busy it is, unless a Write hangs (webserver.cpp:188,
\* 491-495; http_conn.cpp:152-187).
StopHonoured == "term" \in pipe ~> pc = "stopped" \/ Hung

----------------------------------------------------------------------------
(* What the documentation says, and what holds only in some modes.         *)

\* Who handles connection c.
Queued(f) == \E i \in DOMAIN workqueue_ : workqueue_[i] = f

Owner(c) ==
    IF c \in fresh THEN "nobody"
    ELSE IF \A f \in Fds : conn[f] # c THEN "closed"
    ELSE LET f == CHOOSE g \in Fds : conn[g] = c
         IN  IF Queued(f) \/ \E w \in Workers : request[w] = f THEN "pool"
             ELSE IF \/ pc = "spin" /\ cur = f
                     \/ \E k \in {"in", "out", "hup"} : <<k, f>> \in events_
             THEN "loop"
             ELSE IF interest[f] # "off" THEN "kernel"
             ELSE "refused"

Oneshot == INSTANCE Ownership WITH
    Capacity <- requests_list_max_,
    owner    <- [c \in Conns |-> Owner(c)]

\* A connection is never handled by two threads at once, never closed under the
\* worker that handles it, and never left with no one to handle it unless the queue
\* is full, when it has to wait for its timer (README.md:77; webserver.cpp:314-429;
\* util.cpp:4-34; threadpool.h:95-98).
OneHandler == Oneshot!Safety

\* The pool gives back every connection it gets (threadpool.h:139-203;
\* http_conn.cpp:253-273).
PoolGivesBack == Oneshot!Fairness

\* The request in a slot's read buffer and the response in its write buffer are
\* the open connection's own (README.md:77).
NoCrossTalk ==
    \A f \in Fds : conn[f] # None =>
        req[f] \in {None, conn[f]} /\ resp[f] \in {None, conn[f], Spent}

\* A tick closes only connections that were idle for their whole time
\* (README.md:791; list_timer.cpp:129-145).
ClosesOnlyIdle ==
    [][\A f \in Fds :
           clock_flag /\ ~clock_flag' /\ conn[f] # None /\ conn'[f] = None
               => age[conn[f]] = IdleSlots]_vars
=============================================================================
