--------------------------- MODULE WebServerProofs ---------------------------
(***************************************************************************)
(* Proofs about module WebServer, for any number of descriptors,           *)
(* connections and workers, any capacity of the queue and both models.     *)
(***************************************************************************)
EXTENDS WebServer, FiniteSetTheorems, TLAPS

\* A worker that is not waiting has a slot to work on.
Busy == \A w \in Workers : wpc[w] # "wait" => request[w] \in Fds

\* The parts of TypeOK.
KernelOK ==
    /\ fresh \subseteq Conns
    /\ conn \in [Fds -> Conns \cup {None}]
    /\ interest \in [Fds -> {"in", "out", "off"}]
    /\ pipe \subseteq {"alarm", "term"} /\ alarm \in BOOLEAN

SlotsOK ==
    /\ sockfd_ \in [Fds -> Fds \cup {NoFd}]
    /\ completed_flag_ \in [Fds -> {0, 1}] /\ close_conn_flag_ \in [Fds -> {0, 1}]
    /\ http_state_ \in [Fds -> {0, 1}]
    /\ req \in [Fds -> Conns \cup {None}] /\ resp \in [Fds -> Conns \cup {None, Spent}]

TimersOK ==
    /\ client_counts_ \in Int
    /\ timer_list_ \subseteq Conns /\ timer \in [Fds -> Conns \cup {None}]
    /\ user_data \in [Conns -> Fds \cup {NoFd}] /\ age \in [Conns -> 0 .. IdleSlots]

LoopOK ==
    /\ pc \in {"wait", "events", "spin", "stopped"}
    /\ events_ \subseteq Event
    /\ cur \in Fds \cup {NoFd} /\ curTimer \in Conns \cup {None}
    /\ clock_flag \in BOOLEAN /\ stop_server_flag \in BOOLEAN

PoolOK ==
    /\ workqueue_ \in Seq(Fds) /\ Len(workqueue_) <= requests_list_max_
    /\ wpc \in [Workers -> WorkerPlace] /\ request \in [Workers -> Fds \cup {NoFd}]
    /\ answer \in [Workers -> Conns \cup {None}] /\ count \in [Workers -> Int]

----------------------------------------------------------------------------
(* The types of what the handlers are built from.                          *)

LEMMA DelayType ==
    ASSUME age \in [Conns -> 0 .. IdleSlots], NEW c, Delay(c)
    PROVE  age' \in [Conns -> 0 .. IdleSlots]
<1>1. 0 \in 0 .. IdleSlots
  BY WebServerAssumption
<1> QED
  BY <1>1 DEF Delay

LEMMA ArmType ==
    ASSUME interest \in [Fds -> {"in", "out", "off"}], NEW f, NEW ev \in {"in", "out"},
           Arm(f, ev)
    PROVE  interest' \in [Fds -> {"in", "out", "off"}]
  BY DEF Arm

\* A worker that works on goes to another place with the same slot.
LEMMA GotoType ==
    ASSUME wpc \in [Workers -> WorkerPlace], Busy,
           NEW w \in Workers, NEW l \in WorkerPlace, Goto(w, l),
           wpc[w] # "wait", UNCHANGED request
    PROVE  wpc' \in [Workers -> WorkerPlace] /\ Busy'
  BY DEF Goto, Busy

LEMMA EnqueueType ==
    ASSUME workqueue_ \in Seq(Fds), Len(workqueue_) <= requests_list_max_,
           http_state_ \in [Fds -> {0, 1}],
           NEW f \in Fds, NEW s \in {0, 1}, Enqueue(f, s)
    PROVE  /\ workqueue_' \in Seq(Fds) /\ Len(workqueue_') <= requests_list_max_
           /\ http_state_' \in [Fds -> {0, 1}]
<1>1. CASE Len(workqueue_) < requests_list_max_
  BY <1>1, WebServerAssumption DEF Enqueue
<1>2. CASE ~(Len(workqueue_) < requests_list_max_)
  BY <1>2, WebServerAssumption DEF Enqueue
<1> QED
  BY <1>1, <1>2

LEMMA CompletedType ==
    ASSUME completed_flag_ \in [Fds -> {0, 1}], NEW f, NEW v \in {0, 1}, Completed(f, v)
    PROVE  completed_flag_' \in [Fds -> {0, 1}]
  BY DEF Completed

LEMMA WriteType ==
    ASSUME TypeOK, NEW f \in Fds, NEW ok \in BOOLEAN, Write(f, ok)
    PROVE  interest' \in [Fds -> {"in", "out", "off"}] /\ SlotsOK'
<1>1. interest \in [Fds -> {"in", "out", "off"}] /\ SlotsOK
  BY DEF TypeOK, SlotsOK
<1>2. completed_flag_[f] \in {0, 1} /\ 0 \in {0, 1}
  BY <1>1 DEF SlotsOK
<1>3. interest' = interest \/ Arm(f, "in") \/ Arm(f, "out")
  BY DEF Write
<1>4. interest' \in [Fds -> {"in", "out", "off"}]
  BY <1>1, <1>3, ArmType
<1>5. \E v \in {0, 1} : Completed(f, v)
  BY <1>2 DEF Write
<1>6. completed_flag_' \in [Fds -> {0, 1}]
  BY <1>1, <1>5, CompletedType DEF SlotsOK
<1>7. UNCHANGED <<close_conn_flag_, http_state_, req>> \/ HttpClear(f)
  BY DEF Write
<1>8. resp' = resp \/ resp' = [resp EXCEPT ![f] = None]
  BY DEF Write, HttpClear
<1>9. resp' \in [Fds -> Conns \cup {None, Spent}]
  BY <1>1, <1>8 DEF SlotsOK
<1>10. /\ close_conn_flag_' \in [Fds -> {0, 1}] /\ http_state_' \in [Fds -> {0, 1}]
       /\ req' \in [Fds -> Conns \cup {None}]
  BY <1>1, <1>7 DEF SlotsOK, HttpClear
<1> QED
  BY <1>1, <1>4, <1>6, <1>9, <1>10 DEF SlotsOK, Write

LEMMA DelTimerType ==
    ASSUME TypeOK, NEW f, NEW c, DelTimer(f, c)
    PROVE  /\ conn' \in [Fds -> Conns \cup {None}]
           /\ interest' \in [Fds -> {"in", "out", "off"}]
           /\ client_counts_' \in Int /\ timer_list_' \subseteq Conns
<1>1. conn' \in [Fds -> Conns \cup {None}] /\ interest' \in [Fds -> {"in", "out", "off"}]
  BY DEF DelTimer, Close, TypeOK
<1>2. client_counts_' \in Int
  BY DEF DelTimer, TypeOK
<1>3. timer_list_' \subseteq Conns
  BY DEF DelTimer, TypeOK
<1> QED
  BY <1>1, <1>2, <1>3

LEMMA TypeInit == Init => TypeOK /\ Busy
<1> SUFFICES ASSUME Init PROVE TypeOK /\ Busy
  OBVIOUS
<1> USE WebServerAssumption DEF Init
<1>1. KernelOK
  BY DEF KernelOK
<1>2. SlotsOK
  BY DEF SlotsOK
<1>3. TimersOK
  BY DEF TimersOK
<1>4. LoopOK
  BY DEF LoopOK
<1>5. PoolOK /\ Busy
  BY DEF PoolOK, Busy, WorkerPlace
<1> QED
  BY <1>1, <1>2, <1>3, <1>4, <1>5 DEF TypeOK, KernelOK, SlotsOK, TimersOK, LoopOK, PoolOK

\* Types and places are kept by every step.
LEMMA TypeNext == TypeOK /\ Busy /\ [Next]_vars => TypeOK' /\ Busy'
<1> SUFFICES ASSUME TypeOK, Busy, [Next]_vars
             PROVE  TypeOK' /\ Busy'
  OBVIOUS
<1> USE WebServerAssumption
<1>1. CASE Elapse
  <2>1. KernelOK'
    BY <1>1 DEF KernelOK, Elapse, TypeOK, Busy, slots, loop, pool
  <2>2. SlotsOK'
    BY <1>1 DEF SlotsOK, Elapse, TypeOK, Busy, slots, loop, pool
  <2>3. TimersOK'
    BY <1>1 DEF TimersOK, Elapse, TypeOK, Busy, slots, loop, pool
  <2>4. LoopOK'
    BY <1>1 DEF LoopOK, Event, Elapse, TypeOK, Busy, slots, loop, pool
  <2>5. PoolOK' /\ Busy'
    BY <1>1 DEF PoolOK, Busy, WorkerPlace, Elapse, TypeOK, slots, loop, pool
  <2> QED
    BY <2>1, <2>2, <2>3, <2>4, <2>5 DEF TypeOK, KernelOK, SlotsOK, TimersOK, LoopOK, PoolOK
<1>2. CASE SigTerm
  BY <1>2 DEF SigTerm, TypeOK, Busy, Event, WorkerPlace, slots, timers, loop, pool
<1>3. CASE EpollWait
  BY <1>3 DEF EpollWait, Disarm, TypeOK, Busy, Event, WorkerPlace, slots, timers, pool
<1>4. CASE AcceptFails
  BY <1>4 DEF AcceptFails, Handle, TypeOK, Busy, Event, WorkerPlace, kernel, slots, timers, pool
<1>5. ASSUME NEW c \in Conns, Reject(c) PROVE TypeOK' /\ Busy'
  BY <1>5 DEF Reject, Handle, TypeOK, Busy, Event, WorkerPlace, slots, timers, pool
<1>6. ASSUME NEW c \in Conns, NEW f \in Fds, HandleNewConn(c, f) PROVE TypeOK' /\ Busy'
  BY <1>6 DEF HandleNewConn, Handle, HttpClear, AddTimer, Delay, TypeOK, Busy, Event,
              WorkerPlace, pool
<1>7. ASSUME NEW f \in Fds, HandleHup(f) PROVE TypeOK' /\ Busy'
  BY <1>7 DEF HandleHup, Handle, DelTimer, Close, TypeOK, Busy, Event, WorkerPlace, slots, pool
<1>8. CASE DealWithSigna
  BY <1>8 DEF DealWithSigna, Handle, TypeOK, Busy, Event, WorkerPlace, slots, timers, pool
<1>9. ASSUME NEW f \in Fds, NEW ev \in {"in", "out"}, NEW s \in {0, 1},
             ReactorHandle(f, ev, s)
      PROVE  TypeOK' /\ Busy'
  <2>1. KernelOK'
    BY <1>9 DEF KernelOK, ReactorHandle, TypeOK, kernel
  <2>2. Enqueue(f, s) /\ Delay(timer[f])
    BY <1>9 DEF ReactorHandle
  <2>3. /\ workqueue_' \in Seq(Fds) /\ Len(workqueue_') <= requests_list_max_
        /\ http_state_' \in [Fds -> {0, 1}]
    BY <2>2, EnqueueType DEF TypeOK
  <2>4. age' \in [Conns -> 0 .. IdleSlots]
    BY <2>2, DelayType DEF TypeOK
  <2>5. SlotsOK' /\ TimersOK'
    BY <1>9, <2>3, <2>4 DEF SlotsOK, TimersOK, ReactorHandle, TypeOK
  <2>6. LoopOK'
    BY <1>9 DEF LoopOK, ReactorHandle, AwaitWorker, Handle, TypeOK
  <2>7. PoolOK' /\ Busy'
    BY <1>9, <2>3 DEF PoolOK, Busy, ReactorHandle, TypeOK
  <2> QED
    BY <2>1, <2>5, <2>6, <2>7 DEF TypeOK, KernelOK, SlotsOK, TimersOK, LoopOK, PoolOK
<1>10. CASE Spin
  <2>1. \/ DelTimer(cur, curTimer)
        \/ UNCHANGED <<conn, interest, client_counts_, timer_list_>>
    BY <1>10 DEF Spin
  <2>2. KernelOK' /\ TimersOK'
    BY <1>10, <2>1, DelTimerType DEF KernelOK, TimersOK, Spin, TypeOK
  <2>3. SlotsOK'
    BY <1>10 DEF SlotsOK, Spin, Acknowledge, TypeOK
  <2>4. LoopOK'
    BY <1>10 DEF LoopOK, Spin, TypeOK
  <2>5. PoolOK' /\ Busy'
    BY <1>10 DEF PoolOK, Busy, Spin, TypeOK, pool
  <2> QED
    BY <2>2, <2>3, <2>4, <2>5 DEF TypeOK, KernelOK, SlotsOK, TimersOK, LoopOK, PoolOK
<1>11. ASSUME NEW f \in Fds, ProactorRead(f) PROVE TypeOK' /\ Busy'
  <2>1. CASE Enqueue(f, 0) /\ Delay(timer[f]) /\ Valid(f)
             /\ req' = [req EXCEPT ![f] = conn[f]]
             /\ UNCHANGED <<conn, interest, client_counts_, timer_list_>>
    <3>1. /\ workqueue_' \in Seq(Fds) /\ Len(workqueue_') <= requests_list_max_
          /\ http_state_' \in [Fds -> {0, 1}]
      BY <2>1, EnqueueType DEF TypeOK
    <3>2. age' \in [Conns -> 0 .. IdleSlots]
      BY <2>1, DelayType DEF TypeOK
    <3>3. KernelOK' /\ SlotsOK' /\ TimersOK'
      BY <1>11, <2>1, <3>1, <3>2 DEF KernelOK, SlotsOK, TimersOK, ProactorRead, TypeOK
    <3>4. LoopOK'
      BY <1>11 DEF LoopOK, ProactorRead, Handle, TypeOK
    <3>5. PoolOK' /\ Busy'
      BY <1>11, <3>1 DEF PoolOK, Busy, ProactorRead, TypeOK
    <3> QED
      BY <3>3, <3>4, <3>5 DEF TypeOK, KernelOK, SlotsOK, TimersOK, LoopOK, PoolOK
  <2>2. CASE DelTimer(f, timer[f]) /\ UNCHANGED <<http_state_, req, workqueue_, age>>
    <3>1. KernelOK' /\ SlotsOK' /\ TimersOK'
      BY <1>11, <2>2, DelTimerType DEF KernelOK, SlotsOK, TimersOK, ProactorRead, TypeOK
    <3>2. LoopOK'
      BY <1>11 DEF LoopOK, ProactorRead, Handle, TypeOK
    <3>3. PoolOK' /\ Busy'
      BY <1>11, <2>2 DEF PoolOK, Busy, ProactorRead, TypeOK
    <3> QED
      BY <3>1, <3>2, <3>3 DEF TypeOK, KernelOK, SlotsOK, TimersOK, LoopOK, PoolOK
  <2> QED
    BY <1>11, <2>1, <2>2 DEF ProactorRead
<1>12. ASSUME NEW f \in Fds, ProactorWrite(f) PROVE TypeOK' /\ Busy'
  <2>1. CASE Write(f, TRUE) /\ Delay(timer[f]) /\ UNCHANGED <<conn, client_counts_, timer_list_>>
    <3>1. interest' \in [Fds -> {"in", "out", "off"}] /\ SlotsOK'
      BY <2>1, WriteType
    <3>2. age' \in [Conns -> 0 .. IdleSlots]
      BY <2>1, DelayType DEF TypeOK
    <3>3. KernelOK' /\ TimersOK'
      BY <1>12, <2>1, <3>1, <3>2 DEF KernelOK, TimersOK, ProactorWrite, TypeOK
    <3> QED
      BY <1>12, <3>1, <3>3 DEF TypeOK, KernelOK, SlotsOK, TimersOK, Busy, ProactorWrite,
         Handle, pool
  <2>2. CASE /\ resp' \in {resp, [resp EXCEPT ![f] = None]}
             /\ DelTimer(f, timer[f])
             /\ UNCHANGED <<sockfd_, completed_flag_, close_conn_flag_, http_state_, req, age>>
    <3>1. KernelOK' /\ SlotsOK' /\ TimersOK'
      BY <1>12, <2>2, DelTimerType DEF KernelOK, SlotsOK, TimersOK, ProactorWrite, TypeOK
    <3> QED
      BY <1>12, <3>1 DEF TypeOK, KernelOK, SlotsOK, TimersOK, Busy, ProactorWrite, Handle, pool
  <2> QED
    BY <1>12, <2>1, <2>2 DEF ProactorWrite
<1>13. CASE EndRound
  <2>1. Expired \subseteq Conns /\ Cardinality(Expired) \in Int
    BY FS_Subset, FS_CardinalityType DEF Expired, TypeOK
  <2>2. /\ conn' \in [Fds -> Conns \cup {None}]
        /\ interest' \in [Fds -> {"in", "out", "off"}]
        /\ client_counts_' \in Int /\ timer_list_' \subseteq Conns
        /\ alarm' \in BOOLEAN /\ clock_flag' \in BOOLEAN
    <3>1. CASE Tick
      <4> DEFINE closed == {user_data[c] : c \in Expired}
      <4>1. /\ conn' = [f \in Fds |-> IF f \in closed THEN None ELSE conn[f]]
            /\ interest' = [f \in Fds |-> IF f \in closed THEN "off" ELSE interest[f]]
            /\ client_counts_' = client_counts_ - Cardinality(Expired)
            /\ timer_list_' = timer_list_ \ Expired
            /\ alarm' = TRUE /\ clock_flag' = FALSE
        BY <3>1 DEF Tick, SetAlarm
      <4> HIDE DEF closed
      <4>2. conn' \in [Fds -> Conns \cup {None}] /\ interest' \in [Fds -> {"in", "out", "off"}]
        BY <4>1 DEF TypeOK
      <4>3. client_counts_' \in Int
        BY <2>1, <4>1 DEF TypeOK
      <4> QED
        BY <4>1, <4>2, <4>3 DEF TypeOK
    <3>2. CASE UNCHANGED <<timer_list_, conn, interest, client_counts_, alarm, clock_flag>>
      BY <3>2 DEF TypeOK
    <3> QED
      BY <1>13, <3>1, <3>2 DEF EndRound
  <2> QED
    BY <1>13, <2>2 DEF EndRound, TypeOK, Busy, slots, pool
<1>14. ASSUME NEW w \in Workers, Take(w) PROVE TypeOK' /\ Busy'
  BY <1>14 DEF Take, Pop, Goto, TypeOK, Busy, Event, WorkerPlace, kernel, slots, timers, loop
<1>15. ASSUME NEW w \in Workers, NEW ok \in BOOLEAN, WorkerRead(w, ok) PROVE TypeOK' /\ Busy'
  BY <1>15 DEF WorkerRead, ReadOnce, Completed, Goto, Valid, TypeOK, Busy, Event, WorkerPlace,
               kernel, timers, loop
<1>16. ASSUME NEW w \in Workers, NEW ok \in BOOLEAN, WorkerWrite(w, ok) PROVE TypeOK' /\ Busy'
  <2>1. interest' \in [Fds -> {"in", "out", "off"}] /\ SlotsOK'
    BY <1>16, WriteType DEF WorkerWrite, Busy, WorkerPlace
  <2>2. wpc' \in [Workers -> WorkerPlace] /\ request' \in [Workers -> Fds \cup {NoFd}] /\ Busy'
    <3>1. Done(w) \/ (Goto(w, "mark") /\ UNCHANGED request)
      BY <1>16 DEF WorkerWrite
    <3>2. wpc[w] = "run"
      BY <1>16 DEF WorkerWrite
    <3>3. CASE Done(w)
      BY <3>2, <3>3 DEF Goto, Done, TypeOK, Busy, WorkerPlace
    <3>4. CASE Goto(w, "mark") /\ UNCHANGED request
      <4>1. "mark" \in WorkerPlace /\ wpc \in [Workers -> WorkerPlace]
        BY DEF WorkerPlace, TypeOK
      <4>2. wpc' \in [Workers -> WorkerPlace] /\ Busy'
        BY <3>2, <3>4, <4>1, GotoType
      <4> QED
        BY <3>4, <4>2 DEF TypeOK
    <3> QED
      BY <3>1, <3>3, <3>4
  <2> QED
    BY <1>16, <2>1, <2>2 DEF WorkerWrite, TypeOK, SlotsOK, timers, loop
<1>17. ASSUME NEW w \in Workers, Mark(w) PROVE TypeOK' /\ Busy'
  BY <1>17 DEF Mark, Goto, Done, TypeOK, Busy, Event, WorkerPlace, kernel, timers, loop
<1>18. ASSUME NEW w \in Workers, Process(w) PROVE TypeOK' /\ Busy'
  <2>1. ASSUME NEW a \in Answers, Parse(w, a) PROVE TypeOK' /\ Busy'
    BY <2>1 DEF Parse, Goto, TypeOK, Busy, Event, WorkerPlace, kernel, slots, timers, loop
  <2>2. CASE Reply(w)
    BY <2>2 DEF Reply, Goto, TypeOK, Busy, Event, WorkerPlace, kernel, timers, loop
  <2>3. CASE Rearm(w)
    BY <2>3 DEF Rearm, Arm, Goto, Done, TypeOK, Busy, Event, WorkerPlace, slots, timers, loop
  <2>4. CASE DropFd(w)
    <3>1. KernelOK'
      BY <2>4 DEF KernelOK, DropFd, Close, TypeOK
    <3>2. wpc' \in [Workers -> WorkerPlace] /\ Busy'
      <4>1. PICK l \in {"drop_mark", "arm_out"} : Goto(w, l)
        BY <2>4 DEF DropFd
      <4>2. wpc[w] # "wait" /\ UNCHANGED request
        BY <2>4 DEF DropFd
      <4>3. l \in WorkerPlace /\ wpc \in [Workers -> WorkerPlace]
        BY DEF WorkerPlace, TypeOK
      <4> QED
        BY <4>1, <4>2, <4>3, GotoType
    <3> QED
      BY <2>4, <3>1, <3>2 DEF KernelOK, DropFd, TypeOK, slots, timers, loop
  <2>5. CASE DropMark(w)
    BY <2>5 DEF DropMark, Goto, TypeOK, Busy, Event, WorkerPlace, kernel, timers, loop
  <2>6. CASE DropCount(w)
    BY <2>6 DEF DropCount, Goto, TypeOK, Busy, Event, WorkerPlace, kernel, slots, timers, loop
  <2>7. CASE DropStore(w)
    BY <2>7 DEF DropStore, Goto, TypeOK, Busy, Event, WorkerPlace, kernel, slots, timers, loop
  <2> QED
    BY <1>18, <2>1, <2>2, <2>3, <2>4, <2>5, <2>6, <2>7 DEF Process
<1>19. ASSUME NEW f \in Fds, Spend(f) PROVE TypeOK' /\ Busy'
  <2>1. /\ resp' = [resp EXCEPT ![f] = Spent]
        /\ UNCHANGED <<kernel, sockfd_, completed_flag_, close_conn_flag_, http_state_,
                       req, client_counts_, timers, loop, pool>>
    BY <1>19 DEF Spend
  <2>2. SlotsOK'
    BY <2>1 DEF SlotsOK, TypeOK
  <2> QED
    BY <2>1, <2>2 DEF kernel, timers, loop, pool, TypeOK, SlotsOK, Busy
<1>20. CASE UNCHANGED vars
  BY <1>20 DEF vars, kernel, slots, timers, loop, pool, TypeOK, Busy, Event, WorkerPlace
<1>21. \A f \in Fds : ProactorSpends(f) => Spend(f)
  BY DEF ProactorSpends
<1>22. \A w \in Workers : WorkerSpends(w) => \E f \in Fds : Spend(f)
  BY DEF WorkerSpends, Busy
<1>23. CASE EventLoop
  BY <1>4, <1>5, <1>6, <1>7, <1>8, <1>9, <1>10, <1>11, <1>12, <1>13, <1>19, <1>21, <1>23
     DEF EventLoop, NewConn, HandleEvent
<1>24. ASSUME NEW w \in Workers, Run(w) PROVE TypeOK' /\ Busy'
  BY <1>14, <1>15, <1>16, <1>17, <1>18, <1>19, <1>22, <1>24 DEF Run
<1> QED
  BY <1>1, <1>2, <1>3, <1>20, <1>23, <1>24 DEF Next, Environment, Exited, WriteAgain

----------------------------------------------------------------------------
(* The timers and the connections they belong to.                          *)

Kinds == {"in", "out", "hup"}

\* A connection nobody made yet has left no trace.
FreshUnused ==
    \A c \in fresh : c \notin timer_list_ /\ \A f \in Fds : conn[f] # c /\ timer[f] # c

\* A timer in the list closes the descriptor it is found at.
Bound == \A f \in Fds : timer[f] \in timer_list_ => user_data[timer[f]] = f

\* A round has one event of a descriptor.
OneEvent ==
    \A f \in Fds, k, l \in Kinds : <<k, f>> \in events_ /\ <<l, f>> \in events_ => k = l

\* The loop that spins has the timer of its descriptor, whose event is taken.
SpinHolds ==
    pc = "spin" => /\ cur \in Fds /\ curTimer = timer[cur]
                   /\ \A k \in Kinds : <<k, cur>> \notin events_

TimerInv == FreshUnused /\ Bound /\ OneEvent /\ SpinHolds /\ OpenHasTimer /\ TimerAlive

LEMMA TimerInit == Init => TimerInv
  BY WebServerAssumption
  DEF Init, TimerInv, FreshUnused, Bound, OneEvent, SpinHolds, OpenHasTimer, TimerAlive

\* Steps that leave the timers alone and at most close connections and take
\* events away.
LEMMA TimersKept ==
    ASSUME TypeOK, TimerInv,
           fresh' \subseteq fresh,
           \A f \in Fds : conn'[f] \in {conn[f], None},
           UNCHANGED <<timer_list_, timer, user_data>>,
           events_' \subseteq events_,
           pc' # "spin" \/ UNCHANGED <<pc, cur, curTimer>>
    PROVE  TimerInv'
<1> USE DEF TimerInv
<1>1. FreshUnused'
  BY WebServerAssumption DEF FreshUnused, TypeOK
<1>2. Bound'
  BY DEF Bound
<1>3. OneEvent'
  BY DEF OneEvent
<1>4. SpinHolds'
  BY DEF SpinHolds
<1>5. OpenHasTimer'
  BY DEF OpenHasTimer
<1>6. TimerAlive'
  BY DEF TimerAlive
<1> QED
  BY <1>1, <1>2, <1>3, <1>4, <1>5, <1>6

\* Steps that close a descriptor with its timer, when no event of it is left.
LEMMA TimerDeleted ==
    ASSUME TypeOK, TimerInv,
           NEW f \in Fds, timer[f] \in timer_list_, DelTimer(f, timer[f]),
           UNCHANGED <<fresh, timer, user_data>>,
           events_' \subseteq events_, \A k \in Kinds : <<k, f>> \notin events_',
           pc' # "spin"
    PROVE  TimerInv'
<1> USE DEF TimerInv
<1>1. \A g \in Fds : g # f /\ timer[g] \in timer_list_ => timer[g] # timer[f]
  BY DEF Bound
<1>2. timer_list_' = timer_list_ \ {timer[f]}
  BY DEF DelTimer
<1>3. /\ conn'[f] = None
      /\ \A g \in Fds : g # f => conn'[g] = conn[g]
  BY DEF DelTimer, Close, TypeOK
<1>4. FreshUnused'
  BY <1>2, <1>3, WebServerAssumption DEF FreshUnused, TypeOK
<1>5. Bound'
  BY <1>2 DEF Bound
<1>6. OneEvent'
  BY DEF OneEvent
<1>7. SpinHolds'
  BY DEF SpinHolds
<1>8. OpenHasTimer'
  BY <1>1, <1>2, <1>3 DEF OpenHasTimer
<1>9. TimerAlive'
  <2> SUFFICES ASSUME NEW g \in Fds, NEW k \in Kinds, <<k, g>> \in events_'
               PROVE  timer[g] \in timer_list_'
    BY DEF TimerAlive, Kinds
  <2>1. g # f
    OBVIOUS
  <2>2. timer[g] \in timer_list_
    BY DEF TimerAlive, Kinds
  <2> QED
    BY <2>1, <2>2, <1>1, <1>2
<1> QED
  BY <1>4, <1>5, <1>6, <1>7, <1>8, <1>9

\* The loop takes an event of a descriptor, which is its only one.
LEMMA EventTaken ==
    ASSUME TypeOK, TimerInv, NEW f \in Fds, NEW k \in Kinds, Handle(<<k, f>>)
    PROVE  /\ pc = "events" /\ timer[f] \in timer_list_
           /\ events_' \subseteq events_ /\ \A l \in Kinds : <<l, f>> \notin events_'
<1>1. pc = "events" /\ <<k, f>> \in events_ /\ events_' = events_ \ {<<k, f>>}
  BY DEF Handle
<1>2. timer[f] \in timer_list_
  BY <1>1 DEF TimerInv, TimerAlive, Kinds
<1>3. \A l \in Kinds : <<l, f>> \in events_ => l = k
  BY <1>1 DEF TimerInv, OneEvent
<1> QED
  BY <1>1, <1>2, <1>3

LEMMA TimerNext == TypeOK /\ Busy /\ TimerInv /\ [Next]_vars => TimerInv'
<1> SUFFICES ASSUME TypeOK, Busy, TimerInv, [Next]_vars
             PROVE  TimerInv'
  OBVIOUS
<1>1. CASE Environment
  BY <1>1, TimersKept DEF Environment, Elapse, SigTerm, loop, timers
<1>2. CASE EpollWait
  <2>1. PICK acc \in SUBSET {<<"accept", NoFd>>}, heard \in SUBSET Fds :
        \E ev \in [heard -> Kinds] :
            /\ \A f \in heard : conn[f] # None
            /\ events_' = acc \cup {<<ev[f], f>> : f \in heard}
                              \cup (IF pipe # {} THEN {<<"signal", NoFd>>} ELSE {})
    BY <1>2, SMTT(30) DEF EpollWait, Kinds
  <2>2. PICK ev \in [heard -> Kinds] :
            /\ \A f \in heard : conn[f] # None
            /\ events_' = acc \cup {<<ev[f], f>> : f \in heard}
                              \cup (IF pipe # {} THEN {<<"signal", NoFd>>} ELSE {})
    BY <2>1
  <2>3. \A f \in Fds, k \in Kinds : <<k, f>> \in events_' => f \in heard /\ k = ev[f]
    BY <2>2, WebServerAssumption
  <2>4. UNCHANGED <<fresh, conn, timer_list_, timer, user_data>> /\ pc' = "events"
    BY <1>2 DEF EpollWait, timers
  <2>5. FreshUnused' /\ Bound' /\ SpinHolds' /\ OpenHasTimer'
    BY <2>4 DEF TimerInv, FreshUnused, Bound, SpinHolds, OpenHasTimer
  <2>6. OneEvent'
    BY <2>3 DEF OneEvent
  <2>7. TimerAlive'
    BY <2>2, <2>3, <2>4 DEF TimerAlive, TimerInv, OpenHasTimer, Kinds
  <2> QED
    BY <2>5, <2>6, <2>7 DEF TimerInv
<1> USE WebServerAssumption
<1>3. CASE AcceptFails \/ DealWithSigna
  BY <1>3, TimersKept DEF AcceptFails, DealWithSigna, Handle, kernel, timers
<1>4. ASSUME NEW c \in Conns, Reject(c) PROVE TimerInv'
  BY <1>4, TimersKept DEF Reject, Handle, timers
<1>5. ASSUME NEW c \in Conns, NEW f \in Fds, HandleNewConn(c, f) PROVE TimerInv'
  <2>1. /\ c \in fresh /\ fresh' = fresh \ {c}
        /\ conn' = [conn EXCEPT ![f] = c] /\ timer' = [timer EXCEPT ![f] = c]
        /\ user_data' = [user_data EXCEPT ![c] = f] /\ timer_list_' = timer_list_ \cup {c}
        /\ events_' \subseteq events_ /\ pc = "events" /\ pc' = pc
    BY <1>5 DEF HandleNewConn, Handle, AddTimer
  <2>2. conn'[f] = c /\ timer'[f] = c /\ user_data'[c] = f
    BY <2>1 DEF TypeOK
  <2>3. \A g \in Fds : g # f => conn'[g] = conn[g] /\ timer'[g] = timer[g] /\ timer[g] # c
    BY <2>1 DEF TypeOK, TimerInv, FreshUnused
  <2>4. \A d \in Conns : d # c => user_data'[d] = user_data[d]
    BY <2>1 DEF TypeOK
  <2>5. FreshUnused'
    BY <2>1, <2>2, <2>3 DEF FreshUnused, TimerInv
  <2>6. Bound'
    BY <2>1, <2>2, <2>3, <2>4 DEF Bound, TimerInv, TypeOK
  <2>7. OneEvent' /\ SpinHolds'
    BY <2>1 DEF OneEvent, SpinHolds, TimerInv
  <2>8. OpenHasTimer'
    BY <2>1, <2>2, <2>3, <2>4 DEF OpenHasTimer, TimerInv, TypeOK
  <2>9. TimerAlive'
    BY <2>1, <2>2, <2>3 DEF TimerAlive, TimerInv
  <2> QED
    BY <2>5, <2>6, <2>7, <2>8, <2>9 DEF TimerInv
<1>6. ASSUME NEW f \in Fds, HandleHup(f) PROVE TimerInv'
  <2>1. Handle(<<"hup", f>>) /\ "hup" \in Kinds
    BY <1>6 DEF HandleHup, Kinds
  <2> QED
    BY <1>6, <2>1, EventTaken, TimerDeleted DEF HandleHup
<1>7. ASSUME NEW f \in Fds, NEW ev \in {"in", "out"}, NEW s \in {0, 1},
             ReactorHandle(f, ev, s)
      PROVE  TimerInv'
  <2>1. Handle(<<ev, f>>) /\ ev \in Kinds
    BY <1>7 DEF ReactorHandle, Kinds
  <2>2. /\ pc = "events" /\ timer[f] \in timer_list_
        /\ events_' \subseteq events_ /\ \A l \in Kinds : <<l, f>> \notin events_'
    BY <2>1, EventTaken
  <2>3. /\ UNCHANGED <<fresh, conn, timer_list_, timer, user_data>>
        /\ pc' = "spin" /\ cur' = f /\ curTimer' = timer[f]
    BY <1>7 DEF ReactorHandle, AwaitWorker, kernel
  <2>4. FreshUnused' /\ Bound' /\ OneEvent' /\ OpenHasTimer'
    BY <2>2, <2>3 DEF TimerInv, FreshUnused, Bound, OneEvent, OpenHasTimer
  <2>5. SpinHolds' /\ TimerAlive'
    BY <2>2, <2>3 DEF TimerInv, SpinHolds, TimerAlive
  <2> QED
    BY <2>4, <2>5 DEF TimerInv
<1>8. CASE Spin
  <2>1. /\ cur \in Fds /\ curTimer = timer[cur] /\ curTimer \in timer_list_
        /\ \A k \in Kinds : <<k, cur>> \notin events_
    BY <1>8 DEF Spin, TimerInv, SpinHolds, TimerAlive
  <2>2. pc' # "spin" /\ UNCHANGED <<fresh, timer, user_data, events_>>
    BY <1>8 DEF Spin
  <2>3. CASE DelTimer(cur, curTimer)
    BY <2>1, <2>2, <2>3, TimerDeleted
  <2>4. CASE UNCHANGED <<conn, interest, client_counts_, timer_list_>>
    BY <2>2, <2>4, TimersKept
  <2> QED
    BY <1>8, <2>3, <2>4 DEF Spin
<1>9. ASSUME NEW f \in Fds, ProactorRead(f) \/ ProactorWrite(f) PROVE TimerInv'
  <2>1. \E k \in Kinds : Handle(<<k, f>>)
    BY <1>9 DEF ProactorRead, ProactorWrite, Kinds
  <2>2. /\ pc = "events" /\ timer[f] \in timer_list_
        /\ events_' \subseteq events_ /\ \A l \in Kinds : <<l, f>> \notin events_'
    BY <2>1, EventTaken
  <2>3. pc' = pc /\ UNCHANGED <<fresh, timer, user_data>>
    BY <1>9 DEF ProactorRead, ProactorWrite
  <2>4. DelTimer(f, timer[f]) \/ UNCHANGED <<conn, timer_list_>>
    BY <1>9 DEF ProactorRead, ProactorWrite
  <2>5. CASE DelTimer(f, timer[f])
    BY <2>2, <2>3, <2>5, TimerDeleted
  <2>6. CASE UNCHANGED <<conn, timer_list_>>
    BY <2>2, <2>3, <2>6, TimersKept
  <2> QED
    BY <2>4, <2>5, <2>6
<1>10. CASE EndRound
  <2>1. /\ events_ = {} /\ pc' # "spin"
        /\ UNCHANGED <<fresh, timer, user_data, events_, cur, curTimer>>
    BY <1>10 DEF EndRound, RoundDone, slots
  <2>2. CASE Tick
    <3> DEFINE closed == {user_data[c] : c \in Expired}
    <3>1. /\ timer_list_' = timer_list_ \ Expired
          /\ conn' = [f \in Fds |-> IF f \in closed THEN None ELSE conn[f]]
      BY <2>2 DEF Tick
    <3>2. \A c \in Expired : user_data[c] \in closed
      OBVIOUS
    <3> HIDE DEF closed
    <3>3. \A f \in Fds : conn'[f] # None => conn'[f] = conn[f] /\ f \notin closed
      BY <3>1
    <3>4. FreshUnused'
      BY <2>1, <3>1, <3>3, WebServerAssumption DEF FreshUnused, TimerInv, TypeOK
    <3>5. Bound' /\ OneEvent' /\ SpinHolds'
      BY <2>1, <3>1 DEF TimerInv, Bound, OneEvent, SpinHolds
    <3>6. OpenHasTimer'
      BY <2>1, <3>1, <3>2, <3>3 DEF TimerInv, OpenHasTimer
    <3>7. TimerAlive'
      BY <2>1 DEF TimerAlive
    <3> QED
      BY <3>4, <3>5, <3>6, <3>7 DEF TimerInv
  <2>3. CASE UNCHANGED <<timer_list_, conn, interest, client_counts_, alarm, clock_flag>>
    BY <2>1, <2>3, TimersKept
  <2> QED
    BY <1>10, <2>2, <2>3 DEF EndRound
<1>11. ASSUME NEW w \in Workers, Run(w) PROVE TimerInv'
  <2>1. /\ UNCHANGED <<fresh, timer_list_, timer, user_data, events_, pc, cur, curTimer>>
        /\ UNCHANGED conn \/ Close(request[w])
    BY <1>11
    DEF Run, Process, Take, Pop, WorkerRead, WorkerWrite, WorkerSpends, Spend, Mark, Parse, Reply, Rearm, DropFd,
        DropMark, DropCount, DropStore, kernel, timers, loop
  <2>2. \A f \in Fds : conn'[f] \in {conn[f], None}
    BY <2>1 DEF Close, TypeOK
  <2> QED
    BY <2>1, <2>2, TimersKept
<1>12. ASSUME NEW f \in Fds, ProactorSpends(f) PROVE TimerInv'
  BY <1>12, TimersKept DEF ProactorSpends, Spend, kernel, timers, loop
<1>13. CASE UNCHANGED vars
  BY <1>13, TimersKept DEF vars, kernel, timers, loop
<1> QED
  BY <1>1, <1>2, <1>3, <1>4, <1>5, <1>6, <1>7, <1>8, <1>9, <1>10, <1>11, <1>12, <1>13
     DEF Next, EventLoop, NewConn, HandleEvent, Exited, WriteAgain

----------------------------------------------------------------------------
(* The handshake between the spinning loop and the worker.                 *)

NoCompletion == \A f \in Fds : completed_flag_[f] = 0

NoneRuns == \A w \in Workers : wpc[w] # "run"

\* The one request there is: in the queue, with a worker, or completed.
Waiting == workqueue_ = <<cur>> /\ NoneRuns /\ NoCompletion

Running ==
    /\ workqueue_ = <<>> /\ NoCompletion
    /\ \A v, w \in Workers : wpc[v] = "run" /\ wpc[w] = "run" => v = w
    /\ \A w \in Workers : wpc[w] = "run" => request[w] = cur

Completion ==
    /\ workqueue_ = <<>> /\ NoneRuns
    /\ \A f \in Fds : completed_flag_[f] = 1 => f = cur

Handshake ==
    /\ ~REACTOR => NoCompletion
    /\ REACTOR /\ pc # "spin" => workqueue_ = <<>> /\ NoneRuns /\ NoCompletion
    /\ REACTOR /\ pc = "spin" => Waiting \/ Running \/ Completion

LEMMA HandshakeInit == Init => Handshake
  BY DEF Init, Handshake, NoCompletion, NoneRuns

\* Steps the handshake does not notice.
LEMMA HandshakeKept ==
    ASSUME Handshake,
           UNCHANGED <<workqueue_, completed_flag_>>,
           \A w \in Workers : wpc'[w] = "run" <=> wpc[w] = "run",
           \A w \in Workers : wpc[w] = "run" => request'[w] = request[w],
           UNCHANGED <<pc, cur>> \/ (pc # "spin" /\ pc' # "spin")
    PROVE  Handshake'
<1>1. (NoCompletion => NoCompletion') /\ (NoneRuns => NoneRuns')
  BY DEF NoCompletion, NoneRuns
<1>2. CASE UNCHANGED <<pc, cur>>
  BY <1>1, <1>2 DEF Handshake, Waiting, Running, Completion, REACTOR
<1>3. CASE pc # "spin" /\ pc' # "spin"
  BY <1>1, <1>3 DEF Handshake, REACTOR
<1> QED
  BY <1>2, <1>3

LEMMA HandshakeNext ==
    TypeOK /\ Busy /\ TimerInv /\ Handshake /\ [Next]_vars => Handshake'
<1> SUFFICES ASSUME TypeOK, Busy, TimerInv, Handshake, [Next]_vars
             PROVE  Handshake'
  OBVIOUS
<1> USE WebServerAssumption
<1>1. CASE Environment
  BY <1>1, HandshakeKept DEF Environment, Elapse, SigTerm, slots, loop, pool
<1>2. CASE EpollWait
  BY <1>2, HandshakeKept DEF EpollWait, slots, pool
<1>3. CASE AcceptFails \/ DealWithSigna
  BY <1>3, HandshakeKept DEF AcceptFails, DealWithSigna, slots, pool
<1>4. ASSUME NEW c \in Conns, Reject(c) PROVE Handshake'
  BY <1>4, HandshakeKept DEF Reject, slots, pool
<1>5. ASSUME NEW c \in Conns, NEW f \in Fds, HandleNewConn(c, f) PROVE Handshake'
  <2>1. /\ completed_flag_' = [completed_flag_ EXCEPT ![f] = 0]
        /\ UNCHANGED <<workqueue_, wpc, pc>> /\ pc = "events"
    BY <1>5 DEF HandleNewConn, Handle, pool
  <2>2. NoCompletion => NoCompletion'
    BY <2>1 DEF NoCompletion, TypeOK
  <2> QED
    BY <2>1, <2>2 DEF Handshake, NoneRuns, REACTOR
<1>6. ASSUME NEW f \in Fds, HandleHup(f) PROVE Handshake'
  BY <1>6, HandshakeKept DEF HandleHup, slots, pool
<1>7. ASSUME NEW f \in Fds, NEW ev \in {"in", "out"}, NEW s \in {0, 1},
             ReactorHandle(f, ev, s)
      PROVE  Handshake'
  <2>1. /\ REACTOR /\ pc = "events" /\ pc' = "spin" /\ cur' = f
        /\ Enqueue(f, s) /\ UNCHANGED <<completed_flag_, wpc>>
    BY <1>7 DEF ReactorHandle, Handle, AwaitWorker
  <2>2. workqueue_ = <<>> /\ NoneRuns /\ NoCompletion
    BY <2>1 DEF Handshake
  <2>3. workqueue_' = <<f>>
    BY <2>1, <2>2 DEF Enqueue
  <2>4. Waiting'
    BY <2>1, <2>2, <2>3 DEF Waiting, NoneRuns, NoCompletion
  <2> QED
    BY <2>1, <2>4 DEF Handshake, REACTOR
<1>8. CASE Spin
  <2>1. /\ cur \in Fds /\ pc = "spin" /\ completed_flag_[cur] = 1 /\ pc' = "events"
        /\ completed_flag_' = [completed_flag_ EXCEPT ![cur] = 0]
        /\ UNCHANGED <<workqueue_, wpc>>
    BY <1>8 DEF Spin, Acknowledge, TimerInv, SpinHolds, pool
  <2>2. REACTOR /\ Completion
    BY <2>1 DEF Handshake, Waiting, Running, NoCompletion
  <2>3. NoCompletion' /\ NoneRuns'
    BY <2>1, <2>2 DEF NoCompletion, NoneRuns, Completion, TypeOK
  <2> QED
    BY <2>1, <2>2, <2>3 DEF Handshake, Completion, REACTOR
<1>9. ASSUME NEW f \in Fds, ProactorRead(f) \/ ProactorWrite(f) PROVE Handshake'
  <2>1. ~REACTOR
    BY <1>9 DEF ProactorRead, ProactorWrite
  <2>2. NoCompletion
    BY <2>1 DEF Handshake
  <2>3. UNCHANGED completed_flag_ \/ Completed(f, 0) \/ Completed(f, completed_flag_[f])
    BY <1>9 DEF ProactorRead, ProactorWrite, Write
  <2>4. NoCompletion'
    BY <2>1, <2>2, <2>3 DEF NoCompletion, Completed, TypeOK
  <2> QED
    BY <2>1, <2>4 DEF Handshake, REACTOR
<1>10. CASE EndRound
  BY <1>10, HandshakeKept DEF EndRound, RoundDone, slots, pool
<1>11. ASSUME NEW w \in Workers, Take(w) PROVE Handshake'
  <2>1. /\ workqueue_ # <<>> /\ workqueue_' = Tail(workqueue_)
        /\ request' = [request EXCEPT ![w] = Head(workqueue_)]
        /\ wpc' = [wpc EXCEPT ![w] = IF REACTOR THEN "run" ELSE "parse"]
        /\ UNCHANGED <<completed_flag_, pc, cur>>
    BY <1>11 DEF Take, Pop, Goto, slots, loop
  <2>2. CASE ~REACTOR
    BY <2>1, <2>2 DEF Handshake, NoCompletion, REACTOR
  <2>3. CASE REACTOR
    <3>1. pc = "spin" /\ Waiting
      BY <2>1, <2>3 DEF Handshake, Running, Completion
    <3>2. workqueue_' = <<>> /\ Head(workqueue_) = cur
      BY <2>1, <3>1 DEF Waiting
    <3>3. /\ \A v \in Workers : wpc'[v] = "run" => v = w
          /\ request'[w] = cur
      BY <2>1, <2>3, <3>1, <3>2 DEF Waiting, NoneRuns, TypeOK
    <3>4. Running'
      BY <2>1, <3>1, <3>2, <3>3 DEF Running, Waiting, NoCompletion
    <3> QED
      BY <2>1, <2>3, <3>1, <3>4 DEF Handshake, REACTOR
  <2> QED
    BY <2>2, <2>3
<1>12. ASSUME NEW w \in Workers, NEW ok \in BOOLEAN, WorkerRead(w, ok) \/ WorkerWrite(w, ok)
       PROVE  Handshake'
  <2>1. /\ wpc[w] = "run" /\ request[w] \in Fds
        /\ UNCHANGED <<workqueue_, pc, cur>>
        /\ Completed(request[w], 0) \/ Completed(request[w], completed_flag_[request[w]])
    BY <1>12 DEF WorkerRead, ReadOnce, WorkerWrite, Write, Busy, loop
  <2>2. /\ \A v \in Workers : v # w => wpc'[v] = wpc[v]
        /\ wpc'[w] # "run"
    BY <1>12 DEF WorkerRead, WorkerWrite, Done, Goto, TypeOK
  <2>3. CASE ~REACTOR
    <3>1. NoCompletion
      BY <2>3 DEF Handshake
    <3>2. NoCompletion'
      BY <2>1, <2>3, <3>1 DEF NoCompletion, Completed, TypeOK
    <3> QED
      BY <2>3, <3>2 DEF Handshake, REACTOR
  <2>4. CASE REACTOR
    <3>1. pc = "spin" /\ Running
      BY <2>1, <2>4 DEF Handshake, Waiting, Completion, NoneRuns
    <3>2. completed_flag_' = [completed_flag_ EXCEPT ![cur] = 1]
      BY <2>1, <2>4, <3>1 DEF Completed, Running
    <3>3. \A f \in Fds : completed_flag_'[f] = 1 => f = cur
      BY <3>1, <3>2 DEF Running, NoCompletion, TypeOK
    <3>4. NoneRuns'
      BY <2>1, <2>2, <3>1 DEF Running, NoneRuns
    <3>5. Completion'
      BY <2>1, <3>1, <3>3, <3>4 DEF Completion, Running
    <3> QED
      BY <2>1, <2>4, <3>1, <3>5 DEF Handshake, REACTOR
  <2> QED
    BY <2>3, <2>4
<1>13. ASSUME NEW w \in Workers, Mark(w) \/ Process(w) PROVE Handshake'
  <2>1. wpc[w] # "run" /\ UNCHANGED <<workqueue_, completed_flag_, pc, cur>>
    BY <1>13
    DEF Mark, Process, Parse, Reply, Rearm, DropFd, DropMark, DropCount, DropStore, slots, loop
  <2>2. \E l \in WorkerPlace \ {"run"} : Goto(w, l)
    BY <1>13
    DEF Mark, Process, Parse, Reply, Rearm, DropFd, DropMark, DropCount, DropStore, Done,
        WorkerPlace
  <2>3. UNCHANGED request \/ request' = [request EXCEPT ![w] = NoFd]
    BY <1>13
    DEF Mark, Process, Parse, Reply, Rearm, DropFd, DropMark, DropCount, DropStore, Done
  <2>4. /\ \A v \in Workers : wpc'[v] = "run" <=> wpc[v] = "run"
        /\ \A v \in Workers : wpc[v] = "run" => request'[v] = request[v]
    BY <2>1, <2>2, <2>3 DEF Goto, TypeOK
  <2> QED
    BY <2>1, <2>4, HandshakeKept
<1>14. ASSUME NEW f \in Fds, Spend(f) PROVE Handshake'
  BY <1>14, HandshakeKept DEF Spend, loop, pool
<1>15. CASE UNCHANGED vars
  BY <1>15, HandshakeKept DEF vars, slots, loop, pool
<1>16. CASE EventLoop
  BY <1>3, <1>4, <1>5, <1>6, <1>7, <1>8, <1>9, <1>10, <1>14, <1>16
     DEF EventLoop, NewConn, HandleEvent, ProactorSpends
<1>17. ASSUME NEW w \in Workers, Run(w) PROVE Handshake'
  BY <1>11, <1>12, <1>13, <1>14, <1>17 DEF Run, WorkerSpends, Busy
<1> QED
  BY <1>1, <1>2, <1>15, <1>16, <1>17 DEF Next, Exited, WriteAgain

----------------------------------------------------------------------------
(* The theorems.                                                           *)

IndInv == TypeOK /\ Busy /\ TimerInv /\ Handshake

LEMMA Invariance == Safety => []IndInv
<1>1. Init => IndInv
  BY TypeInit, TimerInit, HandshakeInit DEF IndInv
<1>2. IndInv /\ [Next]_vars => IndInv'
  BY TypeNext, TimerNext, HandshakeNext DEF IndInv
<1> QED
  BY <1>1, <1>2, PTL DEF Safety

\* The variables of the server keep their types in both models, whatever the
\* clients do (the code of webserver.cpp, http_conn.cpp and threadpool.h as a whole).
THEOREM TypeCorrect == Safety => []TypeOK
<1>1. IndInv => TypeOK
  BY DEF IndInv
<1> QED
  BY <1>1, Invariance, PTL

\* Every open connection has its own timer in the list, in both models, although
\* workers close descriptors behind the event loop's back
\* (webserver.cpp:432-464; http_conn.cpp:208-217).
THEOREM EveryConnectionTimed == Safety => []OpenHasTimer
<1>1. IndInv => OpenHasTimer
  BY DEF IndInv, TimerInv
<1> QED
  BY <1>1, Invariance, PTL

\* The event loop never uses a timer it has freed, in both models
\* (webserver.cpp:219-220, 317-372, 381-426, 457-464).
THEOREM NoTimerUsedAfterFree == Safety => []TimerAlive
<1>1. IndInv => TimerAlive
  BY DEF IndInv, TimerInv
<1> QED
  BY <1>1, Invariance, PTL

\* A completion the event loop sees is that of the request it waits for, after
\* the worker is done with reading or writing, for any number of workers
\* (webserver.cpp:334-349, 395-409; threadpool.h:160-193).
THEOREM CompletionsMatch == Safety => []CompletionMatches
<1>1. IndInv => CompletionMatches
  <2> SUFFICES ASSUME IndInv, NEW f \in Fds, completed_flag_[f] = 1
               PROVE  /\ pc = "spin" /\ cur = f
                      /\ f \notin {workqueue_[i] : i \in DOMAIN workqueue_}
                      /\ \A w \in Workers : ~(wpc[w] = "run" /\ request[w] = f)
    BY DEF CompletionMatches
  <2>1. pc = "spin" /\ Completion
    BY DEF IndInv, Handshake, Waiting, Running, NoCompletion
  <2> QED
    BY <2>1 DEF Completion, NoneRuns
<1> QED
  BY <1>1, Invariance, PTL

\* The reactor's append finds the queue empty, so none is refused, for any
\* capacity of the queue (webserver.cpp:331, 393; threadpool.h:95).
THEOREM QueueAlwaysDrained == Safety => []QueueDrained
<1>1. IndInv => QueueDrained
  BY DEF IndInv, Handshake, QueueDrained
<1> QED
  BY <1>1, Invariance, PTL
=============================================================================
