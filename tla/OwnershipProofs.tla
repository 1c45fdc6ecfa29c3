--------------------------- MODULE OwnershipProofs ---------------------------
(***************************************************************************)
(* The proactor, when nothing takes a connection away from the party that  *)
(* handles it: proofs for any number of descriptors, connections and       *)
(* workers that a connection has one handler, that its buffers hold its    *)
(* own data and that only idle connections expire.                         *)
(***************************************************************************)
EXTENDS WebServerProofs

\* No response is refused: no worker closes a connection.
NoDrops == "drop" \notin Answers

\* The proactor whose workers close nothing and whose pool keeps up with the clock.
CleanProactor == ~REACTOR /\ NoDrops /\ Prompt

\* The queue takes no more.
QueueFull == Len(workqueue_) >= requests_list_max_

----------------------------------------------------------------------------
(* The inductive invariant.                                                *)

InPool(f) == Queued(f) \/ \E w \in Workers : request[w] = f

HasEvent(f) == \E k \in Kinds : <<k, f>> \in events_

\* The loop never waits for a worker, and it sleeps with no event left.
LoopInv == pc # "spin" /\ (pc # "events" => events_ = {})

\* The places of a worker that closes nothing.
WorkerInv ==
    \A w \in Workers :
        /\ wpc[w] \in {"wait", "parse", "reply", "arm_in", "arm_out"}
        /\ wpc[w] = "wait" => request[w] = NoFd

\* The pool has a request once.
Distinct == \A i, j \in DOMAIN workqueue_ : workqueue_[i] = workqueue_[j] => i = j

PoolInv ==
    /\ Distinct
    /\ \A w \in Workers : ~Queued(request[w])
    /\ \A v, w \in Workers : request[v] = request[w] /\ request[v] # NoFd => v = w

\* An open descriptor is armed, or has an event, or is with the pool: at most one of
\* the three; a closed one is forgotten by all.
HandAt(f) ==
    /\ conn[f] = None => interest[f] = "off" /\ ~HasEvent(f) /\ ~InPool(f)
    /\ conn[f] # None => sockfd_[f] = f
    /\ interest[f] # "off" => ~HasEvent(f) /\ ~InPool(f)
    /\ HasEvent(f) => ~InPool(f)

HandInv == \A f \in Fds : HandAt(f)

\* What is with the pool was read a moment ago.
TermInv == \A f \in Fds : InPool(f) => age[conn[f]] = 0

\* A timer in the list is that of an open connection.
ListedInv == \A c \in timer_list_ : user_data[c] \in Fds /\ conn[user_data[c]] = c

\* The buffers, and what a worker is about to put into one.
DataInv ==
    /\ NoCrossTalk
    /\ \A w \in Workers : wpc[w] = "reply" => answer[w] = conn[request[w]]

CleanInv ==
    LoopInv /\ WorkerInv /\ PoolInv /\ HandInv /\ TermInv /\ ListedInv /\ DataInv

----------------------------------------------------------------------------
(* The queue as a set.                                                     *)

LEMMA QueueAppends ==
    ASSUME workqueue_ \in Seq(Fds), Distinct, NEW f \in Fds, ~Queued(f),
           workqueue_' = Append(workqueue_, f)
    PROVE  Distinct' /\ \A g : Queued(g)' <=> Queued(g) \/ g = f
<1> DEFINE q == workqueue_
           p == workqueue_'
<1>1. /\ DOMAIN p = 1 .. (Len(q) + 1) /\ DOMAIN q = 1 .. Len(q) /\ Len(q) \in Nat
      /\ p[Len(q) + 1] = f
      /\ \A i \in DOMAIN q : p[i] = q[i]
  OBVIOUS
<1>2. /\ \A i \in DOMAIN p : i = Len(q) + 1 \/ i \in DOMAIN q
      /\ \A i \in DOMAIN q : i \in DOMAIN p
      /\ Len(q) + 1 \in DOMAIN p
  BY <1>1
<1>3. \A i \in DOMAIN q : q[i] # f
  BY DEF Queued
<1>4. \A i, j \in DOMAIN q : q[i] = q[j] => i = j
  BY DEF Distinct
<1> HIDE DEF q, p
<1>5. \A i, j \in DOMAIN p : p[i] = p[j] => i = j
  BY <1>1, <1>2, <1>3, <1>4
<1>6. \A g : (\E i \in DOMAIN p : p[i] = g) <=> (\E i \in DOMAIN q : q[i] = g) \/ g = f
  BY <1>1, <1>2
<1> QED
  BY <1>5, <1>6 DEF p, q, Distinct, Queued

LEMMA QueuePops ==
    ASSUME workqueue_ \in Seq(Fds), Distinct, workqueue_ # <<>>,
           workqueue_' = Tail(workqueue_)
    PROVE  /\ Distinct' /\ Head(workqueue_) \in Fds /\ Queued(Head(workqueue_))
           /\ \A g : Queued(g)' <=> Queued(g) /\ g # Head(workqueue_)
<1> DEFINE q == workqueue_
           p == workqueue_'
           h == Head(workqueue_)
<1>1. /\ DOMAIN p = 1 .. (Len(q) - 1) /\ DOMAIN q = 1 .. Len(q) /\ Len(q) \in Nat /\ Len(q) > 0
      /\ h = q[1] /\ h \in Fds
      /\ \A i \in DOMAIN p : p[i] = q[i + 1]
  OBVIOUS
<1>2. /\ \A i \in DOMAIN p : i \in Int /\ i + 1 \in DOMAIN q /\ i + 1 # 1
      /\ 1 \in DOMAIN q
      /\ \A i \in DOMAIN q : i # 1 => i - 1 \in DOMAIN p /\ (i - 1) + 1 = i
      /\ \A i, j \in DOMAIN p : i + 1 = j + 1 => i = j
  BY <1>1
<1>3. \A i, j \in DOMAIN q : q[i] = q[j] => i = j
  BY DEF Distinct
<1> HIDE DEF q, p, h
<1>4. \A i, j \in DOMAIN p : p[i] = p[j] => i = j
  BY <1>1, <1>2, <1>3
<1>5. ASSUME NEW g
      PROVE  (\E i \in DOMAIN p : p[i] = g) <=> (\E i \in DOMAIN q : q[i] = g) /\ g # h
  <2>1. ASSUME NEW i \in DOMAIN p, p[i] = g PROVE (\E j \in DOMAIN q : q[j] = g) /\ g # h
    BY <1>1, <1>2, <1>3, <2>1
  <2>2. ASSUME NEW i \in DOMAIN q, q[i] = g, g # h PROVE \E j \in DOMAIN p : p[j] = g
    <3>1. i # 1
      BY <1>1, <2>2
    <3>2. i - 1 \in DOMAIN p /\ p[i - 1] = g
      BY <1>1, <1>2, <2>2, <3>1
    <3> QED
      BY <3>2
  <2> QED
    BY <2>1, <2>2
<1>6. \E i \in DOMAIN q : q[i] = h
  BY <1>1, <1>2
<1> QED
  BY <1>1, <1>4, <1>5, <1>6 DEF p, q, h, Distinct, Queued

----------------------------------------------------------------------------
(* What a step does to the descriptors and to who handles them.            *)

\* The descriptors of G are left alone.
Kept(G) ==
    \A g \in G : /\ conn'[g] = conn[g] /\ sockfd_'[g] = sockfd_[g]
                 /\ interest'[g] = interest[g]
                 /\ HasEvent(g)' <=> HasEvent(g)
                 /\ InPool(g)' <=> InPool(g)

Quiet == Kept(Fds) /\ fresh' = fresh

Rejected(c) == Kept(Fds) /\ c \in fresh /\ fresh' = fresh \ {c}

Accepted(c, f) ==
    /\ Kept(Fds \ {f}) /\ c \in fresh /\ fresh' = fresh \ {c}
    /\ conn[f] = None /\ conn'[f] = c /\ sockfd_'[f] = f
    /\ interest'[f] = "in" /\ ~HasEvent(f)' /\ ~InPool(f)'

Reported(S) ==
    /\ Kept(Fds \ S) /\ fresh' = fresh
    /\ \A f \in S : /\ conn'[f] = conn[f] /\ sockfd_'[f] = sockfd_[f]
                    /\ interest[f] # "off" /\ interest'[f] = "off"
                    /\ HasEvent(f)' /\ (InPool(f)' <=> InPool(f))

\* The loop took the event of f: it re-armed f, gave it to the pool, closed it or,
\* the queue being full, lost it.
Served(f) ==
    /\ Kept(Fds \ {f}) /\ fresh' = fresh
    /\ HasEvent(f) /\ ~HasEvent(f)' /\ sockfd_'[f] = sockfd_[f]
    /\ \/ conn'[f] = conn[f] /\ interest'[f] # "off" /\ ~InPool(f)'
       \/ conn'[f] = conn[f] /\ interest'[f] = "off" /\ InPool(f)'
       \/ conn'[f] = None /\ interest'[f] = "off" /\ ~InPool(f)'
       \/ QueueFull /\ conn'[f] = conn[f] /\ interest'[f] = "off" /\ ~InPool(f)'

Finished(f) ==
    /\ Kept(Fds \ {f}) /\ fresh' = fresh
    /\ InPool(f) /\ ~InPool(f)'
    /\ conn'[f] = conn[f] /\ sockfd_'[f] = sockfd_[f] /\ interest'[f] # "off"
    /\ HasEvent(f)' <=> HasEvent(f)

Expire(S) ==
    /\ Kept(Fds \ S) /\ fresh' = fresh
    /\ \A f \in S : /\ conn[f] # None /\ age[conn[f]] = IdleSlots
                    /\ ~HasEvent(f) /\ ~InPool(f)
                    /\ conn'[f] = None /\ sockfd_'[f] = sockfd_[f]
                    /\ interest'[f] = "off"
                    /\ (HasEvent(f)' <=> HasEvent(f)) /\ (InPool(f)' <=> InPool(f))

Effect ==
    \/ Quiet
    \/ \E c \in Conns : Rejected(c) \/ \E f \in Fds : Accepted(c, f)
    \/ \E f \in Fds : Served(f) \/ Finished(f)
    \/ \E S \in SUBSET Fds : Reported(S) \/ Expire(S)

\* The loop takes the event of a descriptor, and no other has lost one.
LEMMA TakesEvent ==
    ASSUME TypeOK, TimerInv, NEW f \in Fds, NEW k \in Kinds, Handle(<<k, f>>)
    PROVE  /\ pc = "events" /\ HasEvent(f) /\ ~HasEvent(f)'
           /\ \A g \in Fds \ {f} : HasEvent(g)' <=> HasEvent(g)
<1>1. <<k, f>> \in events_ /\ events_' = events_ \ {<<k, f>>} /\ pc = "events"
  BY DEF Handle
<1>2. \A l \in Kinds : <<l, f>> \notin events_'
  BY EventTaken
<1>3. \A g \in Fds \ {f}, l \in Kinds : <<l, g>> \in events_' <=> <<l, g>> \in events_
  BY <1>1
<1> QED
  BY <1>1, <1>2, <1>3 DEF HasEvent

LEMMA TakesOther ==
    ASSUME NEW k \in {"accept", "signal"}, Handle(<<k, NoFd>>)
    PROVE  pc = "events" /\ \A g \in Fds : HasEvent(g)' <=> HasEvent(g)
<1>1. events_' = events_ \ {<<k, NoFd>>} /\ pc = "events"
  BY DEF Handle
<1>2. \A g \in Fds, l \in Kinds : <<l, g>> \in events_' <=> <<l, g>> \in events_
  BY <1>1, WebServerAssumption
<1> QED
  BY <1>1, <1>2 DEF HasEvent

\* What leaves the pool or the events alone.
LEMMA PoolStays ==
    ASSUME UNCHANGED <<workqueue_, request>>
    PROVE  \A g \in Fds : InPool(g)' <=> InPool(g)
  BY DEF InPool, Queued

LEMMA EventsStay ==
    ASSUME UNCHANGED events_
    PROVE  \A g \in Fds : HasEvent(g)' <=> HasEvent(g)
  BY DEF HasEvent

\* A descriptor is closed by its timer.
LEMMA ClosesOne ==
    ASSUME TypeOK, NEW f \in Fds, NEW c, DelTimer(f, c)
    PROVE  /\ conn'[f] = None /\ interest'[f] = "off"
           /\ \A g \in Fds \ {f} : conn'[g] = conn[g] /\ interest'[g] = interest[g]
  BY DEF DelTimer, Close, TypeOK

LEMMA ReadsOne ==
    ASSUME TypeOK, CleanInv, NEW f \in Fds, HasEvent(f), Enqueue(f, 0)
    PROVE  /\ ~InPool(f) /\ ~Queued(f)
           /\ \/ workqueue_' = Append(workqueue_, f)
              \/ QueueFull /\ UNCHANGED workqueue_
<1>1. ~InPool(f) /\ ~Queued(f)
  BY DEF CleanInv, HandInv, HandAt, InPool
<1>2. Len(workqueue_) \in Nat /\ requests_list_max_ \in Nat
  BY WebServerAssumption DEF TypeOK
<1> QED
  BY <1>1, <1>2 DEF Enqueue, QueueFull

LEMMA ProactorReadEffect ==
    ASSUME CleanProactor, TypeOK, TimerInv, CleanInv, NEW f \in Fds, ProactorRead(f)
    PROVE  Served(f)
<1>1. Handle(<<"in", f>>) /\ "in" \in Kinds
  BY DEF ProactorRead, Kinds
<1>2. /\ HasEvent(f) /\ ~HasEvent(f)'
      /\ \A g \in Fds \ {f} : HasEvent(g)' <=> HasEvent(g)
  BY <1>1, TakesEvent
<1>3. UNCHANGED <<fresh, sockfd_, request>>
  BY DEF ProactorRead
<1>4. ~InPool(f)
  BY <1>2 DEF CleanInv, HandInv, HandAt
<1>5. CASE Enqueue(f, 0) /\ UNCHANGED <<conn, interest>>
  <2>1. interest[f] = "off"
    BY <1>2 DEF CleanInv, HandInv, HandAt
  <2>2. CASE workqueue_' = Append(workqueue_, f)
    <3>1. ~Queued(f)
      BY <1>4 DEF InPool
    <3>2. \A g : Queued(g)' <=> Queued(g) \/ g = f
      BY <2>2, <3>1, QueueAppends DEF TypeOK, CleanInv, PoolInv
    <3>3. InPool(f)' /\ \A g \in Fds \ {f} : InPool(g)' <=> InPool(g)
      BY <1>3, <3>2 DEF InPool
    <3> QED
      BY <1>2, <1>3, <1>5, <2>1, <3>3 DEF Served, Kept
  <2>3. CASE QueueFull /\ UNCHANGED workqueue_
    <3>1. \A g \in Fds : InPool(g)' <=> InPool(g)
      BY <1>3, <2>3, PoolStays
    <3> QED
      BY <1>2, <1>3, <1>4, <1>5, <2>1, <2>3, <3>1 DEF Served, Kept
  <2> QED
    BY <1>2, <1>5, <2>2, <2>3, ReadsOne
<1>6. CASE DelTimer(f, timer[f]) /\ UNCHANGED workqueue_
  <2>1. \A g \in Fds : InPool(g)' <=> InPool(g)
    BY <1>3, <1>6, PoolStays
  <2> QED
    BY <1>2, <1>3, <1>4, <1>6, <2>1, ClosesOne DEF Served, Kept
<1> QED
  BY <1>5, <1>6 DEF ProactorRead

LEMMA ProactorWriteEffect ==
    ASSUME CleanProactor, TypeOK, TimerInv, CleanInv, NEW f \in Fds, ProactorWrite(f)
    PROVE  Served(f)
<1>1. Handle(<<"out", f>>) /\ "out" \in Kinds
  BY DEF ProactorWrite, Kinds
<1>2. /\ HasEvent(f) /\ ~HasEvent(f)'
      /\ \A g \in Fds \ {f} : HasEvent(g)' <=> HasEvent(g)
  BY <1>1, TakesEvent
<1>3. UNCHANGED <<fresh, sockfd_, workqueue_, request>>
  BY DEF ProactorWrite, Write, pool
<1>4. ~InPool(f) /\ Valid(f)
  BY <1>2 DEF CleanInv, HandInv, HandAt, Valid
<1>5. \A g \in Fds : InPool(g)' <=> InPool(g)
  BY <1>3, PoolStays
<1>6. CASE Write(f, TRUE) /\ UNCHANGED conn
  <2>1. PICK ev \in {"in", "out"} : Arm(f, ev)
    BY <1>6 DEF Write
  <2>2. /\ interest'[f] # "off"
        /\ \A g \in Fds \ {f} : interest'[g] = interest[g]
    BY <1>4, <2>1 DEF Arm, TypeOK
  <2> QED
    BY <1>2, <1>3, <1>4, <1>5, <1>6, <2>2 DEF Served, Kept
<1>7. CASE DelTimer(f, timer[f])
  BY <1>2, <1>3, <1>4, <1>5, <1>7, ClosesOne DEF Served, Kept
<1> QED
  BY <1>6, <1>7 DEF ProactorWrite

LEMMA HandleHupEffect ==
    ASSUME TypeOK, TimerInv, CleanInv, NEW f \in Fds, HandleHup(f)
    PROVE  Served(f)
<1>1. Handle(<<"hup", f>>) /\ "hup" \in Kinds
  BY DEF HandleHup, Kinds
<1>2. /\ HasEvent(f) /\ ~HasEvent(f)'
      /\ \A g \in Fds \ {f} : HasEvent(g)' <=> HasEvent(g)
  BY <1>1, TakesEvent
<1>3. UNCHANGED <<fresh, sockfd_, workqueue_, request>> /\ DelTimer(f, timer[f])
  BY DEF HandleHup, slots, pool
<1>4. ~InPool(f)
  BY <1>2 DEF CleanInv, HandInv, HandAt
<1>5. \A g \in Fds : InPool(g)' <=> InPool(g)
  BY <1>3, PoolStays
<1> QED
  BY <1>2, <1>3, <1>4, <1>5, ClosesOne DEF Served, Kept

LEMMA EpollWaitEffect ==
    ASSUME TypeOK, CleanInv, EpollWait
    PROVE  \E S \in SUBSET Fds : Reported(S)
<1>1. PICK acc \in SUBSET {<<"accept", NoFd>>}, heard \in SUBSET Fds :
      \E ev \in [heard -> Kinds] :
          /\ \A f \in heard : conn[f] # None /\ interest[f] # "off"
          /\ events_' = acc \cup {<<ev[f], f>> : f \in heard}
                            \cup (IF pipe # {} THEN {<<"signal", NoFd>>} ELSE {})
          /\ Disarm(heard)
  BY DEF EpollWait, Kinds
<1>2. PICK ev \in [heard -> Kinds] :
          /\ \A f \in heard : conn[f] # None /\ interest[f] # "off"
          /\ events_' = acc \cup {<<ev[f], f>> : f \in heard}
                            \cup (IF pipe # {} THEN {<<"signal", NoFd>>} ELSE {})
          /\ Disarm(heard)
  BY <1>1
<1>3. \A f \in Fds, k \in Kinds : <<k, f>> \in events_' <=> f \in heard /\ k = ev[f]
  BY <1>2, WebServerAssumption
<1>4. \A f \in Fds : HasEvent(f)' <=> f \in heard
  BY <1>2, <1>3 DEF HasEvent
<1>5. events_ = {}
  BY DEF CleanInv, LoopInv, EpollWait
<1>6. \A f \in Fds : ~HasEvent(f)
  BY <1>5 DEF HasEvent
<1>7. UNCHANGED <<fresh, conn, sockfd_, workqueue_, request>>
  BY DEF EpollWait, slots, pool
<1>8. \A g \in Fds : InPool(g)' <=> InPool(g)
  BY <1>7, PoolStays
<1>9. \A f \in Fds : interest'[f] = IF f \in heard THEN "off" ELSE interest[f]
  BY <1>2 DEF Disarm
<1>10. Reported(heard)
  BY <1>2, <1>4, <1>6, <1>7, <1>8, <1>9 DEF Reported, Kept
<1> QED
  BY <1>10

LEMMA HandleNewConnEffect ==
    ASSUME TypeOK, CleanInv, NEW c \in Conns, NEW f \in Fds, HandleNewConn(c, f)
    PROVE  Accepted(c, f)
<1>1. \A g \in Fds : HasEvent(g)' <=> HasEvent(g)
  BY TakesOther DEF HandleNewConn
<1>2. \A g \in Fds : InPool(g)' <=> InPool(g)
  BY PoolStays DEF HandleNewConn, pool
<1>3. conn[f] = None /\ ~HasEvent(f) /\ ~InPool(f)
  BY DEF HandleNewConn, CleanInv, HandInv, HandAt
<1>4. /\ conn' = [conn EXCEPT ![f] = c] /\ interest' = [interest EXCEPT ![f] = "in"]
      /\ sockfd_' = [sockfd_ EXCEPT ![f] = f]
      /\ c \in fresh /\ fresh' = fresh \ {c}
  BY DEF HandleNewConn
<1>5. /\ conn'[f] = c /\ interest'[f] = "in" /\ sockfd_'[f] = f
      /\ \A g \in Fds \ {f} : /\ conn'[g] = conn[g] /\ interest'[g] = interest[g]
                              /\ sockfd_'[g] = sockfd_[g]
  BY <1>4 DEF TypeOK
<1> QED
  BY <1>1, <1>2, <1>3, <1>4, <1>5 DEF Accepted, Kept

LEMMA RejectEffect ==
    ASSUME NEW c \in Conns, Reject(c)
    PROVE  Rejected(c)
<1>1. \A g \in Fds : HasEvent(g)' <=> HasEvent(g)
  BY TakesOther DEF Reject
<1>2. \A g \in Fds : InPool(g)' <=> InPool(g)
  BY PoolStays DEF Reject, pool
<1> QED
  BY <1>1, <1>2 DEF Reject, Rejected, Kept, slots

LEMMA QuietEffect ==
    ASSUME \/ Environment \/ AcceptFails \/ DealWithSigna
           \/ \E w \in Workers : Reply(w) \/ \E a \in Answers : Parse(w, a)
           \/ \E f \in Fds : Spend(f)
           \/ UNCHANGED vars
    PROVE  Quiet
<1>1. \A g \in Fds : HasEvent(g)' <=> HasEvent(g)
  <2>1. CASE UNCHANGED events_
    BY <2>1, EventsStay
  <2>2. CASE AcceptFails \/ DealWithSigna
    BY <2>2, TakesOther DEF AcceptFails, DealWithSigna
  <2> QED
    BY <2>1, <2>2 DEF Environment, Elapse, SigTerm, Reply, Parse, Spend, vars, loop
<1>2. \A g \in Fds : InPool(g)' <=> InPool(g)
  <2>1. UNCHANGED <<workqueue_, request>>
    BY DEF Environment, Elapse, SigTerm, AcceptFails, DealWithSigna, Reply, Parse, Spend,
       vars, pool
  <2> QED
    BY <2>1, PoolStays
<1>3. UNCHANGED <<fresh, conn, interest, sockfd_>>
  BY DEF Environment, Elapse, SigTerm, AcceptFails, DealWithSigna, Reply, Parse, Spend,
         vars, kernel, slots
<1> QED
  BY <1>1, <1>2, <1>3 DEF Quiet, Kept

\* Who takes a request off the queue has it.
LEMMA TakeMoves ==
    ASSUME TypeOK, CleanInv, NEW w \in Workers, Take(w)
    PROVE  /\ Distinct' /\ Head(workqueue_) \in Fds /\ Queued(Head(workqueue_))
           /\ \A g : Queued(g)' <=> Queued(g) /\ g # Head(workqueue_)
           /\ request[w] = NoFd /\ request'[w] = Head(workqueue_)
           /\ \A v \in Workers \ {w} : request'[v] = request[v]
<1>1. /\ Distinct' /\ Head(workqueue_) \in Fds /\ Queued(Head(workqueue_))
      /\ \A g : Queued(g)' <=> Queued(g) /\ g # Head(workqueue_)
  BY QueuePops DEF TypeOK, CleanInv, PoolInv, Take, Pop
<1>2. request[w] = NoFd
  BY DEF Take, CleanInv, WorkerInv
<1> QED
  BY <1>1, <1>2 DEF Take, Pop, TypeOK

LEMMA TakeEffect ==
    ASSUME TypeOK, CleanInv, NEW w \in Workers, Take(w)
    PROVE  Quiet
<1> DEFINE h == Head(workqueue_)
<1>1. /\ h \in Fds /\ Queued(h)
      /\ \A g : Queued(g)' <=> Queued(g) /\ g # h
      /\ request[w] = NoFd /\ request'[w] = h
      /\ \A v \in Workers \ {w} : request'[v] = request[v]
  BY TakeMoves
<1> HIDE DEF h
<1>2. \A g \in Fds : (\E v \in Workers : request'[v] = g)
                        <=> g = h \/ \E v \in Workers : request[v] = g
  BY <1>1, WebServerAssumption
<1>3. \A g \in Fds : InPool(g)' <=> InPool(g)
  BY <1>1, <1>2 DEF InPool
<1>4. UNCHANGED <<kernel, slots, loop>>
  BY DEF Take
<1>5. \A g \in Fds : HasEvent(g)' <=> HasEvent(g)
  BY <1>4, EventsStay DEF loop
<1> QED
  BY <1>3, <1>4, <1>5 DEF Quiet, Kept, kernel, slots

LEMMA RearmEffect ==
    ASSUME TypeOK, Busy, CleanInv, NEW w \in Workers, Rearm(w)
    PROVE  \E f \in Fds : Finished(f)
<1>1. PICK f \in Fds : f = request[w] /\ InPool(f)
  BY DEF Rearm, Busy, InPool
<1>2. Valid(f)
  BY <1>1 DEF CleanInv, HandInv, HandAt, Valid
<1>3. PICK ev \in {"in", "out"} : Arm(f, ev)
  BY <1>1 DEF Rearm
<1>4. /\ request'[w] = NoFd /\ \A v \in Workers \ {w} : request'[v] = request[v]
      /\ UNCHANGED <<workqueue_, fresh, conn, sockfd_, events_>>
  BY DEF Rearm, Done, TypeOK, slots, loop
<1>5. ~Queued(f) /\ \A v \in Workers \ {w} : request[v] # f
  BY <1>1, WebServerAssumption DEF CleanInv, PoolInv
<1>6. \A g \in Fds : Queued(g)' <=> Queued(g)
  BY <1>4 DEF Queued
<1>7. ~InPool(f)'
  BY <1>1, <1>4, <1>5, <1>6, WebServerAssumption DEF InPool
<1>8. ASSUME NEW g \in Fds \ {f} PROVE InPool(g)' <=> InPool(g)
  <2>1. request[w] # g /\ request'[w] # g
    BY <1>1, <1>4, WebServerAssumption
  <2> QED
    BY <1>4, <1>6, <2>1 DEF InPool
<1>9. interest'[f] # "off" /\ \A g \in Fds \ {f} : interest'[g] = interest[g]
  BY <1>1, <1>2, <1>3 DEF Arm, TypeOK
<1>10. \A g \in Fds : HasEvent(g)' <=> HasEvent(g)
  BY <1>4, EventsStay
<1>11. Finished(f)
  BY <1>1, <1>4, <1>7, <1>8, <1>9, <1>10 DEF Finished, Kept
<1> QED
  BY <1>11

\* A tick closes the descriptors of expired timers, which were idle and watched.
LEMMA TickCloses ==
    ASSUME TypeOK, ListedInv, Tick
    PROVE  \E S \in SUBSET Fds :
              /\ \A f \in S : /\ conn[f] # None /\ age[conn[f]] = IdleSlots
                              /\ conn[f] \in Expired
              /\ \A c \in Expired : user_data[c] \in S
              /\ conn' = [f \in Fds |-> IF f \in S THEN None ELSE conn[f]]
              /\ interest' = [f \in Fds |-> IF f \in S THEN "off" ELSE interest[f]]
<1> DEFINE closed == {user_data[c] : c \in Expired}
<1>1. /\ conn' = [f \in Fds |-> IF f \in closed THEN None ELSE conn[f]]
      /\ interest' = [f \in Fds |-> IF f \in closed THEN "off" ELSE interest[f]]
  BY DEF Tick
<1>2. \A c \in Expired : user_data[c] \in Fds /\ conn[user_data[c]] = c
  BY DEF Expired, ListedInv
<1>3. ASSUME NEW f \in closed
      PROVE  f \in Fds /\ conn[f] # None /\ age[conn[f]] = IdleSlots /\ conn[f] \in Expired
  <2>1. PICK c \in Expired : f = user_data[c]
    BY <1>3
  <2>2. f \in Fds /\ conn[f] = c /\ c \in Conns /\ age[c] = IdleSlots
    BY <1>2, <2>1 DEF Expired, TypeOK
  <2> QED
    BY <2>1, <2>2, WebServerAssumption
<1>4. \A c \in Expired : user_data[c] \in closed
  OBVIOUS
<1> HIDE DEF closed
<1>5. closed \in SUBSET Fds
  BY <1>3
<1> QED
  BY <1>1, <1>3, <1>4, <1>5

\* An idle connection is not with the pool.
LEMMA IdleNotInPool ==
    ASSUME TermInv, NEW f \in Fds, age[conn[f]] = IdleSlots
    PROVE  ~InPool(f)
  BY WebServerAssumption DEF TermInv

LEMMA EndRoundEffect ==
    ASSUME TypeOK, CleanInv, EndRound
    PROVE  \E S \in SUBSET Fds : Expire(S)
<1>1. UNCHANGED <<fresh, sockfd_, events_, workqueue_, request>> /\ events_ = {}
  BY DEF EndRound, RoundDone, slots, pool
<1>2. \A g \in Fds : (HasEvent(g)' <=> HasEvent(g)) /\ ~HasEvent(g)
  BY <1>1, EventsStay DEF HasEvent
<1>3. \A g \in Fds : InPool(g)' <=> InPool(g)
  BY <1>1, PoolStays
<1>4. CASE Tick
  <2>1. PICK S \in SUBSET Fds :
              /\ \A f \in S : conn[f] # None /\ age[conn[f]] = IdleSlots
              /\ conn' = [f \in Fds |-> IF f \in S THEN None ELSE conn[f]]
              /\ interest' = [f \in Fds |-> IF f \in S THEN "off" ELSE interest[f]]
    BY <1>4, TickCloses DEF CleanInv
  <2>2. \A f \in S : ~InPool(f)
    BY <2>1, IdleNotInPool DEF CleanInv
  <2>3. Expire(S)
    BY <1>1, <1>2, <1>3, <2>1, <2>2 DEF Expire, Kept
  <2> QED
    BY <2>3
<1>5. CASE UNCHANGED <<conn, interest>>
  <2>1. Expire({})
    BY <1>1, <1>2, <1>3, <1>5 DEF Expire, Kept
  <2> QED
    BY <2>1
<1> QED
  BY <1>4, <1>5 DEF EndRound

\* The steps of the clean proactor.
LEMMA CleanSteps ==
    ASSUME CleanProactor, CleanInv, [Next]_vars
    PROVE  \/ Environment \/ EpollWait \/ AcceptFails \/ DealWithSigna \/ EndRound
           \/ \E c \in Conns : Reject(c) \/ \E f \in Fds : HandleNewConn(c, f)
           \/ \E f \in Fds : HandleHup(f) \/ ProactorRead(f) \/ ProactorWrite(f) \/ Spend(f)
           \/ \E w \in Workers : Take(w) \/ Reply(w) \/ Rearm(w)
                                 \/ \E a \in {"incomplete", "reply"} \cap Answers : Parse(w, a)
           \/ UNCHANGED vars
<1>1. ~Spin
  BY DEF Spin, CleanInv, LoopInv
<1>2. \A f \in Fds, ev \in {"in", "out"}, s \in {0, 1} : ~ReactorHandle(f, ev, s)
  BY DEF ReactorHandle, CleanProactor
<1>3. \A w \in Workers : wpc[w] \in {"wait", "parse", "reply", "arm_in", "arm_out"}
  BY DEF CleanInv, WorkerInv
<1>4. \A w \in Workers : /\ \A ok \in BOOLEAN : ~WorkerRead(w, ok) /\ ~WorkerWrite(w, ok)
                        /\ ~WorkerSpends(w)
  BY <1>3 DEF WorkerRead, WorkerWrite, WorkerSpends
<1>5. \A w \in Workers : ~Mark(w) /\ ~DropFd(w) /\ ~DropMark(w) /\ ~DropCount(w) /\ ~DropStore(w)
  BY <1>3 DEF Mark, DropFd, DropMark, DropCount, DropStore
<1>6. \A a \in Answers : a \in {"incomplete", "reply"}
  BY WebServerAssumption DEF CleanProactor, NoDrops
<1>7. CASE \E w \in Workers : Run(w)
  BY <1>4, <1>5, <1>6, <1>7 DEF Run, Process
<1>8. CASE EventLoop
  BY <1>1, <1>2, <1>8 DEF EventLoop, NewConn, HandleEvent, ProactorSpends
<1> QED
  BY <1>7, <1>8 DEF Next, Exited, WriteAgain

LEMMA StepEffect ==
    ASSUME CleanProactor, TypeOK, Busy, TimerInv, CleanInv, [Next]_vars
    PROVE  Effect
<1>1. CASE Environment \/ AcceptFails \/ DealWithSigna \/ (\E f \in Fds : Spend(f)) \/ UNCHANGED vars
  BY <1>1, QuietEffect DEF Effect
<1>2. CASE EpollWait
  BY <1>2, EpollWaitEffect DEF Effect
<1>3. CASE EndRound
  BY <1>3, EndRoundEffect DEF Effect
<1>4. CASE \E c \in Conns : Reject(c) \/ \E f \in Fds : HandleNewConn(c, f)
  BY <1>4, RejectEffect, HandleNewConnEffect DEF Effect
<1>5. CASE \E f \in Fds : HandleHup(f) \/ ProactorRead(f) \/ ProactorWrite(f)
  BY <1>5, HandleHupEffect, ProactorReadEffect, ProactorWriteEffect DEF Effect
<1>6. CASE \E w \in Workers : Take(w) \/ Reply(w) \/ Rearm(w)
                              \/ \E a \in {"incomplete", "reply"} \cap Answers : Parse(w, a)
  BY <1>6, QuietEffect, TakeEffect, RearmEffect DEF Effect
<1> QED
  BY <1>1, <1>2, <1>3, <1>4, <1>5, <1>6, CleanSteps

----------------------------------------------------------------------------
(* Where no worker closes a connection, in both models: the timers in the  *)
(* list are those of the open connections.                                 *)

DropFree == \A w \in Workers : wpc[w] \notin {"drop_fd", "drop_mark", "drop_count", "drop_store"}

LEMMA DropFreeNext ==
    ASSUME NoDrops, TypeOK, DropFree, [Next]_vars
    PROVE  DropFree'
<1>1. CASE UNCHANGED wpc
  BY <1>1 DEF DropFree
<1>2. ASSUME NEW w \in Workers, NEW l \in WorkerPlace, Goto(w, l),
             l \notin {"drop_fd", "drop_mark", "drop_count", "drop_store"}
      PROVE  DropFree'
  BY <1>2 DEF DropFree, Goto, TypeOK
<1>3. ASSUME NEW w \in Workers, Run(w) PROVE DropFree'
  <2>1. wpc[w] \notin {"drop_fd", "drop_mark", "drop_count", "drop_store"}
    BY DEF DropFree
  <2>2. CASE Take(w)
    BY <1>2, <2>2 DEF Take, WorkerPlace
  <2>3. CASE \E ok \in BOOLEAN : WorkerRead(w, ok) \/ WorkerWrite(w, ok)
    BY <1>2, <2>3 DEF WorkerRead, WorkerWrite, Done, WorkerPlace
  <2>4. CASE Mark(w) \/ Reply(w) \/ Rearm(w)
    BY <1>2, <2>4 DEF Mark, Reply, Rearm, Done, WorkerPlace
  <2>5. ASSUME NEW a \in Answers, Parse(w, a) PROVE DropFree'
    <3>1. a \in {"incomplete", "reply"}
      BY WebServerAssumption DEF NoDrops
    <3> QED
      BY <1>2, <2>5, <3>1 DEF Parse, WorkerPlace
  <2>6. CASE WorkerSpends(w)
    BY <1>1, <2>6 DEF WorkerSpends, Spend, pool
  <2> QED
    BY <1>3, <2>1, <2>2, <2>3, <2>4, <2>5, <2>6 DEF Run, Process, DropFd, DropMark, DropCount, DropStore
<1>4. CASE Environment \/ EpollWait \/ EventLoop \/ UNCHANGED vars
  <2>1. UNCHANGED wpc
    BY <1>4 DEF Environment, Elapse, SigTerm, EpollWait, EventLoop, AcceptFails, NewConn, Reject,
       HandleNewConn, DealWithSigna, Spin, EndRound, HandleEvent, HandleHup, ReactorHandle,
       ProactorRead, ProactorWrite, ProactorSpends, Spend, vars, pool
  <2> QED
    BY <1>1, <2>1
<1> QED
  BY <1>3, <1>4 DEF Next, Exited, WriteAgain

\* A connection that is closed takes its own timer along.
LEMMA ListedDeleted ==
    ASSUME TypeOK, TimerInv, ListedInv, NEW f \in Fds, timer[f] \in timer_list_,
           DelTimer(f, timer[f]), UNCHANGED user_data
    PROVE  ListedInv'
<1>1. conn[f] = timer[f]
  BY DEF TimerInv, Bound, ListedInv
<1>2. timer_list_' = timer_list_ \ {timer[f]}
  BY DEF DelTimer
<1>3. ASSUME NEW c \in timer_list_' PROVE user_data'[c] \in Fds /\ conn'[user_data'[c]] = c
  <2>1. c \in timer_list_ /\ c # conn[f]
    BY <1>1, <1>2, <1>3
  <2>2. user_data[c] \in Fds \ {f} /\ conn[user_data[c]] = c
    BY <2>1 DEF ListedInv
  <2> QED
    BY <2>2, ClosesOne
<1> QED
  BY <1>3 DEF ListedInv

LEMMA ListedNext ==
    ASSUME IndInv, DropFree, ListedInv, [Next]_vars
    PROVE  ListedInv'
<1> TypeOK /\ TimerInv
  BY DEF IndInv
<1>1. CASE UNCHANGED <<conn, timer_list_, user_data>>
  BY <1>1 DEF ListedInv
<1>2. ASSUME NEW c \in Conns, NEW f \in Fds, HandleNewConn(c, f) PROVE ListedInv'
  <2>1. /\ user_data' = [user_data EXCEPT ![c] = f] /\ timer_list_' = timer_list_ \cup {c}
        /\ conn' = [conn EXCEPT ![f] = c] /\ conn[f] = None
    BY <1>2 DEF HandleNewConn, AddTimer
  <2>2. user_data'[c] = f /\ conn'[f] = c
    BY <2>1 DEF TypeOK
  <2>3. ASSUME NEW d \in timer_list_, d # c
        PROVE  user_data'[d] \in Fds /\ conn'[user_data'[d]] = d
    <3>1. d \in Conns /\ user_data[d] \in Fds /\ conn[user_data[d]] = d /\ d # None
      BY <2>3, WebServerAssumption DEF ListedInv, TypeOK
    <3> QED
      BY <2>1, <2>3, <3>1 DEF TypeOK
  <2> QED
    BY <2>1, <2>2, <2>3 DEF ListedInv
<1>3. ASSUME NEW f \in Fds, HandleHup(f) \/ ProactorRead(f) \/ ProactorWrite(f)
      PROVE  ListedInv'
  <2>1. \E k \in Kinds : Handle(<<k, f>>)
    BY <1>3 DEF HandleHup, ProactorRead, ProactorWrite, Kinds
  <2>2. timer[f] \in timer_list_
    BY <2>1, EventTaken
  <2>3. UNCHANGED user_data /\ (DelTimer(f, timer[f]) \/ UNCHANGED <<conn, timer_list_>>)
    BY <1>3 DEF HandleHup, ProactorRead, ProactorWrite
  <2> QED
    BY <1>1, <2>2, <2>3, ListedDeleted
<1>4. CASE Spin
  <2>1. cur \in Fds /\ curTimer = timer[cur] /\ curTimer \in timer_list_
    BY <1>4 DEF Spin, TimerInv, SpinHolds, TimerAlive
  <2>2. UNCHANGED user_data /\ (DelTimer(cur, curTimer) \/ UNCHANGED <<conn, timer_list_>>)
    BY <1>4 DEF Spin
  <2>3. CASE DelTimer(cur, timer[cur])
    BY <2>1, <2>2, <2>3, ListedDeleted
  <2> QED
    BY <1>1, <2>1, <2>2, <2>3
<1>5. CASE EndRound
  <2>1. UNCHANGED user_data /\ (Tick \/ UNCHANGED <<conn, timer_list_>>)
    BY <1>5 DEF EndRound
  <2>2. CASE Tick
    <3>1. PICK S \in SUBSET Fds :
              /\ \A f \in S : conn[f] \in Expired
              /\ conn' = [f \in Fds |-> IF f \in S THEN None ELSE conn[f]]
      BY <2>2, TickCloses
    <3>2. timer_list_' = timer_list_ \ Expired
      BY <2>2 DEF Tick
    <3>3. ASSUME NEW c \in timer_list_' PROVE user_data'[c] \in Fds /\ conn'[user_data'[c]] = c
      <4>1. c \in timer_list_ /\ c \notin Expired
        BY <3>2, <3>3
      <4>2. user_data[c] \in Fds /\ conn[user_data[c]] = c
        BY <4>1 DEF ListedInv
      <4> QED
        BY <2>1, <3>1, <4>1, <4>2
    <3> QED
      BY <3>3 DEF ListedInv
  <2> QED
    BY <1>1, <2>1, <2>2
<1>6. ASSUME NEW w \in Workers, Run(w) PROVE ListedInv'
  <2>1. ~DropFd(w)
    BY DEF DropFree, DropFd
  <2>2. UNCHANGED <<conn, timer_list_, user_data>>
    BY <1>6, <2>1 DEF Run, Process, Take, WorkerRead, WorkerWrite, WorkerSpends, Spend, Mark, Parse, Reply, Rearm,
       DropMark, DropCount, DropStore, kernel, timers
  <2> QED
    BY <1>1, <2>2
<1>7. CASE \/ Environment \/ EpollWait \/ AcceptFails \/ DealWithSigna
           \/ (\E f \in Fds : ProactorSpends(f)) \/ UNCHANGED vars
  BY <1>1, <1>7 DEF Environment, Elapse, SigTerm, EpollWait, AcceptFails, DealWithSigna,
     ProactorSpends, Spend, vars, kernel, timers
<1>8. ASSUME NEW c \in Conns, Reject(c) PROVE ListedInv'
  BY <1>1, <1>8 DEF Reject, timers
<1>9. ASSUME NEW f \in Fds, NEW ev \in {"in", "out"}, NEW s \in {0, 1}, ReactorHandle(f, ev, s)
      PROVE  ListedInv'
  BY <1>1, <1>9 DEF ReactorHandle, kernel
<1> QED
  BY <1>2, <1>3, <1>4, <1>5, <1>6, <1>7, <1>8, <1>9
     DEF Next, EventLoop, NewConn, HandleEvent, Exited, WriteAgain

LEMMA ListedInvariance == NoDrops => (Safety => [](IndInv /\ ListedInv))
<1> SUFFICES ASSUME NoDrops PROVE Safety => [](IndInv /\ ListedInv)
  OBVIOUS
<1>1. Init => DropFree /\ ListedInv
  BY DEF Init, DropFree, ListedInv
<1>2. IndInv /\ DropFree /\ ListedInv /\ [Next]_vars => DropFree' /\ ListedInv'
  BY DropFreeNext, ListedNext DEF IndInv
<1> QED
  BY <1>1, <1>2, Invariance, PTL DEF Safety

----------------------------------------------------------------------------
(* The invariant is kept.                                                  *)

LEMMA CleanInit == Init => CleanInv
<1> SUFFICES ASSUME Init PROVE CleanInv
  OBVIOUS
<1> USE DEF Init
<1>1. \A f \in Fds : ~HasEvent(f)
  BY DEF HasEvent
<1>2. \A f \in Fds : ~InPool(f) /\ ~Queued(NoFd)
  BY WebServerAssumption DEF InPool, Queued
<1>3. LoopInv /\ WorkerInv
  BY DEF LoopInv, WorkerInv
<1>4. PoolInv
  BY DEF PoolInv, Distinct, Queued
<1>5. HandInv
  BY <1>1, <1>2 DEF HandInv, HandAt
<1>6. TermInv /\ ListedInv /\ DataInv
  BY <1>2 DEF TermInv, ListedInv, DataInv, NoCrossTalk
<1> QED
  BY <1>3, <1>4, <1>5, <1>6 DEF CleanInv

LEMMA HandNext ==
    ASSUME TypeOK, HandInv, Effect
    PROVE  HandInv'
<1>1. ASSUME NEW G \in SUBSET Fds, Kept(G), NEW f \in G PROVE HandAt(f)'
  BY <1>1 DEF Kept, HandInv, HandAt
<1>2. CASE Quiet \/ \E c \in Conns : Rejected(c)
  BY <1>1, <1>2 DEF Quiet, Rejected, HandInv
<1>3. ASSUME NEW c \in Conns, NEW f \in Fds, Accepted(c, f) PROVE HandInv'
  <2>1. \A g \in Fds \ {f} : HandAt(g)'
    BY <1>1, <1>3 DEF Accepted
  <2>2. HandAt(f)'
    BY <1>3, WebServerAssumption DEF Accepted, HandAt
  <2> QED
    BY <2>1, <2>2 DEF HandInv
<1>4. ASSUME NEW f \in Fds, Served(f) \/ Finished(f) PROVE HandInv'
  <2>1. \A g \in Fds \ {f} : HandAt(g)'
    BY <1>1, <1>4 DEF Served, Finished
  <2>2. HandAt(f)
    BY DEF HandInv
  <2>3. HandAt(f)'
    BY <1>4, <2>2 DEF Served, Finished, HandAt
  <2> QED
    BY <2>1, <2>3 DEF HandInv
<1>5. ASSUME NEW S \in SUBSET Fds, Reported(S) \/ Expire(S) PROVE HandInv'
  <2>1. \A g \in Fds \ S : HandAt(g)'
    BY <1>1, <1>5 DEF Reported, Expire
  <2>2. ASSUME NEW f \in S PROVE HandAt(f)'
    <3>1. HandAt(f)
      BY DEF HandInv
    <3> QED
      BY <1>5, <3>1 DEF Reported, Expire, HandAt
  <2> QED
    BY <2>1, <2>2 DEF HandInv
<1> QED
  BY <1>2, <1>3, <1>4, <1>5 DEF Effect

LEMMA LoopNext ==
    ASSUME CleanProactor, CleanInv, [Next]_vars
    PROVE  LoopInv'
<1>1. CASE UNCHANGED <<pc, events_>>
  BY <1>1 DEF LoopInv, CleanInv
<1>2. CASE pc' \in {"wait", "stopped"} /\ events_' = {}
  BY <1>2 DEF LoopInv
<1>3. CASE pc' = "events"
  BY <1>3 DEF LoopInv
<1>4. CASE EndRound
  BY <1>2, <1>4 DEF EndRound, RoundDone
<1>5. CASE \/ AcceptFails \/ DealWithSigna
           \/ \E c \in Conns : Reject(c) \/ \E f \in Fds : HandleNewConn(c, f)
           \/ \E f \in Fds : HandleHup(f) \/ ProactorRead(f) \/ ProactorWrite(f)
  BY <1>3, <1>5 DEF AcceptFails, DealWithSigna, Reject, HandleNewConn, HandleHup, ProactorRead,
     ProactorWrite, Handle
<1>6. CASE EpollWait
  BY <1>3, <1>6 DEF EpollWait
<1>7. CASE Environment
  BY <1>1, <1>7 DEF Environment, Elapse, SigTerm, loop
<1>8. CASE \/ UNCHANGED vars
           \/ \E f \in Fds : Spend(f)
           \/ \E w \in Workers : Take(w) \/ Reply(w) \/ Rearm(w)
                                 \/ \E a \in {"incomplete", "reply"} \cap Answers : Parse(w, a)
  BY <1>1, <1>8 DEF vars, Take, Reply, Rearm, Parse, Spend, loop
<1> QED
  BY <1>4, <1>5, <1>6, <1>7, <1>8, CleanSteps

\* What the steps outside the pool leave alone.
LEMMA LoopSteps ==
    ASSUME \/ Environment \/ EpollWait \/ AcceptFails \/ DealWithSigna \/ EndRound
           \/ \E c \in Conns : Reject(c) \/ \E f \in Fds : HandleNewConn(c, f)
           \/ \E f \in Fds : HandleHup(f) \/ ProactorWrite(f) \/ Spend(f)
           \/ UNCHANGED vars
    PROVE  UNCHANGED <<workqueue_, wpc, request, answer>>
  BY DEF Environment, Elapse, SigTerm, EpollWait, AcceptFails, DealWithSigna, EndRound,
     Reject, HandleNewConn, HandleHup, ProactorWrite, Spend, vars, pool

LEMMA WorkerNext ==
    ASSUME CleanProactor, TypeOK, CleanInv, [Next]_vars
    PROVE  WorkerInv'
<1> WorkerInv
  BY DEF CleanInv
<1>1. CASE UNCHANGED <<wpc, request>>
  BY <1>1 DEF WorkerInv
<1>2. ASSUME NEW w \in Workers, Take(w) PROVE WorkerInv'
  BY <1>2 DEF Take, Pop, Goto, CleanProactor, WorkerInv, TypeOK
<1>3. ASSUME NEW w \in Workers, Reply(w) PROVE WorkerInv'
  BY <1>3 DEF Reply, Goto, WorkerInv, TypeOK
<1>4. ASSUME NEW w \in Workers, Rearm(w) PROVE WorkerInv'
  BY <1>4 DEF Rearm, Done, Goto, WorkerInv, TypeOK
<1>5. ASSUME NEW w \in Workers, NEW a \in {"incomplete", "reply"}, Parse(w, a) PROVE WorkerInv'
  <2>1. PICK l \in {"arm_in", "reply"} : Goto(w, l)
    BY <1>5 DEF Parse
  <2>2. UNCHANGED request
    BY <1>5 DEF Parse
  <2> QED
    BY <2>1, <2>2 DEF Goto, WorkerInv, TypeOK
<1>6. ASSUME NEW f \in Fds, ProactorRead(f) PROVE UNCHANGED <<wpc, request>>
  BY <1>6 DEF ProactorRead
<1> QED
  BY <1>1, <1>2, <1>3, <1>4, <1>5, <1>6, CleanSteps, LoopSteps

LEMMA PoolNext ==
    ASSUME CleanProactor, TypeOK, TimerInv, CleanInv, [Next]_vars
    PROVE  PoolInv'
<1> PoolInv
  BY DEF CleanInv
<1>1. CASE UNCHANGED <<workqueue_, request>>
  BY <1>1 DEF PoolInv, Distinct, Queued
<1>2. ASSUME NEW w \in Workers, Take(w) PROVE PoolInv'
  <2> DEFINE h == Head(workqueue_)
  <2>1. /\ Distinct' /\ h \in Fds /\ Queued(h)
        /\ \A g : Queued(g)' <=> Queued(g) /\ g # h
        /\ request[w] = NoFd /\ request'[w] = h
        /\ \A v \in Workers \ {w} : request'[v] = request[v]
    BY <1>2, TakeMoves
  <2> HIDE DEF h
  <2>2. \A v \in Workers : request[v] # h
    BY <2>1 DEF PoolInv
  <2>3. ASSUME NEW v \in Workers PROVE ~Queued(request[v])'
    <3>1. PICK g : g = request'[v]
      OBVIOUS
    <3>2. ~Queued(g)'
      BY <2>1, <3>1 DEF PoolInv
    <3> QED
      BY <3>1, <3>2 DEF Queued
  <2>4. \A u, v \in Workers : request'[u] = request'[v] /\ request'[u] # NoFd => u = v
    BY <2>1, <2>2 DEF PoolInv
  <2> QED
    BY <2>1, <2>3, <2>4 DEF PoolInv
<1>3. ASSUME NEW w \in Workers, Rearm(w) PROVE PoolInv'
  <2>1. /\ request' = [request EXCEPT ![w] = NoFd] /\ UNCHANGED workqueue_
        /\ workqueue_ \in Seq(Fds)
    BY <1>3 DEF Rearm, Done, TypeOK
  <2>2. ~Queued(NoFd)
    BY <2>1, WebServerAssumption DEF Queued
  <2>3. \A v \in Workers : request'[v] \in {request[v], NoFd}
    BY <2>1 DEF TypeOK
  <2>4. \A v \in Workers : request'[v] # NoFd => request'[v] = request[v]
    BY <2>3
  <2>5. ASSUME NEW v \in Workers PROVE ~Queued(request[v])'
    BY <2>1, <2>2, <2>3 DEF PoolInv, Queued
  <2> QED
    BY <2>1, <2>4, <2>5 DEF PoolInv, Distinct
<1>4. ASSUME NEW f \in Fds, ProactorRead(f) PROVE PoolInv'
  <2>1. UNCHANGED request /\ HasEvent(f) /\ (UNCHANGED workqueue_ \/ Enqueue(f, 0))
    BY <1>4, ProactorReadEffect DEF ProactorRead, Served
  <2>2. CASE workqueue_' = Append(workqueue_, f)
    <3>1. ~InPool(f) /\ ~Queued(f)
      BY <2>1 DEF CleanInv, HandInv, HandAt, InPool
    <3>2. Distinct' /\ \A g : Queued(g)' <=> Queued(g) \/ g = f
      BY <2>2, <3>1, QueueAppends DEF TypeOK, PoolInv
    <3>3. \A v \in Workers : request[v] # f
      BY <3>1 DEF InPool
    <3>4. ASSUME NEW v \in Workers PROVE ~Queued(request[v])'
      <4>1. PICK g : g = request'[v]
        OBVIOUS
      <4>2. ~Queued(g)'
        BY <2>1, <3>2, <3>3, <4>1 DEF PoolInv
      <4> QED
        BY <4>1, <4>2 DEF Queued
    <3> QED
      BY <2>1, <3>2, <3>4 DEF PoolInv
  <2> QED
    BY <1>1, <2>1, <2>2 DEF Enqueue
<1>5. ASSUME NEW w \in Workers, Reply(w) \/ \E a \in Answers : Parse(w, a)
      PROVE  UNCHANGED <<workqueue_, request>>
  BY <1>5 DEF Reply, Parse
<1> QED
  BY <1>1, <1>2, <1>3, <1>4, <1>5, CleanSteps, LoopSteps

\* No step closes a descriptor that is with the pool.
LEMMA PoolKeepsConn ==
    ASSUME CleanInv, Effect, NEW f \in Fds, InPool(f)
    PROVE  conn'[f] = conn[f]
<1>1. conn[f] # None /\ ~HasEvent(f) /\ age[conn[f]] = 0
  BY DEF CleanInv, HandInv, HandAt, TermInv
<1>2. ASSUME NEW G \in SUBSET Fds, Kept(G), f \in G PROVE conn'[f] = conn[f]
  BY <1>2 DEF Kept
<1>3. ASSUME NEW S \in SUBSET Fds, Expire(S) PROVE f \notin S
  BY <1>1, <1>3, WebServerAssumption DEF Expire
<1>4. CASE Quiet \/ \E c \in Conns : Rejected(c)
  BY <1>2, <1>4 DEF Quiet, Rejected
<1>5. CASE \E c \in Conns, g \in Fds : Accepted(c, g)
  BY <1>1, <1>2, <1>5 DEF Accepted
<1>6. CASE \E g \in Fds : Served(g) \/ Finished(g)
  BY <1>1, <1>2, <1>6 DEF Served, Finished
<1>7. CASE \E S \in SUBSET Fds : Reported(S) \/ Expire(S)
  BY <1>2, <1>3, <1>7 DEF Reported, Expire
<1> QED
  BY <1>4, <1>5, <1>6, <1>7 DEF Effect

\* Steps that close connections at most, give a new term at most and put nothing
\* into the pool.
LEMMA TermKept ==
    ASSUME TypeOK, CleanInv,
           \A f \in Fds : InPool(f)' => InPool(f) /\ conn'[f] = conn[f],
           \A d \in Conns : age'[d] \in {age[d], 0}
    PROVE  TermInv'
<1>1. ASSUME NEW f \in Fds, InPool(f) PROVE conn[f] \in Conns
  BY <1>1 DEF CleanInv, HandInv, HandAt, TypeOK
<1> QED
  BY <1>1 DEF CleanInv, TermInv

LEMMA TermNext ==
    ASSUME CleanProactor, TypeOK, Busy, TimerInv, CleanInv, [Next]_vars
    PROVE  TermInv'
<1>1. \A f \in Fds : InPool(f) => conn'[f] = conn[f]
  BY StepEffect, PoolKeepsConn
<1>2. CASE UNCHANGED age /\ \A f \in Fds : InPool(f)' => InPool(f)
  BY <1>1, <1>2, TermKept
<1>3. CASE UNCHANGED <<age, workqueue_, request>>
  BY <1>2, <1>3, PoolStays
<1>4. CASE Elapse
  <2>1. PoolIdle
    BY <1>4 DEF Elapse, CleanProactor
  <2>2. \A w \in Workers : request[w] = NoFd
    BY <2>1 DEF PoolIdle, CleanInv, WorkerInv
  <2>3. \A f \in Fds : ~InPool(f)
    BY <2>1, <2>2, WebServerAssumption DEF PoolIdle, InPool, Queued
  <2>4. \A f \in Fds : ~InPool(f)'
    BY <1>4, <2>3, PoolStays DEF Elapse, pool
  <2> QED
    BY <2>4 DEF TermInv
<1>5. CASE \/ SigTerm \/ EpollWait \/ AcceptFails \/ DealWithSigna \/ EndRound
           \/ (\E f \in Fds : Spend(f)) \/ UNCHANGED vars
  BY <1>3, <1>5 DEF SigTerm, EpollWait, AcceptFails, DealWithSigna, EndRound, Spend, vars,
     timers, pool
<1>6. ASSUME NEW c \in Conns, Reject(c) PROVE TermInv'
  BY <1>3, <1>6 DEF Reject, timers, pool
<1>7. ASSUME NEW w \in Workers,
             Take(w) \/ Reply(w) \/ Rearm(w) \/ \E a \in Answers : Parse(w, a)
      PROVE  TermInv'
  <2>1. UNCHANGED age
    BY <1>7 DEF Take, Reply, Rearm, Parse, timers
  <2>2. CASE Quiet
    BY <1>2, <2>1, <2>2 DEF Quiet, Kept
  <2>3. CASE \E f \in Fds : Finished(f)
    BY <1>2, <2>1, <2>3 DEF Finished, Kept
  <2> QED
    BY <1>7, <2>2, <2>3, TakeEffect, RearmEffect, QuietEffect
<1>8. ASSUME NEW c \in Conns, NEW f \in Fds, HandleNewConn(c, f) PROVE TermInv'
  <2>1. age' = [age EXCEPT ![c] = 0] /\ UNCHANGED <<workqueue_, request>>
    BY <1>8 DEF HandleNewConn, AddTimer, Delay, pool
  <2>2. \A d \in Conns : age'[d] \in {age[d], 0}
    BY <2>1 DEF TypeOK
  <2> QED
    BY <1>1, <2>1, <2>2, PoolStays, TermKept
<1>9. ASSUME NEW f \in Fds, HandleHup(f) PROVE TermInv'
  BY <1>3, <1>9 DEF HandleHup, pool
<1>10. ASSUME NEW f \in Fds, ProactorRead(f) PROVE TermInv'
  <2>1. Served(f)
    BY <1>10, ProactorReadEffect
  <2>2. CASE UNCHANGED <<workqueue_, age>>
    BY <1>3, <1>10, <2>2 DEF ProactorRead
  <2>3. CASE Delay(timer[f]) /\ UNCHANGED conn
    <3>1. conn[f] # None /\ conn[f] \in Conns
      BY <2>1 DEF Served, CleanInv, HandInv, HandAt, TypeOK
    <3>2. timer[f] = conn[f]
      BY <3>1 DEF TimerInv, OpenHasTimer
    <3>3. age'[conn[f]] = 0 /\ \A d \in Conns : age'[d] \in {age[d], 0}
      BY <2>3, <3>1, <3>2 DEF Delay, TypeOK
    <3>4. ASSUME NEW g \in Fds, g # f, InPool(g)' PROVE age'[conn[g]] = 0
      <4>1. InPool(g)
        BY <2>1, <3>4 DEF Served, Kept
      <4>2. age[conn[g]] = 0 /\ conn[g] \in Conns
        BY <4>1 DEF TermInv, CleanInv, HandInv, HandAt, TypeOK
      <4> QED
        BY <3>3, <4>2
    <3> QED
      BY <2>3, <3>3, <3>4 DEF TermInv
  <2> QED
    BY <1>10, <2>2, <2>3 DEF ProactorRead
<1>11. ASSUME NEW f \in Fds, ProactorWrite(f) PROVE TermInv'
  <2>1. UNCHANGED <<workqueue_, request>> /\ (UNCHANGED age \/ Delay(timer[f]))
    BY <1>11 DEF ProactorWrite, pool
  <2>2. \A d \in Conns : age'[d] \in {age[d], 0}
    BY <2>1 DEF Delay, TypeOK
  <2> QED
    BY <1>1, <2>1, <2>2, PoolStays, TermKept
<1> QED
  BY <1>4, <1>5, <1>6, <1>7, <1>8, <1>9, <1>10, <1>11, CleanSteps DEF Environment

AnswerInv == \A w \in Workers : wpc[w] = "reply" => answer[w] = conn[request[w]]

\* A worker that keeps its place keeps its answer, and the connection is still there.
LEMMA AnswerKept ==
    ASSUME Busy, CleanInv, Effect, NEW w \in Workers,
           UNCHANGED <<wpc[w], request[w], answer[w]>>
    PROVE  wpc'[w] = "reply" => answer'[w] = conn'[request'[w]]
<1> SUFFICES ASSUME wpc[w] = "reply" PROVE answer[w] = conn'[request[w]]
  OBVIOUS
<1>1. PICK f \in Fds : request[w] = f
  BY DEF Busy
<1>2. conn'[f] = conn[f]
  BY <1>1, PoolKeepsConn DEF InPool
<1> QED
  BY <1>1, <1>2 DEF CleanInv, DataInv

LEMMA AnswerNext ==
    ASSUME CleanProactor, TypeOK, Busy, TimerInv, CleanInv, [Next]_vars
    PROVE  AnswerInv'
<1>1. Effect
  BY StepEffect
<1>2. CASE UNCHANGED <<wpc, request, answer>>
  BY <1>1, <1>2, AnswerKept DEF AnswerInv
<1>3. ASSUME NEW w \in Workers, NEW l, Goto(w, l), l # "reply",
             \A v \in Workers \ {w} : UNCHANGED <<request[v], answer[v]>>
      PROVE  AnswerInv'
  <2>1. /\ wpc'[w] # "reply"
        /\ \A v \in Workers \ {w} : wpc'[v] = wpc[v]
    BY <1>3 DEF Goto, TypeOK
  <2> QED
    BY <1>1, <1>3, <2>1, AnswerKept DEF AnswerInv
<1>4. ASSUME NEW w \in Workers, Take(w) PROVE AnswerInv'
  <2>1. Goto(w, "parse") /\ \A v \in Workers \ {w} : UNCHANGED <<request[v], answer[v]>>
    BY <1>4 DEF Take, Pop, TypeOK, CleanProactor
  <2> QED
    BY <1>3, <2>1
<1>5. ASSUME NEW w \in Workers, Reply(w) PROVE AnswerInv'
  <2>1. Goto(w, "arm_out") /\ \A v \in Workers \ {w} : UNCHANGED <<request[v], answer[v]>>
    BY <1>5 DEF Reply, TypeOK
  <2> QED
    BY <1>3, <2>1
<1>6. ASSUME NEW w \in Workers, Rearm(w) PROVE AnswerInv'
  <2>1. Goto(w, "wait") /\ \A v \in Workers \ {w} : UNCHANGED <<request[v], answer[v]>>
    BY <1>6 DEF Rearm, Done, TypeOK
  <2> QED
    BY <1>3, <2>1
<1>7. ASSUME NEW w \in Workers, Parse(w, "incomplete") PROVE AnswerInv'
  <2>1. Goto(w, "arm_in") /\ \A v \in Workers \ {w} : UNCHANGED <<request[v], answer[v]>>
    BY <1>7 DEF Parse, TypeOK
  <2> QED
    BY <1>3, <2>1
<1>8. ASSUME NEW w \in Workers, Parse(w, "reply") PROVE AnswerInv'
  <2>1. /\ wpc[w] = "parse" /\ req[request[w]] # None
        /\ wpc' = [wpc EXCEPT ![w] = "reply"]
        /\ answer' = [answer EXCEPT ![w] = req[request[w]]]
        /\ UNCHANGED <<request, conn>>
    BY <1>8 DEF Parse, Goto, kernel
  <2>2. request[w] \in Fds
    BY <2>1 DEF Busy
  <2>3. conn[request[w]] # None
    BY <2>2 DEF CleanInv, HandInv, HandAt, InPool
  <2>4. req[request[w]] = conn[request[w]]
    BY <2>1, <2>2, <2>3 DEF CleanInv, DataInv, NoCrossTalk
  <2>5. answer'[w] = conn'[request'[w]]
    BY <2>1, <2>4 DEF TypeOK
  <2>6. \A v \in Workers \ {w} : UNCHANGED <<wpc[v], request[v], answer[v]>>
    BY <2>1 DEF TypeOK
  <2> QED
    BY <1>1, <2>5, <2>6, AnswerKept DEF AnswerInv
<1>9. ASSUME NEW f \in Fds, ProactorRead(f) PROVE UNCHANGED <<wpc, request, answer>>
  BY <1>9 DEF ProactorRead
<1> QED
  BY <1>2, <1>4, <1>5, <1>6, <1>7, <1>8, <1>9, CleanSteps, LoopSteps

\* Steps after which the buffers of a descriptor hold what they held, or nothing,
\* or its own connection, and that at most close connections.
LEMMA BuffersKept ==
    ASSUME NoCrossTalk,
           \A f \in Fds : conn'[f] \in {conn[f], None},
           \A f \in Fds : /\ req'[f] \in {req[f], None, conn[f]}
                          /\ resp'[f] \in {resp[f], None, conn[f], Spent}
    PROVE  NoCrossTalk'
  BY DEF NoCrossTalk

LEMMA CrossTalkNext ==
    ASSUME CleanProactor, TypeOK, Busy, TimerInv, CleanInv, [Next]_vars
    PROVE  NoCrossTalk'
<1> NoCrossTalk
  BY DEF CleanInv, DataInv
<1>1. CASE UNCHANGED <<conn, req, resp>>
  BY <1>1 DEF NoCrossTalk
<1>2. ASSUME NEW c \in Conns, NEW f \in Fds, HandleNewConn(c, f) PROVE NoCrossTalk'
  <2>1. /\ conn' = [conn EXCEPT ![f] = c]
        /\ req' = [req EXCEPT ![f] = None] /\ resp' = [resp EXCEPT ![f] = None]
    BY <1>2 DEF HandleNewConn, HttpClear
  <2> QED
    BY <2>1 DEF NoCrossTalk, TypeOK
<1>3. ASSUME NEW f \in Fds, HandleHup(f) PROVE NoCrossTalk'
  <2>1. DelTimer(f, timer[f]) /\ UNCHANGED <<req, resp>>
    BY <1>3 DEF HandleHup, slots
  <2>2. \A g \in Fds : conn'[g] \in {conn[g], None}
    BY <2>1, ClosesOne
  <2> QED
    BY <2>1, <2>2, BuffersKept
<1>4. ASSUME NEW f \in Fds, ProactorRead(f) PROVE NoCrossTalk'
  <2>1. UNCHANGED resp /\ (UNCHANGED conn \/ DelTimer(f, timer[f]))
        /\ (UNCHANGED req \/ req' = [req EXCEPT ![f] = conn[f]])
    BY <1>4 DEF ProactorRead
  <2>2. \A g \in Fds : conn'[g] \in {conn[g], None}
    BY <2>1, ClosesOne
  <2>3. \A g \in Fds : req'[g] \in {req[g], conn[g]}
    BY <2>1 DEF TypeOK
  <2> QED
    BY <2>1, <2>2, <2>3, BuffersKept
<1>5. ASSUME NEW f \in Fds, ProactorWrite(f) PROVE NoCrossTalk'
  <2>1. /\ UNCHANGED conn \/ DelTimer(f, timer[f])
        /\ req' \in {req, [req EXCEPT ![f] = None]}
        /\ resp' \in {resp, [resp EXCEPT ![f] = None]}
    BY <1>5 DEF ProactorWrite, Write, HttpClear
  <2>2. \A g \in Fds : conn'[g] \in {conn[g], None}
    BY <2>1, ClosesOne
  <2>3. \A g \in Fds : req'[g] \in {req[g], None} /\ resp'[g] \in {resp[g], None}
    BY <2>1 DEF TypeOK
  <2> QED
    BY <2>2, <2>3, BuffersKept
<1>6. ASSUME NEW w \in Workers, Reply(w) PROVE NoCrossTalk'
  <2>1. /\ wpc[w] = "reply" /\ resp' = [resp EXCEPT ![request[w]] = answer[w]]
        /\ UNCHANGED <<conn, req>>
    BY <1>6 DEF Reply, kernel
  <2>2. request[w] \in Fds /\ answer[w] = conn[request[w]]
    BY <2>1 DEF Busy, CleanInv, DataInv
  <2>3. \A f \in Fds : resp'[f] \in {resp[f], conn[f]}
    BY <2>1, <2>2 DEF TypeOK
  <2> QED
    BY <2>1, <2>3, BuffersKept
<1>7. CASE EndRound
  <2>1. UNCHANGED <<req, resp>>
    BY <1>7 DEF EndRound, slots
  <2>2. UNCHANGED conn \/ Tick
    BY <1>7 DEF EndRound
  <2>3. \A f \in Fds : conn'[f] \in {conn[f], None}
    BY <2>2 DEF Tick
  <2> QED
    BY <2>1, <2>3, BuffersKept
<1>8. CASE \/ Environment \/ EpollWait \/ AcceptFails \/ DealWithSigna
           \/ \E c \in Conns : Reject(c)
           \/ \E w \in Workers : Take(w) \/ Rearm(w) \/ \E a \in Answers : Parse(w, a)
           \/ UNCHANGED vars
  BY <1>1, <1>8 DEF Environment, Elapse, SigTerm, EpollWait, AcceptFails, DealWithSigna,
     Reject, Take, Rearm, Parse, vars, kernel, slots
<1>9. ASSUME NEW f \in Fds, Spend(f) PROVE NoCrossTalk'
  <2>1. UNCHANGED <<conn, req>> /\ resp' = [resp EXCEPT ![f] = Spent]
    BY <1>9 DEF Spend, kernel
  <2>2. \A g \in Fds : resp'[g] \in {resp[g], Spent}
    BY <2>1 DEF TypeOK
  <2> QED
    BY <2>1, <2>2, BuffersKept
<1> QED
  BY <1>2, <1>3, <1>4, <1>5, <1>6, <1>7, <1>8, <1>9, CleanSteps

LEMMA CleanNext ==
    CleanProactor /\ IndInv /\ CleanInv /\ [Next]_vars => CleanInv'
<1> SUFFICES ASSUME CleanProactor, IndInv, CleanInv, [Next]_vars
             PROVE  CleanInv'
  OBVIOUS
<1>1. TypeOK /\ Busy /\ TimerInv
  BY DEF IndInv
<1>2. HandInv'
  BY <1>1, StepEffect, HandNext DEF CleanInv
<1>3. DataInv'
  BY <1>1, AnswerNext, CrossTalkNext DEF DataInv, AnswerInv
<1>4. LoopInv' /\ WorkerInv' /\ PoolInv' /\ TermInv'
  BY <1>1, LoopNext, WorkerNext, PoolNext, TermNext
<1>5. ListedInv'
  BY ListedNext DEF CleanProactor, CleanInv, WorkerInv, DropFree
<1> QED
  BY <1>2, <1>3, <1>4, <1>5 DEF CleanInv

LEMMA CleanInvariance == CleanProactor => (Safety => [](IndInv /\ CleanInv))
<1> SUFFICES ASSUME CleanProactor PROVE Safety => [](IndInv /\ CleanInv)
  OBVIOUS
<1>1. IndInv /\ CleanInv /\ [Next]_vars => CleanInv'
  BY CleanNext
<1> QED
  BY <1>1, CleanInit, Invariance, PTL DEF Safety

----------------------------------------------------------------------------
(* The refinement: who handles a connection changes as Ownership says.     *)

\* Who handles an open descriptor.
Hand(f) ==
    IF InPool(f) THEN "pool"
    ELSE IF HasEvent(f) THEN "loop"
    ELSE IF interest[f] # "off" THEN "kernel"
    ELSE "refused"

\* Owner, case by case.
OwnerOf(c) ==
    /\ c \in fresh => Owner(c) = "nobody" /\ \A f \in Fds : conn[f] # c
    /\ c \notin fresh /\ (\A f \in Fds : conn[f] # c) => Owner(c) = "closed"
    /\ \A f \in Fds : conn[f] = c => Owner(c) = Hand(f) /\ \A g \in Fds \ {f} : conn[g] # c

LEMMA OwnerCases == IndInv /\ CleanInv => \A c \in Conns : OwnerOf(c)
<1> SUFFICES ASSUME IndInv, CleanInv, NEW c \in Conns PROVE OwnerOf(c)
  OBVIOUS
<1>1. ASSUME c \in fresh PROVE Owner(c) = "nobody" /\ \A f \in Fds : conn[f] # c
  BY <1>1 DEF Owner, IndInv, TimerInv, FreshUnused
<1>2. ASSUME c \notin fresh, \A f \in Fds : conn[f] # c PROVE Owner(c) = "closed"
  BY <1>2 DEF Owner
<1>3. ASSUME NEW f \in Fds, conn[f] = c
      PROVE  Owner(c) = Hand(f) /\ \A g \in Fds \ {f} : conn[g] # c
  <2>1. c \notin fresh /\ c # None
    BY <1>3, WebServerAssumption DEF IndInv, TimerInv, FreshUnused
  <2>2. ASSUME NEW g \in Fds, conn[g] = c PROVE g = f
    BY <1>3, <2>1, <2>2 DEF IndInv, TimerInv, OpenHasTimer
  <2>3. (CHOOSE g \in Fds : conn[g] = c) = f
    BY <1>3, <2>2
  <2>4. pc # "spin"
    BY DEF CleanInv, LoopInv
  <2>5. Owner(c) = IF InPool(f) THEN "pool"
                   ELSE IF HasEvent(f) THEN "loop"
                   ELSE IF interest[f] # "off" THEN "kernel"
                   ELSE "refused"
    BY <1>3, <2>1, <2>3, <2>4 DEF Owner, InPool, HasEvent, Kinds
  <2> QED
    BY <2>2, <2>5 DEF Hand
<1> QED
  BY <1>1, <1>2, <1>3 DEF OwnerOf

\* A connection none of whose descriptors the step touches stays with its party.
LEMMA OwnerStays ==
    ASSUME NEW c \in Conns, OwnerOf(c), OwnerOf(c)', c \in fresh' <=> c \in fresh,
           NEW G \in SUBSET Fds, Kept(G),
           \A f \in Fds \ G : conn[f] # c /\ conn'[f] # c
    PROVE  Owner(c)' = Owner(c)
<1>1. ASSUME NEW f \in G PROVE conn'[f] = conn[f] /\ Hand(f)' = Hand(f)
  BY <1>1 DEF Kept, Hand
<1>2. CASE c \in fresh
  BY <1>2 DEF OwnerOf
<1>3. CASE c \notin fresh /\ \A f \in Fds : conn[f] # c
  <2>1. \A f \in Fds : conn'[f] # c
    BY <1>1, <1>3
  <2> QED
    BY <1>3, <2>1 DEF OwnerOf
<1>4. ASSUME NEW f \in Fds, conn[f] = c PROVE Owner(c)' = Owner(c)
  <2>1. f \in G
    BY <1>4
  <2>2. conn'[f] = c /\ Hand(f)' = Hand(f)
    BY <1>1, <1>4, <2>1
  <2> QED
    BY <1>4, <2>2 DEF OwnerOf
<1> QED
  BY <1>2, <1>3, <1>4

\* One connection changes hands.
LEMMA OneMoves ==
    ASSUME NEW c \in Conns, \A d \in Conns \ {c} : Owner(d)' = Owner(d),
           NEW from, NEW to, Owner(c) = from, Owner(c)' = to
    PROVE  Oneshot!Move(c, from, to)
  BY DEF Oneshot!Move

\* A full queue is a pool that has as many connections as it takes.
LEMMA FullPool ==
    ASSUME IndInv, CleanInv, QueueFull, \A c \in Conns : OwnerOf(c)
    PROVE  Cardinality({d \in Conns : [c \in Conns |-> Owner(c)][d] = "pool"})
              >= requests_list_max_
<1> DEFINE n == Len(workqueue_)
           P == {d \in Conns : [c \in Conns |-> Owner(c)][d] = "pool"}
           at == [i \in 1 .. n |-> conn[workqueue_[i]]]
<1>1. n \in Nat /\ DOMAIN workqueue_ = 1 .. n /\ \A i \in 1 .. n : workqueue_[i] \in Fds
  BY DEF IndInv, TypeOK
<1>2. IsFiniteSet(1 .. n) /\ Cardinality(1 .. n) = n
  BY <1>1, FS_Interval
<1>3. IsFiniteSet(P) /\ Cardinality(P) \in Nat
  BY FS_Subset, FS_CardinalityType, WebServerAssumption
<1>4. ASSUME NEW i \in 1 .. n PROVE conn[workqueue_[i]] \in P
  <2>1. PICK f \in Fds : f = workqueue_[i]
    BY <1>1
  <2>2. InPool(f) /\ conn[f] \in Conns
    <3>1. InPool(f)
      BY <1>1, <2>1 DEF InPool, Queued
    <3> QED
      BY <3>1 DEF CleanInv, HandInv, HandAt, IndInv, TypeOK
  <2>3. PICK c \in Conns : c = conn[f]
    BY <2>2
  <2>4. Owner(c) = "pool"
    BY <2>2, <2>3 DEF OwnerOf, Hand
  <2> QED
    BY <2>1, <2>3, <2>4
<1>5. ASSUME NEW i \in 1 .. n, NEW j \in 1 .. n, conn[workqueue_[i]] = conn[workqueue_[j]]
      PROVE  i = j
  <2>1. PICK f \in Fds, g \in Fds : f = workqueue_[i] /\ g = workqueue_[j]
    BY <1>1
  <2>2. PICK c \in Conns : c = conn[f] /\ c = conn[g]
    BY <1>4, <1>5, <2>1
  <2>3. f = g
    BY <2>2 DEF OwnerOf
  <2> QED
    BY <1>1, <2>1, <2>3 DEF CleanInv, PoolInv, Distinct
<1>6. at \in Injection(1 .. n, P)
  <2> HIDE DEF P
  <2> QED
    BY <1>4, <1>5 DEF Injection, IsInjective
<1> HIDE DEF at, P
<1>7. n <= Cardinality(P)
  BY <1>2, <1>3, <1>6, FS_Injection
<1>8. requests_list_max_ \in Nat /\ n >= requests_list_max_
  BY WebServerAssumption DEF QueueFull
<1>9. Cardinality(P) >= requests_list_max_
  BY <1>1, <1>3, <1>7, <1>8
<1> QED
  BY <1>9 DEF P

LEMMA OwnerNext ==
    ASSUME IndInv, CleanInv, Effect,
           \A c \in Conns : OwnerOf(c) /\ OwnerOf(c)'
    PROVE  [Oneshot!Next]_([c \in Conns |-> Owner(c)])
<1>1. \A f \in Fds : conn[f] # None => conn[f] \in Conns
  BY DEF IndInv, TypeOK
<1>2. CASE Quiet
  <2>1. \A c \in Conns : Owner(c)' = Owner(c)
    BY <1>2, OwnerStays DEF Quiet
  <2> QED
    BY <2>1
<1>3. ASSUME NEW c \in Conns, Rejected(c) PROVE Oneshot!Next
  <2>1. \A d \in Conns \ {c} : Owner(d)' = Owner(d)
    BY <1>3, OwnerStays DEF Rejected
  <2>2. Owner(c) = "nobody" /\ \A f \in Fds : conn[f] # c
    BY <1>3 DEF Rejected, OwnerOf
  <2>3. c \notin fresh' /\ \A f \in Fds : conn'[f] # c
    BY <1>3, <2>2 DEF Rejected, Kept
  <2>4. Owner(c)' = "closed"
    BY <2>3 DEF OwnerOf
  <2> QED
    BY <2>1, <2>2, <2>4, OneMoves DEF Oneshot!Next, Oneshot!Open
<1>4. ASSUME NEW c \in Conns, NEW f \in Fds, Accepted(c, f) PROVE Oneshot!Next
  <2>1. Kept(Fds \ {f}) /\ conn[f] = None /\ conn'[f] = c /\ fresh' = fresh \ {c} /\ c \in fresh
    BY <1>4 DEF Accepted
  <2>2. ASSUME NEW d \in Conns \ {c} PROVE Owner(d)' = Owner(d)
    <3>1. /\ d \in fresh' <=> d \in fresh
          /\ \A g \in Fds \ (Fds \ {f}) : conn[g] # d /\ conn'[g] # d
      BY <2>1, WebServerAssumption
    <3> QED
      BY <2>1, <3>1, OwnerStays
  <2>3. Owner(c) = "nobody"
    BY <2>1 DEF OwnerOf
  <2>4. Hand(f)' = "kernel"
    BY <1>4 DEF Accepted, Hand
  <2>5. Owner(c)' = "kernel"
    BY <2>1, <2>4 DEF OwnerOf
  <2> QED
    BY <2>2, <2>3, <2>5, OneMoves DEF Oneshot!Next, Oneshot!Open
<1>5. ASSUME NEW f \in Fds, Served(f) \/ Finished(f) PROVE Oneshot!Next
  <2>1. /\ Kept(Fds \ {f}) /\ fresh' = fresh /\ conn'[f] \in {conn[f], None}
        /\ HasEvent(f) \/ InPool(f)
    BY <1>5 DEF Served, Finished
  <2>2. conn[f] # None /\ (HasEvent(f) => ~InPool(f))
    BY <2>1 DEF CleanInv, HandInv, HandAt
  <2>3. PICK c \in Conns : c = conn[f]
    BY <1>1, <2>2
  <2>4. ASSUME NEW d \in Conns \ {c} PROVE Owner(d)' = Owner(d)
    <3>1. \A g \in Fds \ (Fds \ {f}) : conn[g] # d /\ conn'[g] # d
      BY <2>1, <2>3, WebServerAssumption
    <3> QED
      BY <2>1, <3>1, OwnerStays
  <2>5. Owner(c) = Hand(f) /\ c \notin fresh /\ \A g \in Fds \ {f} : conn[g] # c
    BY <2>3 DEF OwnerOf
  <2>6. conn'[f] = c => Owner(c)' = Hand(f)'
    BY DEF OwnerOf
  <2>7. CASE Served(f)
    <3>1. Owner(c) = "loop"
      BY <2>2, <2>5, <2>7 DEF Served, Hand
    <3>2. CASE conn'[f] = conn[f]
      <4>1. Hand(f)' \in {"kernel", "pool"} \/ (Hand(f)' = "refused" /\ QueueFull)
        BY <2>2, <2>7, <3>2 DEF Served, Hand
      <4>2. CASE Hand(f)' \in {"kernel", "pool"}
        <5>1. Owner(c)' \in {"kernel", "pool"}
          BY <2>3, <2>6, <3>2, <4>2
        <5> QED
          BY <2>4, <3>1, <5>1, OneMoves DEF Oneshot!Next, Oneshot!Serve
      <4>3. CASE Hand(f)' = "refused" /\ QueueFull
        <5>1. Owner(c)' = "refused"
          BY <2>3, <2>6, <3>2, <4>3
        <5>2. Oneshot!Move(c, "loop", "refused")
          BY <2>4, <3>1, <5>1, OneMoves
        <5>3. Oneshot!Refuse(c)
          <6>1. \A d \in Conns : OwnerOf(d)
            OBVIOUS
          <6>2. Cardinality({d \in Conns : [e \in Conns |-> Owner(e)][d] = "pool"})
                   >= requests_list_max_
            BY <4>3, <6>1, FullPool, Zenon
          <6> QED
            BY <5>2, <6>2, Zenon DEF Oneshot!Refuse, Oneshot!Cardinality, Cardinality
        <5> QED
          BY <5>3 DEF Oneshot!Next
      <4> QED
        BY <4>1, <4>2, <4>3
    <3>3. CASE conn'[f] = None
      <4>1. \A g \in Fds : conn'[g] # c
        BY <2>1, <2>5, <3>3, WebServerAssumption DEF Kept
      <4>2. Owner(c)' = "closed"
        BY <2>1, <2>5, <4>1 DEF OwnerOf
      <4> QED
        BY <2>4, <3>1, <4>2, OneMoves DEF Oneshot!Next, Oneshot!Serve
    <3> QED
      BY <2>1, <3>2, <3>3
  <2>8. CASE Finished(f)
    <3>1. Owner(c) = "pool"
      BY <2>5, <2>8 DEF Finished, Hand
    <3>2. Hand(f)' = "kernel"
      BY <2>2, <2>8 DEF Finished, Hand
    <3>3. Owner(c)' = "kernel"
      BY <2>3, <2>6, <2>8, <3>2 DEF Finished
    <3> QED
      BY <2>4, <3>1, <3>3, OneMoves DEF Oneshot!Next, Oneshot!Finish
  <2> QED
    BY <1>5, <2>7, <2>8
<1>6. ASSUME NEW S \in SUBSET Fds, Reported(S) \/ Expire(S) PROVE Oneshot!Next
  <2> DEFINE D == {conn[f] : f \in S}
  <2>1. Kept(Fds \ S) /\ fresh' = fresh
    BY <1>6 DEF Reported, Expire
  <2>2. ASSUME NEW f \in S
        PROVE  /\ conn[f] # None /\ Hand(f) \in {"kernel", "refused"}
               /\ Reported(S) => Hand(f) = "kernel"
    BY <1>6 DEF Reported, Expire, CleanInv, HandInv, HandAt, Hand
  <2>3. ASSUME NEW c \in D
        PROVE  /\ c \in Conns /\ Owner(c) \in {"kernel", "refused"}
               /\ Reported(S) => Owner(c) = "kernel"
    <3>1. PICK f \in S : c = conn[f]
      BY <2>3
    <3> QED
      BY <1>1, <2>2, <3>1 DEF OwnerOf
  <2>4. ASSUME NEW c \in Conns \ D PROVE Owner(c)' = Owner(c)
    <3>1. \A f \in S : conn[f] # c /\ conn'[f] # c
      <4>1. \A f \in S : conn'[f] \in {conn[f], None}
        BY <1>6 DEF Reported, Expire
      <4> QED
        BY <2>4, <4>1, WebServerAssumption
    <3> HIDE DEF D
    <3> QED
      BY <2>1, <3>1, OwnerStays
  <2>5. CASE Reported(S)
    <3>1. ASSUME NEW c \in D PROVE Owner(c)' = "loop"
      <4>1. PICK f \in S : c = conn[f]
        BY <3>1
      <4>2. ~InPool(f)' /\ HasEvent(f)' /\ conn'[f] = c
        BY <2>5, <4>1 DEF Reported, CleanInv, HandInv, HandAt
      <4>3. Hand(f)' = "loop"
        BY <4>2 DEF Hand
      <4> QED
        BY <2>3, <3>1, <4>2, <4>3 DEF OwnerOf
    <3> HIDE DEF D
    <3>2. D \in SUBSET Conns
      BY <2>3
    <3>3. Oneshot!Deliver(D)
      BY <2>3, <2>4, <2>5, <3>1 DEF Oneshot!Deliver
    <3> QED
      BY <3>2, <3>3 DEF Oneshot!Next
  <2>6. CASE Expire(S)
    <3>1. ASSUME NEW c \in D PROVE Owner(c)' = "closed"
      <4>1. PICK f \in S : c = conn[f]
        BY <3>1
      <4>2. c \notin fresh /\ \A g \in Fds \ {f} : conn[g] # c
        BY <2>3, <3>1, <4>1 DEF OwnerOf
      <4>3. \A g \in Fds : conn'[g] # c
        BY <2>1, <2>2, <2>6, <4>1, <4>2 DEF Expire, Kept
      <4> QED
        BY <2>1, <2>3, <3>1, <4>2, <4>3 DEF OwnerOf
    <3> HIDE DEF D
    <3>2. D \in SUBSET Conns
      BY <2>3
    <3>3. Oneshot!Expire(D)
      BY <2>3, <2>4, <3>1 DEF Oneshot!Expire
    <3> QED
      BY <3>2, <3>3 DEF Oneshot!Next
  <2> QED
    BY <1>6, <2>5, <2>6
<1> QED
  BY <1>2, <1>3, <1>4, <1>5, <1>6 DEF Effect

----------------------------------------------------------------------------
(* The theorems.                                                           *)

\* In the clean proactor the buffers of an open connection never hold the bytes or
\* the answer of another, for any number of workers, descriptors and connections
\* (README.md:77; webserver.cpp:255-311, 369-378, 411-429; threadpool.h:160-193).
THEOREM BuffersAreOwn == CleanProactor => (Safety => []NoCrossTalk)
<1>1. IndInv /\ CleanInv => NoCrossTalk
  BY DEF CleanInv, DataInv
<1> QED
  BY <1>1, CleanInvariance, PTL

\* A tick closes only connections whose whole time went by without an event of
\* theirs, in both models, as long as no worker closes one; otherwise the timer that
\* is left over may close the next connection on its descriptor
\* (README.md:791; list_timer.cpp:121-147; http_conn.cpp:208-217).
THEOREM OnlyIdleExpire == NoDrops => (Safety => ClosesOnlyIdle)
<1>1. ASSUME IndInv, ListedInv, [Next]_vars, NEW f \in Fds,
             clock_flag, ~clock_flag', conn[f] # None, conn'[f] = None
      PROVE  age[conn[f]] = IdleSlots
  <2>1. Tick
    BY <1>1 DEF Next, Environment, Elapse, SigTerm, EpollWait, EventLoop, AcceptFails, NewConn,
       Reject, HandleNewConn, DealWithSigna, Spin, EndRound, HandleEvent, HandleHup,
       ReactorHandle, ProactorRead, ProactorWrite, ProactorSpends, Run, Take, WorkerRead,
       WorkerWrite, WorkerSpends, Spend, Mark,
       Process, Parse, Reply, Rearm, DropFd, DropMark, DropCount, DropStore, Exited,
       WriteAgain, vars, loop
  <2>2. PICK S \in SUBSET Fds :
              /\ \A g \in S : conn[g] # None /\ age[conn[g]] = IdleSlots
              /\ conn' = [g \in Fds |-> IF g \in S THEN None ELSE conn[g]]
    BY <1>1, <2>1, TickCloses DEF IndInv
  <2> QED
    BY <1>1, <2>2
<1>2. IndInv /\ ListedInv /\ [Next]_vars
        => [\A f \in Fds : clock_flag /\ ~clock_flag' /\ conn[f] # None /\ conn'[f] = None
                => age[conn[f]] = IdleSlots]_vars
  BY <1>1
<1> QED
  BY <1>2, ListedInvariance, PTL DEF ClosesOnlyIdle, Safety

\* In the proactor, when no worker closes a connection and the pool keeps up with the
\* clock, a connection is at any time with one party, or refused, or not open: no step
\* gives it to two parties or closes it under the worker that handles it, and none
\* leaves it with nobody unless the pool is full, for any capacity of the queue and any
\* number of descriptors.  Both conditions are needed: the code guarantees neither
\* (README.md:77; webserver.cpp:314-429; util.cpp:4-34; threadpool.h:95-98, 139-203).
THEOREM OneHandlerAtATime == CleanProactor => (Safety => OneHandler)
<1> SUFFICES ASSUME CleanProactor PROVE Safety => OneHandler
  OBVIOUS
<1>1. Init => Oneshot!Init
  BY DEF Init, Oneshot!Init, Owner
<1>2. (IndInv /\ CleanInv => \A c \in Conns : OwnerOf(c))'
  BY OwnerCases, PTL
<1>3. IndInv /\ CleanInv /\ IndInv' /\ CleanInv' /\ [Next]_vars
        => [Oneshot!Next]_([c \in Conns |-> Owner(c)])
  <2> SUFFICES ASSUME IndInv, CleanInv, IndInv', CleanInv', [Next]_vars
               PROVE  [Oneshot!Next]_([c \in Conns |-> Owner(c)])
    OBVIOUS
  <2>1. Effect
    BY StepEffect DEF IndInv
  <2>2. \A c \in Conns : OwnerOf(c) /\ OwnerOf(c)'
    BY <1>2, OwnerCases
  <2> QED
    BY <2>1, <2>2, OwnerNext
<1> QED
  BY <1>1, <1>3, CleanInvariance, PTL DEF Safety, OneHandler, Oneshot!Safety
=============================================================================
