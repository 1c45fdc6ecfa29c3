-------------------------- MODULE ThreadPoolProofs ---------------------------
(***************************************************************************)
(* Proofs about the thread pool for any number of workers, any set of      *)
(* requests and any capacity of the queue.                                 *)
(***************************************************************************)
EXTENDS ThreadPool, FiniteSetTheorems, SequenceTheorems, TLAPS

\* The mutex knows who is inside the critical section.
LockInv == \A t \in Threads : pc[t] = "locked" <=> workqueue_locker_ = t

\* An append in progress has its arguments; so has a worker its request.
ArgsInv ==
    /\ pc[Main] \in {"lock", "locked"} <=> appending # None
    /\ \A w \in Workers :
          /\ pc[w] \in {"taken", "run"} <=> request[w] # None
          /\ pc[w] = "run" <=> job[w] # None

IndInv == TypeOK /\ LockInv /\ ArgsInv

----------------------------------------------------------------------------
\* The initial state satisfies the inductive invariant.
LEMMA InitIndInv == Init => IndInv
  BY ThreadPoolAssumption
  DEF Init, IndInv, TypeOK, LockInv, ArgsInv, Threads, Job

\* Every step keeps the types of the pool's variables.
LEMMA StepTypeOK == ASSUME IndInv, [Next]_vars PROVE TypeOK'
  <1> USE ThreadPoolAssumption DEF IndInv, TypeOK, ArgsInv, Threads, Job, Goto
  <1>1. CASE \E r \in Requests, s \in {0, 1} : AppendCall(r, s)
    BY <1>1 DEF AppendCall
  <1>2. CASE \E t \in Threads : Lock(t)
    BY <1>2 DEF Lock
  <1>3. CASE AppendRefused
    BY <1>3 DEF AppendRefused
  <1>4. CASE AppendPush
    BY <1>4 DEF AppendPush
  <1>5. CASE AppendPost
    BY <1>5 DEF AppendPost
  <1>6. ASSUME NEW w \in Workers, SemWait(w) PROVE TypeOK'
    BY <1>6 DEF SemWait
  <1>7. ASSUME NEW w \in Workers, SemInterrupted(w) PROVE TypeOK'
    BY <1>7 DEF SemInterrupted
  <1>8. ASSUME NEW w \in Workers, TakeNothing(w) PROVE TypeOK'
    BY <1>8 DEF TakeNothing
  <1>9. ASSUME NEW w \in Workers, Take(w) PROVE TypeOK'
    BY <1>9 DEF Take
  <1>10. ASSUME NEW w \in Workers, Dispatch(w) PROVE TypeOK'
    BY <1>10 DEF Dispatch
  <1>11. ASSUME NEW w \in Workers, Finish(w) PROVE TypeOK'
    BY <1>11 DEF Finish
  <1>12. CASE UNCHANGED vars
    BY <1>12 DEF vars
  <1> QED
    BY <1>1, <1>2, <1>3, <1>4, <1>5, <1>6, <1>7, <1>8, <1>9, <1>10, <1>11,
       <1>12 DEF Next, MainStep, Run

\* Every step keeps the mutex and the program counters in agreement.
LEMMA StepLockInv == ASSUME IndInv, [Next]_vars PROVE LockInv'
  <1> USE ThreadPoolAssumption DEF IndInv, TypeOK, LockInv, Threads, Goto
  <1>1. CASE \E r \in Requests, s \in {0, 1} : AppendCall(r, s)
    BY <1>1 DEF AppendCall
  <1>2. CASE \E t \in Threads : Lock(t)
    BY <1>2 DEF Lock
  <1>3. CASE MainStep
    BY <1>3 DEF MainStep, AppendRefused, AppendPush, AppendPost
  <1>4. ASSUME NEW w \in Workers, SemWait(w) \/ SemInterrupted(w) PROVE LockInv'
    BY <1>4 DEF SemWait, SemInterrupted
  <1>5. ASSUME NEW w \in Workers, Run(w) PROVE LockInv'
    BY <1>5 DEF Run, TakeNothing, Take, Dispatch, Finish
  <1>6. CASE UNCHANGED vars
    BY <1>6 DEF vars
  <1> QED
    BY <1>1, <1>2, <1>3, <1>4, <1>5, <1>6 DEF Next

\* Every step keeps the program counters and the threads' arguments together.
LEMMA StepArgsInv == ASSUME IndInv, [Next]_vars PROVE ArgsInv'
  <1> USE ThreadPoolAssumption DEF IndInv, TypeOK, ArgsInv, Threads, Job, Goto
  <1>1. CASE \E r \in Requests, s \in {0, 1} : AppendCall(r, s)
    BY <1>1 DEF AppendCall
  <1>2. CASE \E t \in Threads : Lock(t)
    BY <1>2 DEF Lock
  <1>3. CASE MainStep
    BY <1>3 DEF MainStep, AppendRefused, AppendPush, AppendPost
  <1>4. ASSUME NEW w \in Workers, SemWait(w) \/ SemInterrupted(w) PROVE ArgsInv'
    BY <1>4 DEF SemWait, SemInterrupted
  <1>5. ASSUME NEW w \in Workers, TakeNothing(w) \/ Finish(w) PROVE ArgsInv'
    BY <1>5 DEF TakeNothing, Finish
  <1>6. ASSUME NEW w \in Workers, Take(w) PROVE ArgsInv'
    <2>1. Head(workqueue_) \in Requests
      BY <1>6 DEF Take
    <2> QED
      BY <1>6, <2>1 DEF Take
  <1>7. ASSUME NEW w \in Workers, Dispatch(w) PROVE ArgsInv'
    BY <1>7 DEF Dispatch
  <1>8. CASE UNCHANGED vars
    BY <1>8 DEF vars
  <1> QED
    BY <1>1, <1>2, <1>3, <1>4, <1>5, <1>6, <1>7, <1>8 DEF Next, Run

\* The three parts together are an invariant of the pool.
THEOREM Invariance == Spec => []IndInv
  <1>1. IndInv /\ [Next]_vars => IndInv'
    BY StepTypeOK, StepLockInv, StepArgsInv DEF IndInv
  <1> QED
    BY InitIndInv, <1>1, PTL DEF Spec

\* The types of the pool's variables, the capacity of the queue included
\* (threadpool.h:91-107, 136-203).
THEOREM TypeCorrect == Spec => []TypeOK
  BY Invariance, PTL DEF IndInv

----------------------------------------------------------------------------
\* What a worker's step does to the number of workers on their way to the queue.
LEMMA AwakeCardinality ==
  ASSUME IndInv
  PROVE  /\ IsFiniteSet(Awake)
         /\ Cardinality(Awake) \in Nat
         /\ \A w \in Workers :
               /\ w \notin Awake => Cardinality(Awake \cup {w}) = Cardinality(Awake) + 1
               /\ w \in Awake => Cardinality(Awake \ {w}) = Cardinality(Awake) - 1
  <1>1. IsFiniteSet(Awake)
    BY FS_Subset, ThreadPoolAssumption DEF Awake
  <1> QED
    BY <1>1, FS_CardinalityType, FS_AddElement, FS_RemoveElement

\* A step of the event loop's thread leaves the set of awake workers alone.
LEMMA MainLeavesAwake ==
  ASSUME IndInv, NEW l, pc' = [pc EXCEPT ![Main] = l]
  PROVE  Awake' = Awake
  BY ThreadPoolAssumption DEF IndInv, TypeOK, Awake, Threads

\* Every step keeps the wake-ups in balance with the queue.
LEMMA StepNoLostWakeup ==
  ASSUME IndInv, NoLostWakeup, [Next]_vars
  PROVE  NoLostWakeup'
  <1> DEFINE n == Cardinality(Awake)
             posting == IF pc[Main] = "post" THEN 1 ELSE 0
  <1>1. /\ n \in Nat
        /\ \A w \in Workers :
              /\ w \notin Awake => Cardinality(Awake \cup {w}) = n + 1
              /\ w \in Awake => Cardinality(Awake \ {w}) = n - 1
    BY AwakeCardinality
  <1>2. /\ Len(workqueue_) \in Nat
        /\ workqueue_sem_ \in Nat
        /\ Len(workqueue_) <= workqueue_sem_ + n + posting
    BY DEF IndInv, TypeOK, NoLostWakeup
  <1>3. CASE \E t \in Threads : Lock(t)
    <2>1. Awake' = Awake /\ (pc'[Main] = "post" <=> pc[Main] = "post")
      BY <1>3, ThreadPoolAssumption
      DEF Lock, Awake, IndInv, TypeOK, Threads, Goto
    <2> QED
      BY <1>1, <1>2, <1>3, <2>1 DEF Lock, NoLostWakeup
  <1>4. CASE \/ \E r \in Requests, s \in {0, 1} : AppendCall(r, s)
             \/ MainStep
    <2>1. Awake' = Awake
      BY <1>4, MainLeavesAwake
      DEF AppendCall, MainStep, AppendRefused, AppendPush, AppendPost, Goto
    <2>2. pc \in [Threads -> {"idle", "lock", "locked", "post",
                             "wait", "taken", "run"}] /\ Main \in Threads
      BY DEF IndInv, TypeOK, Threads
    <2>3. CASE AppendPush
      <3>1. Len(workqueue_') = Len(workqueue_) + 1 /\ pc'[Main] = "post"
        BY <2>2, <2>3 DEF AppendPush, Goto, IndInv, TypeOK
      <3>2. posting = 0
        BY <2>3 DEF AppendPush
      <3> QED
        BY <1>1, <1>2, <2>1, <2>3, <3>1, <3>2 DEF AppendPush, NoLostWakeup
    <2>4. CASE AppendPost
      <3>1. pc'[Main] # "post"
        BY <2>2, <2>4 DEF AppendPost, Goto
      <3> QED
        BY <1>1, <1>2, <2>1, <2>4, <3>1 DEF AppendPost, NoLostWakeup
    <2>5. CASE AppendRefused \/ \E r \in Requests, s \in {0, 1} : AppendCall(r, s)
      <3>1. pc'[Main] # "post" /\ pc[Main] # "post"
        BY <2>2, <2>5 DEF AppendRefused, AppendCall, Goto
      <3> QED
        BY <1>1, <1>2, <2>1, <2>5, <3>1
        DEF AppendRefused, AppendCall, NoLostWakeup
    <2> QED
      BY <1>4, <2>3, <2>4, <2>5 DEF MainStep
  <1>5. ASSUME NEW w \in Workers, SemWait(w) \/ SemInterrupted(w) \/ Run(w)
        PROVE  NoLostWakeup'
    <2>1. pc'[Main] = pc[Main]
      BY <1>5, ThreadPoolAssumption
      DEF SemWait, SemInterrupted, Run, TakeNothing, Take, Dispatch, Finish,
          Goto, IndInv, TypeOK, Threads
    <2>2. CASE SemWait(w) \/ SemInterrupted(w)
      <3>1. Awake' = Awake \cup {w} /\ w \notin Awake
        BY <2>2, ThreadPoolAssumption
        DEF SemWait, SemInterrupted, Awake, Goto, IndInv, TypeOK, Threads
      <3> QED
        BY <1>1, <1>2, <2>1, <2>2, <3>1
        DEF SemWait, SemInterrupted, NoLostWakeup
    <2>3. CASE TakeNothing(w) \/ Take(w)
      <3>1. Awake' = Awake \ {w} /\ w \in Awake
        BY <2>3, ThreadPoolAssumption
        DEF TakeNothing, Take, Awake, Goto, IndInv, TypeOK, Threads
      <3>2. n - 1 >= 0 /\ Cardinality(Awake') = n - 1
        BY <1>1, <3>1, AwakeCardinality, FS_RemoveElement, FS_CardinalityType
      <3>3. CASE TakeNothing(w)
        BY <1>1, <1>2, <2>1, <3>2, <3>3 DEF TakeNothing, NoLostWakeup
      <3>4. CASE Take(w)
        <4>1. Len(workqueue_') = Len(workqueue_) - 1
          BY <3>4, HeadTailProperties DEF Take, IndInv, TypeOK
        <4> QED
          BY <1>1, <1>2, <2>1, <3>2, <3>4, <4>1 DEF Take, NoLostWakeup
      <3> QED
        BY <2>3, <3>3, <3>4
    <2>4. CASE Dispatch(w) \/ Finish(w)
      <3>1. Awake' = Awake
        BY <2>4, ThreadPoolAssumption
        DEF Dispatch, Finish, Awake, Goto, IndInv, TypeOK, Threads
      <3> QED
        BY <1>1, <1>2, <2>1, <2>4, <3>1 DEF Dispatch, Finish, NoLostWakeup
    <2> QED
      BY <1>5, <2>2, <2>3, <2>4 DEF Run
  <1>6. CASE UNCHANGED vars
    BY <1>6 DEF vars, NoLostWakeup, Awake
  <1> QED
    BY <1>3, <1>4, <1>5, <1>6 DEF Next

\* No request stays in the queue with every worker asleep, whatever waits are
\* cut short by signals (threadpool.h:101-105, 142-153).
THEOREM WakeupsNeverLost == Spec => []NoLostWakeup
  <1>1. ASSUME Init PROVE NoLostWakeup
    <2>1. Cardinality(Awake) = 0
      <3>1. Awake = {}
        BY <1>1, ThreadPoolAssumption DEF Init, Awake, Threads
      <3> QED
        BY <3>1, FS_EmptySet
    <2>2. Len(workqueue_) = 0 /\ workqueue_sem_ = 0 /\ pc[Main] # "post"
      BY <1>1 DEF Init, Threads
    <2> QED
      BY <2>1, <2>2 DEF NoLostWakeup
  <1>2. IndInv /\ NoLostWakeup /\ [Next]_vars => NoLostWakeup'
    BY StepNoLostWakeup
  <1> QED
    BY <1>1, <1>2, Invariance, PTL DEF Spec

----------------------------------------------------------------------------
\* Pairing the entries of a queue with their directions commutes with
\* appending at the back and with taking the head.
LEMMA PairAppend ==
  ASSUME NEW h \in [Requests -> {0, 1}], NEW q \in Seq(Requests),
         NEW r \in Requests, NEW s \in {0, 1},
         \A i \in 1 .. Len(q) : q[i] = r => h[r] = s,
         NEW g, g = [h EXCEPT ![r] = s],
         NEW p, p = Append(q, r)
  PROVE  Directed(p, g) = Append(Directed(q, h), <<r, s>>)
  <1> DEFINE a == [i \in DOMAIN p |-> <<p[i], g[p[i]]>>]
             b == [i \in DOMAIN q |-> <<q[i], h[q[i]]>>]
  <1>1. b \in Seq(Requests \X {0, 1}) /\ Len(b) = Len(q) /\ DOMAIN b = 1 .. Len(q)
    OBVIOUS
  <1>2. DOMAIN Append(b, <<r, s>>) = 1 .. (Len(q) + 1)
    BY <1>1
  <1>3. DOMAIN a = 1 .. (Len(q) + 1)
    OBVIOUS
  <1>4. ASSUME NEW i \in 1 .. (Len(q) + 1) PROVE a[i] = Append(b, <<r, s>>)[i]
    <2>1. CASE i = Len(q) + 1
      BY <1>1, <2>1
    <2>2. CASE i \in 1 .. Len(q)
      <3>1. p[i] = q[i] /\ q[i] \in Requests /\ g[q[i]] = h[q[i]]
        BY <2>2
      <3> QED
        BY <1>1, <2>2, <3>1
    <2> QED
      BY <2>1, <2>2
  <1>5. a \in Seq(Requests \X {0, 1}) /\ Len(a) = Len(q) + 1
    <2>1. p \in Seq(Requests) /\ Len(p) = Len(q) + 1 /\ g \in [Requests -> {0, 1}]
      OBVIOUS
    <2> QED
      BY <2>1
  <1>6. Append(b, <<r, s>>) \in Seq(Requests \X {0, 1})
        /\ Len(Append(b, <<r, s>>)) = Len(q) + 1
    BY <1>1, AppendProperties
  <1>7. a = Append(b, <<r, s>>)
    <2> HIDE DEF a, b
    <2> QED
      BY <1>4, <1>5, <1>6, SeqEqual
  <1> QED
    BY <1>7 DEF Directed

LEMMA PairTail ==
  ASSUME NEW h \in [Requests -> {0, 1}], NEW q \in Seq(Requests), q # <<>>
  PROVE  /\ Directed(Tail(q), h) = Tail(Directed(q, h))
         /\ Head(Directed(q, h)) = <<Head(q), h[Head(q)]>>
         /\ Directed(q, h) # <<>>
  <1> DEFINE b == [i \in DOMAIN q |-> <<q[i], h[q[i]]>>]
             p == Tail(q)
             a == [i \in DOMAIN p |-> <<p[i], h[p[i]]>>]
  <1>1. b \in Seq(Requests \X {0, 1}) /\ Len(b) = Len(q) /\ b # <<>>
    OBVIOUS
  <1>2. DOMAIN a = 1 .. (Len(q) - 1) /\ DOMAIN Tail(b) = 1 .. (Len(q) - 1)
    BY <1>1
  <1>3. ASSUME NEW i \in 1 .. (Len(q) - 1) PROVE a[i] = Tail(b)[i]
    BY <1>1, <1>2
  <1>4. /\ a \in Seq(Requests \X {0, 1}) /\ Len(a) = Len(q) - 1
        /\ Tail(b) \in Seq(Requests \X {0, 1}) /\ Len(Tail(b)) = Len(q) - 1
    <2>1. p \in Seq(Requests) /\ Len(p) = Len(q) - 1
      OBVIOUS
    <2> QED
      BY <1>1, <2>1, HeadTailProperties
  <1>5. a = Tail(b)
    <2> HIDE DEF a, b, p
    <2> QED
      BY <1>3, <1>4, SeqEqual
  <1> QED
    BY <1>1, <1>5 DEF Directed

----------------------------------------------------------------------------
\* What the caller promised about its request still holds while the append is
\* in progress: the workers only take entries away and read directions.
SettledInv == appending # None => Settled(appending[1], appending[2])

LEMMA StepSettledInv ==
  ASSUME IndInv, SettledInv, [Next]_vars
  PROVE  SettledInv'
  <1> USE ThreadPoolAssumption DEF IndInv, TypeOK, SettledInv, Settled
  <1>1. ASSUME NEW r \in Requests, NEW s \in {0, 1}, AppendCall(r, s)
        PROVE  SettledInv'
    BY <1>1 DEF AppendCall, Goto, Threads
  <1>2. CASE MainStep
    BY <1>2 DEF MainStep, AppendRefused, AppendPush, AppendPost, Goto, ArgsInv
  <1>3. CASE \E t \in Threads : Lock(t)
    BY <1>3 DEF Lock, Goto, Threads
  <1>4. ASSUME NEW w \in Workers, Take(w) PROVE SettledInv'
    <2>1. Head(workqueue_) = workqueue_[1] /\ 1 \in DOMAIN workqueue_
      BY <1>4 DEF Take
    <2>2. \A i \in DOMAIN Tail(workqueue_) :
             /\ Tail(workqueue_)[i] = workqueue_[i + 1]
             /\ i + 1 \in DOMAIN workqueue_
      BY <1>4 DEF Take
    <2> QED
      BY <1>4, <2>1, <2>2 DEF Take, Goto, Threads
  <1>5. ASSUME NEW w \in Workers,
               SemWait(w) \/ SemInterrupted(w) \/ TakeNothing(w)
                 \/ Dispatch(w) \/ Finish(w)
        PROVE  SettledInv'
    BY <1>5 DEF SemWait, SemInterrupted, TakeNothing, Dispatch, Finish, Goto,
                Threads
  <1>6. CASE UNCHANGED vars
    BY <1>6 DEF vars
  <1> QED
    BY <1>1, <1>2, <1>3, <1>4, <1>5, <1>6 DEF Next, Run

\* The pool's initial state is an empty queue with every worker free.
LEMMA InitRefines == Init => Pool!Init
  BY ThreadPoolAssumption DEF Init, Pool!Init, Threads, Directed

\* Appending in the pool is accepting a job.
LEMMA PushRefines ==
  ASSUME IndInv, SettledInv, AppendPush, NEW j \in Job, j = appending
  PROVE  Pool!Accept(j)
  <1> DEFINE r == j[1]
             s == j[2]
  <1>1. r \in Requests /\ s \in {0, 1} /\ j = <<r, s>>
    BY DEF Job
  <1>2. Settled(r, s)
    BY <1>1, ThreadPoolAssumption DEF SettledInv, IndInv, ArgsInv, AppendPush
  <1>3. /\ workqueue_ \in Seq(Requests)
        /\ http_state_ \in [Requests -> {0, 1}]
        /\ workqueue_' = Append(workqueue_, r)
        /\ http_state_' = [http_state_ EXCEPT ![r] = s]
    BY DEF IndInv, TypeOK, AppendPush
  <1>4. \A i \in 1 .. Len(workqueue_) : workqueue_[i] = r => http_state_[r] = s
    BY <1>2, <1>3 DEF Settled
  <1>5. Directed(workqueue_', http_state_')
        = Append(Directed(workqueue_, http_state_), <<r, s>>)
    <2> HIDE DEF r, s
    <2>1. \A h \in [Requests -> {0, 1}], q \in Seq(Requests) :
             (\A i \in 1 .. Len(q) : q[i] = r => h[r] = s)
             => \A g : g = [h EXCEPT ![r] = s]
                  => \A p : p = Append(q, r)
                       => Directed(p, g) = Append(Directed(q, h), <<r, s>>)
      BY <1>1, PairAppend, Zenon
    <2>2. \A g, p : g = [http_state_ EXCEPT ![r] = s] /\ p = Append(workqueue_, r)
             => Directed(p, g) = Append(Directed(workqueue_, http_state_), <<r, s>>)
      BY <1>3, <1>4, <2>1
    <2> QED
      BY <1>3, <2>2
  <1>6. Len(Directed(workqueue_, http_state_)) < requests_list_max_
    BY <1>3 DEF AppendPush, Directed
  <1>7. ASSUME NEW w \in Workers
        PROVE  (IF pc'[w] = "taken"
                THEN <<request'[w], http_state_'[request'[w]]>> ELSE job'[w])
               = (IF pc[w] = "taken"
                  THEN <<request[w], http_state_[request[w]]>> ELSE job[w])
    <2>1. pc'[w] = pc[w] /\ request' = request /\ job' = job
      BY ThreadPoolAssumption DEF AppendPush, Goto, IndInv, TypeOK, Threads
    <2>2. pc[w] = "taken" => http_state_'[request[w]] = http_state_[request[w]]
      BY <1>1, <1>2, <1>3, ThreadPoolAssumption
      DEF Settled, IndInv, TypeOK, ArgsInv
    <2> QED
      BY <2>1, <2>2
  <1> QED
    BY <1>1, <1>5, <1>6, <1>7 DEF Pool!Accept

\* Popping in the pool is taking a job.
LEMMA TakeRefines ==
  ASSUME IndInv, NEW w \in Workers, Take(w)
  PROVE  Pool!Take(w)
  <1> DEFINE pairs == Directed(workqueue_, http_state_)
             hand == [v \in Workers |->
                        IF pc[v] = "taken"
                        THEN <<request[v], http_state_[request[v]]>>
                        ELSE job[v]]
  <1>1. /\ workqueue_ \in Seq(Requests) /\ workqueue_ # <<>>
        /\ http_state_ \in [Requests -> {0, 1}]
        /\ workqueue_' = Tail(workqueue_) /\ http_state_' = http_state_
    BY DEF IndInv, TypeOK, Take
  <1>2. /\ Directed(workqueue_', http_state_') = Tail(pairs)
        /\ Head(pairs) = <<Head(workqueue_), http_state_[Head(workqueue_)]>>
        /\ pairs # <<>>
    BY <1>1, PairTail
  <1>3. hand[w] = None
    BY ThreadPoolAssumption DEF IndInv, TypeOK, ArgsInv, Take
  <1>4. pc' = [pc EXCEPT ![w] = "taken"]
        /\ request' = [request EXCEPT ![w] = Head(workqueue_)] /\ job' = job
    BY DEF Take, Goto
  <1>5. [v \in Workers |-> IF pc'[v] = "taken"
                           THEN <<request'[v], http_state_'[request'[v]]>>
                           ELSE job'[v]]
        = [hand EXCEPT ![w] = Head(pairs)]
    <2>1. pc \in [Threads -> {"idle", "lock", "locked", "post",
                             "wait", "taken", "run"}]
          /\ request \in [Workers -> Requests \cup {None}]
      BY DEF IndInv, TypeOK
    <2> HIDE DEF pairs
    <2> QED
      BY <1>1, <1>2, <1>4, <2>1 DEF Threads
  <1> QED
    BY <1>2, <1>3, <1>5 DEF Pool!Take

\* Every step of the pool is a step of the bounded queue, or none.
LEMMA StepRefines ==
  ASSUME IndInv, SettledInv, [Next]_vars
  PROVE  [Pool!Next]_(Pool!vars)
  <1>1. CASE AppendPush
    <2>1. PICK j \in Job : j = appending
      BY <1>1, ThreadPoolAssumption DEF AppendPush, IndInv, TypeOK, ArgsInv
    <2>2. Pool!Accept(j) /\ j \in Pool!Job
      BY <1>1, <2>1, PushRefines DEF Job, Pool!Job
    <2> QED
      BY <2>1, <2>2 DEF Pool!Next
  <1>2. ASSUME NEW w \in Workers, Take(w) PROVE Pool!Next
    BY <1>2, TakeRefines DEF Pool!Next
  <1> USE ThreadPoolAssumption DEF IndInv, TypeOK, ArgsInv, Threads, Goto
  <1>3. ASSUME NEW w \in Workers, Finish(w) PROVE Pool!Next
    <2>1. Pool!Finish(w)
      BY <1>3 DEF Finish, Pool!Finish
    <2> QED
      BY <2>1 DEF Pool!Next
  <1>4. ASSUME NEW w \in Workers, Dispatch(w) PROVE UNCHANGED Pool!vars
    BY <1>4 DEF Dispatch, Pool!vars
  <1>5. ASSUME NEW w \in Workers,
               SemWait(w) \/ SemInterrupted(w) \/ TakeNothing(w)
        PROVE  UNCHANGED Pool!vars
    BY <1>5 DEF SemWait, SemInterrupted, TakeNothing, Pool!vars
  <1>6. CASE \/ \E r \in Requests, s \in {0, 1} : AppendCall(r, s)
             \/ AppendRefused \/ AppendPost
    BY <1>6 DEF AppendCall, AppendRefused, AppendPost, Pool!vars
  <1>7. CASE \E t \in Threads : Lock(t)
    BY <1>7 DEF Lock, Pool!vars
  <1>8. CASE UNCHANGED vars
    BY <1>8 DEF vars, Pool!vars
  <1> QED
    BY <1>1, <1>2, <1>3, <1>4, <1>5, <1>6, <1>7, <1>8 DEF Next, MainStep, Run

\* Mutex, semaphore, list and the direction read outside the lock together
\* behave as the bounded first-in-first-out queue (threadpool.h:91-107,
\* 136-203); that the head is eventually taken is left to the model checker.
THEOREM PoolIsQueue == Spec => Pool!Safety
  <1>1. Init => SettledInv
    BY DEF Init, SettledInv
  <1>2. IndInv /\ SettledInv /\ [Next]_vars => SettledInv'
    BY StepSettledInv
  <1>3. IndInv /\ SettledInv /\ [Next]_vars => [Pool!Next]_(Pool!vars)
    BY StepRefines
  <1> QED
    BY <1>1, <1>2, <1>3, InitRefines, Invariance, PTL DEF Spec, Pool!Safety
=============================================================================
