------------------------ MODULE ConnectionPoolProofs -------------------------
(***************************************************************************)
(* Proofs about the pool of database connections for any number of threads *)
(* and connections.  What needs as many connections as callers holds while *)
(* no more than that have called; the last theorem says when this is so.   *)
(***************************************************************************)
EXTENDS ConnectionPool, FiniteSetTheorems, SequenceTheorems, TLAPS

\* The lock knows who is inside the critical section.
LockInv == \A t \in Threads : pc[t] \in {"get", "put"} <=> lock = t

\* Where a thread stands tells whether it holds a connection.
HoldInv ==
    \A t \in Threads :
        /\ pc[t] \in {"idle", "wait", "get_lock", "get", "post"} => con[t] = None
        /\ pc[t] \in {"put_lock", "put"} => con[t] # None

Holders == {t \in Threads : con[t] # None}

\* The free and the used connections add up to all of them.
Balance == Len(connList) + Cardinality(Holders) = Cardinality(Conns)

IndInv == TypeOK /\ LockInv /\ HoldInv /\ Accounted /\ Balance

----------------------------------------------------------------------------
\* What a list without repetitions contains after a push and after a pop.
LEMMA Pushed ==
  ASSUME NEW q \in Seq(Conns), NEW x \in Conns,
         Distinct(q), ~Contains(q, x)
  PROVE  /\ Distinct(Append(q, x))
         /\ \A c : Contains(Append(q, x), c) <=> c = x \/ Contains(q, c)
  <1> DEFINE p == Append(q, x)
  <1>1. /\ DOMAIN p = 1 .. (Len(q) + 1) /\ DOMAIN q = 1 .. Len(q)
        /\ Len(q) \in Nat
        /\ p[Len(q) + 1] = x
        /\ \A i \in DOMAIN q : p[i] = q[i]
    OBVIOUS
  <1> HIDE DEF p
  <1>2. \A i, j \in DOMAIN p : p[i] = p[j] => i = j
    <2> SUFFICES ASSUME NEW i \in DOMAIN p, NEW j \in DOMAIN p, p[i] = p[j]
                 PROVE  i = j
      OBVIOUS
    <2>1. i = Len(q) + 1 \/ i \in DOMAIN q
      BY <1>1
    <2>2. j = Len(q) + 1 \/ j \in DOMAIN q
      BY <1>1
    <2> QED
      BY <1>1, <2>1, <2>2 DEF Distinct, Contains
  <1>3. ASSUME NEW c
        PROVE  (\E i \in DOMAIN p : p[i] = c)
                 <=> c = x \/ \E i \in DOMAIN q : q[i] = c
    <2>1. \A i \in DOMAIN p : i = Len(q) + 1 \/ i \in DOMAIN q
      BY <1>1
    <2>2. Len(q) + 1 \in DOMAIN p /\ \A i \in DOMAIN q : i \in DOMAIN p
      BY <1>1
    <2> QED
      BY <1>1, <2>1, <2>2
  <1> QED
    BY <1>2, <1>3 DEF p, Distinct, Contains

LEMMA Popped ==
  ASSUME NEW q \in Seq(Conns), q # <<>>,
         Distinct(q)
  PROVE  /\ Distinct(Tail(q))
         /\ \A c : Contains(Tail(q), c) <=> c # Head(q) /\ Contains(q, c)
         /\ Head(q) \in Conns /\ Contains(q, Head(q))
  <1> DEFINE p == Tail(q)
  <1>1. /\ DOMAIN p = 1 .. (Len(q) - 1) /\ DOMAIN q = 1 .. Len(q)
        /\ Len(q) \in Nat /\ Len(q) > 0
        /\ Head(q) = q[1] /\ Head(q) \in Conns
        /\ \A i \in DOMAIN p : p[i] = q[i + 1]
    OBVIOUS
  <1> HIDE DEF p
  <1>2. \A i \in DOMAIN p : i \in Nat /\ i + 1 \in DOMAIN q
    BY <1>1
  <1>3. \A i, j \in DOMAIN p : p[i] = p[j] => i = j
    <2> SUFFICES ASSUME NEW i \in DOMAIN p, NEW j \in DOMAIN p, p[i] = p[j]
                 PROVE  i = j
      OBVIOUS
    <2>1. i + 1 = j + 1
      BY <1>1, <1>2 DEF Distinct
    <2> QED
      BY <1>2, <2>1
  <1>4. ASSUME NEW c
        PROVE  (\E i \in DOMAIN p : p[i] = c)
                 <=> c # Head(q) /\ \E i \in DOMAIN q : q[i] = c
    <2>1. ASSUME NEW i \in DOMAIN p, p[i] = c
          PROVE  c # Head(q) /\ \E k \in DOMAIN q : q[k] = c
      <3>1. i + 1 \in DOMAIN q /\ q[i + 1] = c /\ i + 1 # 1 /\ 1 \in DOMAIN q
        BY <1>1, <1>2, <2>1
      <3> QED
        BY <1>1, <3>1 DEF Distinct
    <2>2. ASSUME NEW k \in DOMAIN q, q[k] = c, c # Head(q)
          PROVE  \E i \in DOMAIN p : p[i] = c
      <3>1. k - 1 \in DOMAIN p /\ (k - 1) + 1 = k
        BY <1>1, <2>2
      <3> QED
        BY <1>1, <2>2, <3>1
    <2> QED
      BY <2>1, <2>2
  <1> QED
    <2>1. 1 \in DOMAIN q
      BY <1>1
    <2> QED
      BY <1>1, <1>3, <1>4, <2>1 DEF p, Distinct, Contains

----------------------------------------------------------------------------
\* The initial list is an ordering of all connections and no thread holds one.
LEMMA InitIndInv == ASSUME Init PROVE IndInv
  <1> DEFINE n == Cardinality(Conns)
  <1>1. n \in Nat
    BY ConnectionPoolAssumption, FS_CardinalityType
  <1>2. /\ connList \in [1 .. n -> Conns]
        /\ \A i, j \in 1 .. n : connList[i] = connList[j] => i = j
    BY DEF Init
  <1>3. connList \in Seq(Conns) /\ Len(connList) = n /\ DOMAIN connList = 1 .. n
    BY <1>1, <1>2
  <1>4. TypeOK /\ LockInv /\ HoldInv
    BY <1>1, <1>3, ConnectionPoolAssumption
    DEF Init, TypeOK, LockInv, HoldInv, Places
  <1>5. Balance
    <2>1. Holders = {}
      BY DEF Init, Holders
    <2> QED
      BY <1>1, <1>3, <2>1, FS_EmptySet DEF Balance
  <1>6. Accounted
    <2>1. IsFiniteSet(1 .. n) /\ Cardinality(1 .. n) = n
      BY <1>1, FS_Interval
    <2>2. connList \in Injection(1 .. n, Conns)
      BY <1>2 DEF Injection, IsInjective
    <2>3. connList \in Surjection(1 .. n, Conns)
      BY <2>1, <2>2, FS_Injection, ConnectionPoolAssumption
    <2>4. \A c \in Conns : \E i \in 1 .. n : connList[i] = c
      BY <2>3 DEF Surjection
    <2>5. \A t \in Threads : con[t] = None
      BY DEF Init
    <2> QED
      BY <1>2, <1>3, <2>4, <2>5, ConnectionPoolAssumption
      DEF Accounted, Distinct, Contains
  <1> QED
    BY <1>4, <1>5, <1>6 DEF IndInv

\* Steps that move no connection: all but Pop and Push.
Moveless(t) ==
    \/ GetNothing(t) \/ GetSome(t) \/ WaitInterrupted(t) \/ Lock(t)
    \/ ReleaseNothing(t) \/ Release(t) \/ Wait(t) \/ PopEmpty(t) \/ Post(t)

\* The step relation, one thread at a time.
LEMMA NextSplit ==
  ASSUME [Next]_vars
  PROVE  \/ UNCHANGED vars
         \/ \E t \in Threads : ~crashed /\ (Moveless(t) \/ Pop(t) \/ Push(t))
  BY DEF Next, Moveless, Inside

\* A step that moves no connection keeps every part of the invariant.
LEMMA StepMoveless ==
  ASSUME IndInv, NEW t \in Threads, Moveless(t)
  PROVE  IndInv'
  <1> USE ConnectionPoolAssumption
      DEF Moveless, GetNothing, GetSome, WaitInterrupted, Lock, ReleaseNothing,
          Release, Wait, PopEmpty, Post, Goto
  <1>1. connList' = connList /\ con' = con
    OBVIOUS
  <1>2. TypeOK'
    <2>1. pc' \in [Threads -> Places]
      BY DEF IndInv, TypeOK, Places
    <2>2. reserve' \in Nat
      BY DEF IndInv, TypeOK
    <2>3. lock' \in Threads \cup {None} /\ crashed' \in BOOLEAN
      BY DEF IndInv, TypeOK
    <2>4. crowded' \in BOOLEAN
      BY DEF IndInv, TypeOK, Enter
    <2> QED
      BY <1>1, <2>1, <2>2, <2>3, <2>4 DEF IndInv, TypeOK
  <1>3. LockInv'
    <2>1. CASE Lock(t)
      BY <2>1 DEF IndInv, TypeOK, LockInv, Places
    <2>2. CASE PopEmpty(t)
      BY <2>2 DEF IndInv, TypeOK, LockInv, Places
    <2>3. ASSUME pc[t] \notin {"get", "put"}, lock' = lock,
                 NEW l \in Places \ {"get", "put"}, pc' = [pc EXCEPT ![t] = l]
          PROVE  LockInv'
      BY <2>3 DEF IndInv, TypeOK, LockInv
    <2> QED
      BY <2>1, <2>2, <2>3 DEF Places
  <1>4. HoldInv'
    BY DEF IndInv, TypeOK, HoldInv, Places
  <1>5. Accounted' /\ Balance'
    BY <1>1 DEF IndInv, Accounted, Balance, Holders
  <1> QED
    BY <1>2, <1>3, <1>4, <1>5 DEF IndInv

\* The number of holders is a number, and what one more or one fewer makes of it.
LEMMA HoldersCardinality ==
  /\ IsFiniteSet(Holders) /\ Cardinality(Holders) \in Nat
  /\ Cardinality(Conns) \in Nat
  /\ \A t \in Threads :
        /\ t \notin Holders => Cardinality(Holders \cup {t}) = Cardinality(Holders) + 1
        /\ t \in Holders => /\ Cardinality(Holders \ {t}) = Cardinality(Holders) - 1
                            /\ Cardinality(Holders) - 1 \in Nat
  <1>1. IsFiniteSet(Holders)
    BY FS_Subset, ConnectionPoolAssumption DEF Holders
  <1>2. \A t \in Threads : IsFiniteSet(Holders \ {t})
    BY <1>1, FS_RemoveElement
  <1> QED
    BY <1>1, <1>2, FS_CardinalityType, FS_AddElement, FS_RemoveElement,
       ConnectionPoolAssumption

\* Pop moves the front of the list to the thread.
LEMMA StepPop ==
  ASSUME IndInv, NEW t \in Threads, Pop(t)
  PROVE  IndInv'
  <1> DEFINE c0 == Head(connList)
  <1>1. /\ connList \in Seq(Conns) /\ connList # <<>>
        /\ Distinct(connList)
        /\ connList' = Tail(connList)
        /\ con' = [con EXCEPT ![t] = c0] /\ con \in [Threads -> Conns \cup {None}]
        /\ pc' = [pc EXCEPT ![t] = "use"] /\ pc \in [Threads -> Places]
    BY DEF IndInv, TypeOK, Accounted, Pop, Goto
  <1>2. /\ Distinct(connList')
        /\ \A c : Contains(connList', c) <=> c # c0 /\ Contains(connList, c)
        /\ c0 \in Conns /\ Contains(connList, c0)
    BY <1>1, Popped
  <1>3. Tail(connList) \in Seq(Conns) /\ Len(Tail(connList)) = Len(connList) - 1
    BY <1>1, HeadTailProperties
  <1> HIDE DEF c0
  <1>4. TypeOK'
    BY <1>1, <1>2, <1>3 DEF IndInv, TypeOK, Pop, Places
  <1>5. LockInv'
    BY <1>1, ConnectionPoolAssumption DEF IndInv, LockInv, Pop, Places
  <1>6. HoldInv'
    BY <1>1 DEF IndInv, HoldInv
  <1>7. con[t] = None
    BY DEF IndInv, HoldInv, Pop
  <1>8. Balance'
    <2>1. Holders' = Holders \cup {t} /\ t \notin Holders
      BY <1>1, <1>2, <1>7, ConnectionPoolAssumption DEF Holders
    <2>2. Len(connList) \in Nat
      BY <1>1
    <2> QED
      BY <1>1, <1>3, <2>1, <2>2, HoldersCardinality DEF IndInv, Balance
  <1>9. Accounted'
    <2>1. \A u \in Threads : con[u] # c0
      BY <1>2 DEF IndInv, Accounted
    <2>2. \A u, v \in Threads : con'[u] # None /\ con'[u] = con'[v] => u = v
      BY <1>1, <1>2, <2>1, ConnectionPoolAssumption DEF IndInv, Accounted
    <2>3. \A c \in Conns : (\E u \in Threads : con'[u] = c)
                            <=> c = c0 \/ \E u \in Threads : con[u] = c
      BY <1>1, <1>7, ConnectionPoolAssumption
    <2> QED
      BY <1>2, <2>2, <2>3 DEF IndInv, Accounted
  <1> QED
    BY <1>4, <1>5, <1>6, <1>8, <1>9 DEF IndInv

\* Push moves the thread's connection to the back of the list.
LEMMA StepPush ==
  ASSUME IndInv, NEW t \in Threads, Push(t)
  PROVE  IndInv'
  <1> DEFINE c0 == con[t]
  <1>1. /\ connList \in Seq(Conns)
        /\ Distinct(connList)
        /\ connList' = Append(connList, c0)
        /\ con' = [con EXCEPT ![t] = None] /\ con \in [Threads -> Conns \cup {None}]
        /\ pc' = [pc EXCEPT ![t] = "post"] /\ pc \in [Threads -> Places]
    BY DEF IndInv, TypeOK, Accounted, Push, Goto
  <1>2. c0 \in Conns /\ c0 # None
    <2>1. con[t] # None
      BY DEF IndInv, HoldInv, Push
    <2> QED
      BY <1>1, <2>1
  <1>3. ~Contains(connList, c0)
    BY <1>2 DEF IndInv, Accounted
  <1> HIDE DEF c0
  <1>4. /\ Distinct(connList')
        /\ \A c : Contains(connList', c) <=> c = c0 \/ Contains(connList, c)
    BY <1>1, <1>2, <1>3, Pushed
  <1>5. Len(connList') = Len(connList) + 1 /\ connList' \in Seq(Conns)
    BY <1>1, <1>2, AppendProperties
  <1>6. TypeOK'
    BY <1>1, <1>5 DEF IndInv, TypeOK, Push, Places
  <1>7. LockInv'
    BY <1>1, ConnectionPoolAssumption DEF IndInv, LockInv, Push, Places
  <1>8. HoldInv'
    BY <1>1 DEF IndInv, HoldInv
  <1>9. Balance'
    <2>1. Holders' = Holders \ {t} /\ t \in Holders
      BY <1>1, <1>2 DEF Holders, c0
    <2>2. Len(connList) \in Nat
      BY <1>1
    <2> QED
      BY <1>5, <2>1, <2>2, HoldersCardinality DEF IndInv, Balance
  <1>10. Accounted'
    <2>1. \A u, v \in Threads : con'[u] # None /\ con'[u] = con'[v] => u = v
      BY <1>1 DEF IndInv, Accounted
    <2>2. \A c \in Conns : (\E u \in Threads : con'[u] = c)
                            <=> c # c0 /\ \E u \in Threads : con[u] = c
      BY <1>1, <1>2, ConnectionPoolAssumption DEF IndInv, Accounted, c0
    <2> QED
      BY <1>4, <2>1, <2>2 DEF IndInv, Accounted
  <1> QED
    BY <1>6, <1>7, <1>8, <1>9, <1>10 DEF IndInv

\* All parts together are an invariant of the pool.
THEOREM Invariance == Spec => []IndInv
  <1>1. IndInv /\ UNCHANGED vars => IndInv'
    BY DEF vars, IndInv, TypeOK, LockInv, HoldInv, Accounted, Balance, Holders
  <1>2. IndInv /\ [Next]_vars => IndInv'
    BY <1>1, NextSplit, StepMoveless, StepPop, StepPush
  <1> QED
    BY InitIndInv, <1>2, PTL DEF Spec

\* The types, for any number of threads and connections.
THEOREM TypeCorrect == Spec => []TypeOK
  BY Invariance, PTL DEF IndInv

\* Every connection is free or used by exactly one thread, however many threads
\* there are and however their waits end (sql_connection_pool.cpp:58-90).
THEOREM ConnectionsAccounted == Spec => []Accounted
  BY Invariance, PTL DEF IndInv

----------------------------------------------------------------------------
(* From here on: while no more threads have called at a time than there    *)
(* are connections.                                                        *)

\* The threads between their wait and their post.
Between == {t \in Threads : pc[t] \notin {"idle", "wait"}}

\* There is a connection for every thread inside.
Room == ~crowded => Cardinality(Busy) <= Cardinality(Conns)

\* The semaphore counts the threads that are not in between.
Exact == ~crowded => reserve + Cardinality(Between) = Cardinality(Conns)

EnoughInv == NeverNull /\ NeverAborts /\ Room /\ Exact

\* What a thread entering or leaving does to the number of those in a set.
LEMMA SetCardinality ==
  ASSUME NEW S \in SUBSET Threads
  PROVE  /\ IsFiniteSet(S) /\ Cardinality(S) \in Nat /\ Cardinality(Conns) \in Nat
         /\ \A R \in SUBSET S : Cardinality(R) <= Cardinality(S)
         /\ \A t \in Threads :
               /\ t \notin S => Cardinality(S \cup {t}) = Cardinality(S) + 1
               /\ t \in S => Cardinality(S \ {t}) = Cardinality(S) - 1
  <1>1. IsFiniteSet(S)
    BY FS_Subset, ConnectionPoolAssumption
  <1> QED
    BY <1>1, FS_Subset, FS_CardinalityType, FS_AddElement, FS_RemoveElement,
       ConnectionPoolAssumption

\* A set of busy threads that leaves one out is smaller than the set of
\* connections.
LEMMA OneLess ==
  ASSUME Room, ~crowded, NEW S \in SUBSET Busy, NEW t \in Busy, t \notin S
  PROVE  Cardinality(S) < Cardinality(Conns)
  <1>1. Busy \in SUBSET Threads /\ S \in SUBSET Threads /\ t \in Threads
    BY DEF Busy
  <1>2. Cardinality(S \cup {t}) = Cardinality(S) + 1
    BY <1>1, SetCardinality
  <1>3. Cardinality(S \cup {t}) <= Cardinality(Busy)
    <2>1. S \cup {t} \in SUBSET Busy
      OBVIOUS
    <2> QED
      BY <1>1, <2>1, SetCardinality
  <1>4. Cardinality(S) \in Nat /\ Cardinality(Conns) \in Nat /\ Cardinality(Busy) \in Nat
    BY <1>1, SetCardinality
  <1> QED
    BY <1>2, <1>3, <1>4 DEF Room

\* As long as fewer hold a connection than there are, the list has one.
LEMMA ListNotEmpty ==
  ASSUME IndInv, Cardinality(Holders) < Cardinality(Conns)
  PROVE  connList # <<>>
  <1>1. Cardinality(Holders) \in Nat /\ Cardinality(Conns) \in Nat
    BY HoldersCardinality
  <1>2. Len(connList) # 0
    BY <1>1 DEF IndInv, TypeOK, Balance
  <1> QED
    BY <1>2

\* The holders are in between, and those in between are busy.
LEMMA Nested ==
  ASSUME IndInv
  PROVE  /\ Holders \in SUBSET Between /\ Between \in SUBSET Busy
         /\ Busy \in SUBSET Threads
  BY DEF IndInv, TypeOK, HoldInv, Holders, Between, Busy

\* A call that crowds nobody out finds room.
LEMMA Entered ==
  ASSUME Enter, ~crowded'
  PROVE  Cardinality(Busy) < Cardinality(Conns)
  <1>1. ~(Cardinality(Busy) >= Cardinality(Conns))
    BY Zenon DEF Enter
  <1>2. Cardinality(Busy) \in Nat /\ Cardinality(Conns) \in Nat
    <2>1. Busy \in SUBSET Threads
      BY DEF Busy
    <2> QED
      BY <2>1, SetCardinality
  <1> QED
    BY <1>1, <1>2

\* A thread that calls finds the list not empty, or too many have called.
LEMMA NoneGetNothing ==
  ASSUME IndInv, NEW t \in Threads, GetNothing(t), ~crowded'
  PROVE  FALSE
  <1>1. Cardinality(Busy) \in Nat /\ Cardinality(Holders) \in Nat
        /\ Cardinality(Holders) <= Cardinality(Busy) /\ Cardinality(Conns) \in Nat
    <2>1. Holders \in SUBSET Busy /\ Busy \in SUBSET Threads
      BY Nested
    <2> QED
      BY <2>1, SetCardinality
  <1>2. Cardinality(Busy) < Cardinality(Conns)
    BY Entered DEF GetNothing
  <1> QED
    BY <1>1, <1>2, ListNotEmpty DEF GetNothing

\* A thread inside the pool that holds no connection finds the list not empty.
LEMMA NonePopsEmpty ==
  ASSUME IndInv, Room, ~crowded, NEW t \in Threads, PopEmpty(t)
  PROVE  FALSE
  <1>1. t \in Busy /\ t \notin Holders /\ Holders \in SUBSET Busy
    BY Nested DEF PopEmpty, Busy, Holders, IndInv, HoldInv
  <1> QED
    BY <1>1, OneLess, ListNotEmpty DEF PopEmpty

\* A thread that waits finds the semaphore above zero.
LEMMA NoneInterrupted ==
  ASSUME IndInv, Room, Exact, ~crowded, NEW t \in Threads, WaitInterrupted(t)
  PROVE  FALSE
  <1>1. t \in Busy /\ t \notin Between /\ Between \in SUBSET Busy
    BY Nested DEF WaitInterrupted, Busy, Between
  <1>2. Cardinality(Between) < Cardinality(Conns)
    BY <1>1, OneLess
  <1>3. Cardinality(Between) \in Nat /\ Cardinality(Conns) \in Nat
    BY Nested, SetCardinality
  <1> QED
    BY <1>2, <1>3 DEF WaitInterrupted, Exact, IndInv, TypeOK

\* Only a call makes a thread busy, and it looks for room first.
LEMMA StepRoom ==
  ASSUME IndInv, Room, [Next]_vars, ~crowded'
  PROVE  Room'
  <1>1. IsFiniteSet(Busy) /\ Cardinality(Busy) \in Nat /\ Cardinality(Conns) \in Nat
        /\ Busy \in SUBSET Threads /\ pc \in [Threads -> Places]
    BY Nested, SetCardinality DEF IndInv, TypeOK
  <1>2. CASE UNCHANGED vars
    BY <1>2 DEF vars, Room, Busy
  <1>3. ASSUME NEW t \in Threads, GetNothing(t) \/ GetSome(t)
        PROVE  Room'
    <2>1. Busy' = Busy \cup {t} /\ t \notin Busy
      BY <1>1, <1>3 DEF GetNothing, GetSome, Goto, Busy
    <2>2. Cardinality(Busy') = Cardinality(Busy) + 1
      BY <1>1, <2>1, SetCardinality
    <2>3. Cardinality(Busy) < Cardinality(Conns)
      BY <1>3, Entered DEF GetNothing, GetSome
    <2> QED
      BY <1>1, <2>2, <2>3 DEF Room
  <1>4. ASSUME NEW t \in Threads,
               \/ WaitInterrupted(t) \/ Lock(t) \/ ReleaseNothing(t) \/ Release(t)
               \/ Wait(t) \/ PopEmpty(t) \/ Post(t) \/ Pop(t) \/ Push(t)
        PROVE  Room'
    <2>1. Busy' \in SUBSET Busy /\ crowded' = crowded
      BY <1>1, <1>4 DEF WaitInterrupted, Lock, ReleaseNothing, Release, Wait,
                        PopEmpty, Post, Pop, Push, Goto, Busy
    <2>2. Cardinality(Busy') <= Cardinality(Busy) /\ Cardinality(Busy') \in Nat
      BY <1>1, <2>1, FS_Subset, FS_CardinalityType
    <2> QED
      BY <1>1, <2>1, <2>2 DEF Room
  <1> QED
    BY <1>2, <1>3, <1>4, NextSplit DEF Moveless

\* Every step keeps the count; none returns NULL, none finds the list empty.
LEMMA StepEnough ==
  ASSUME IndInv, EnoughInv, [Next]_vars
  PROVE  EnoughInv'
  <1> DEFINE n == Cardinality(Conns)
  <1>1. CASE crowded'
    BY <1>1 DEF EnoughInv, NeverNull, NeverAborts, Room, Exact
  <1> SUFFICES ASSUME ~crowded' PROVE EnoughInv'
    BY <1>1
  <1>2. ~crowded
    BY NextSplit
    DEF vars, Moveless, GetNothing, GetSome, WaitInterrupted, Lock, ReleaseNothing,
        Release, Wait, PopEmpty, Post, Pop, Push, Enter
  <1>3. /\ n \in Nat /\ reserve \in Nat /\ Cardinality(Between) \in Nat
        /\ reserve + Cardinality(Between) = n
        /\ Between \in SUBSET Threads
        /\ pc \in [Threads -> Places] /\ con \in [Threads -> Conns \cup {None}]
    BY <1>2, Nested, SetCardinality DEF EnoughInv, Exact, IndInv, TypeOK
  <1>4. Room'
    BY StepRoom DEF EnoughInv
  <1>5. SUFFICES NeverNull' /\ NeverAborts' /\ Exact'
    BY <1>4 DEF EnoughInv
  <1>6. CASE UNCHANGED vars
    BY <1>6 DEF vars, EnoughInv, NeverNull, NeverAborts, Exact, Between
  <1>7. ASSUME NEW t \in Threads
        PROVE  ~GetNothing(t) /\ ~ReleaseNothing(t) /\ ~PopEmpty(t) /\ ~WaitInterrupted(t)
    <2>1. ~GetNothing(t) /\ ~PopEmpty(t) /\ ~WaitInterrupted(t)
      BY <1>2, NoneGetNothing, NonePopsEmpty, NoneInterrupted DEF EnoughInv
    <2>2. ~ReleaseNothing(t)
      BY <1>2 DEF ReleaseNothing, EnoughInv, NeverNull
    <2> QED
      BY <2>1, <2>2
  <1>8. ASSUME NEW t \in Threads, GetSome(t) \/ Lock(t) \/ Release(t) \/ Pop(t) \/ Push(t)
        PROVE  NeverNull' /\ NeverAborts' /\ Exact'
    <2>1. Between' = Between /\ reserve' = reserve /\ crashed' = crashed
      BY <1>3, <1>8 DEF GetSome, Lock, Release, Pop, Push, Between, Goto
    <2>2. NeverNull'
      <3>1. CASE GetSome(t) \/ Lock(t) \/ Release(t)
        BY <1>2, <1>3, <3>1
        DEF GetSome, Lock, Release, EnoughInv, NeverNull, Goto, IndInv, HoldInv
      <3>2. CASE Pop(t)
        <4>1. Head(connList) # None
          BY <3>2, ConnectionPoolAssumption DEF Pop, IndInv, TypeOK
        <4> QED
          BY <1>2, <1>3, <3>2, <4>1 DEF Pop, EnoughInv, NeverNull, Goto
      <3>3. CASE Push(t)
        BY <1>2, <1>3, <3>3 DEF Push, EnoughInv, NeverNull, Goto
      <3> QED
        BY <1>8, <3>1, <3>2, <3>3
    <2> QED
      BY <1>2, <2>1, <2>2 DEF EnoughInv, NeverAborts, Exact
  <1>9. ASSUME NEW t \in Threads, Wait(t) PROVE NeverNull' /\ NeverAborts' /\ Exact'
    <2>1. Between' = Between \cup {t} /\ t \notin Between
      BY <1>3, <1>9 DEF Wait, Between, Goto
    <2>2. Cardinality(Between') = Cardinality(Between) + 1
      BY <1>3, <2>1, SetCardinality
    <2>3. reserve' + Cardinality(Between') = n
      BY <1>3, <1>9, <2>2 DEF Wait
    <2> QED
      BY <1>2, <1>3, <1>9, <2>3 DEF Wait, EnoughInv, NeverNull, NeverAborts, Exact, Goto
  <1>10. ASSUME NEW t \in Threads, Post(t) PROVE NeverNull' /\ NeverAborts' /\ Exact'
    <2>1. Between' = Between \ {t} /\ t \in Between
      BY <1>3, <1>10 DEF Post, Between, Goto
    <2>2. Cardinality(Between') = Cardinality(Between) - 1
      BY <1>3, <2>1, SetCardinality
    <2>3. reserve' + Cardinality(Between') = n
      BY <1>3, <1>10, <2>2 DEF Post
    <2> QED
      BY <1>2, <1>3, <1>10, <2>3 DEF Post, EnoughInv, NeverNull, NeverAborts, Exact, Goto
  <1> QED
    BY <1>6, <1>7, <1>8, <1>9, <1>10, NextSplit DEF Moveless

\* Initially nobody is inside.
LEMMA InitEnough == ASSUME Init PROVE EnoughInv
  <1>1. Between = {} /\ Busy = {}
    BY DEF Init, Between, Busy
  <1>2. Cardinality(Between) = 0 /\ Cardinality(Busy) = 0 /\ Cardinality(Conns) \in Nat
    BY <1>1, FS_EmptySet, FS_CardinalityType, ConnectionPoolAssumption
  <1> QED
    BY <1>2 DEF Init, EnoughInv, NeverNull, NeverAborts, Room, Exact

\* The holders are in between, so the list is at least as long as the semaphore.
LEMMA ReserveBounded == ASSUME IndInv, EnoughInv PROVE ReserveCounts
  <1>1. Cardinality(Holders) <= Cardinality(Between) /\ Cardinality(Between) \in Nat
    <2>1. Holders \in SUBSET Between /\ Between \in SUBSET Threads
      BY Nested
    <2> QED
      BY <2>1, SetCardinality
  <1> QED
    BY <1>1, HoldersCardinality
    DEF IndInv, TypeOK, Balance, EnoughInv, Exact, ReserveCounts

LEMMA EnoughInvariance == Spec => []EnoughInv
  <1>1. IndInv /\ EnoughInv /\ [Next]_vars => EnoughInv'
    BY StepEnough
  <1> QED
    BY <1>1, InitEnough, Invariance, PTL DEF Spec

\* While no more threads call than there are connections, no caller gets NULL
\* (sql_connection_pool.cpp:57-66).
THEOREM CallersGetConnections == Spec => []NeverNull
  BY EnoughInvariance, PTL DEF EnoughInv

\* Under the same condition the unchecked pop_front always finds a connection
\* (sql_connection_pool.cpp:69-70).
THEOREM NeverPopsEmpty == Spec => []NeverAborts
  BY EnoughInvariance, PTL DEF EnoughInv

\* Under the same condition the semaphore never promises more than the list
\* holds (sql_connection_pool.cpp:52-73).
THEOREM SemaphoreExact == Spec => []ReserveCounts
  <1>1. IndInv /\ EnoughInv => ReserveCounts
    BY ReserveBounded
  <1> QED
    BY <1>1, EnoughInvariance, Invariance, PTL

\* With at least as many connections as threads (8 and 8 as shipped) the
\* condition holds for good, so that the three theorems hold without it
\* (webserver.h:98, 106).
THEOREM EnoughConnections ==
  ASSUME Cardinality(Threads) <= Cardinality(Conns)
  PROVE  Spec => []~crowded
  <1>1. Init => ~crowded
    BY DEF Init
  <1>2. ASSUME ~crowded, [Next]_vars PROVE ~crowded'
    <2>1. ASSUME NEW t \in Threads, GetNothing(t) \/ GetSome(t)
          PROVE  ~crowded'
      <3>1. Busy \in SUBSET Threads /\ Busy \cup {t} \in SUBSET Threads /\ t \notin Busy
        BY <2>1 DEF Busy, GetNothing, GetSome
      <3>2. Cardinality(Busy \cup {t}) = Cardinality(Busy) + 1 /\ Cardinality(Busy) \in Nat
        BY <3>1, SetCardinality
      <3>3. Cardinality(Busy \cup {t}) <= Cardinality(Threads)
            /\ Cardinality(Threads) \in Nat /\ Cardinality(Conns) \in Nat
        BY <3>1, SetCardinality
      <3> SUFFICES ASSUME crowded' PROVE FALSE
        OBVIOUS
      <3>4. Cardinality(Busy) >= Cardinality(Conns)
        BY <1>2, <2>1, Zenon DEF GetNothing, GetSome, Enter
      <3> QED
        BY <3>2, <3>3, <3>4
    <2> QED
      BY <1>2, <2>1, NextSplit
      DEF vars, Moveless, WaitInterrupted, Lock, ReleaseNothing, Release, Wait,
          PopEmpty, Post, Pop, Push
  <1> QED
    BY <1>1, <1>2, PTL DEF Spec
=============================================================================
