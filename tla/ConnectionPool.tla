---------------------------- MODULE ConnectionPool ---------------------------
(***************************************************************************)
(* The pool of database connections of cgi_mysql/sql_connection_pool.cpp   *)
(* with the Sem and Locker wrappers of lock/locker.h, used by the threads  *)
(* that run jobs: each job holds one connection through a ConnectionRAII.  *)
(*                                                                         *)
(* GetConnection looks at the length of the list without the lock, waits   *)
(* on the semaphore without looking at the result, and then takes the      *)
(* front of the list without looking whether there is one.                 *)
(***************************************************************************)
EXTENDS Naturals, Sequences, FiniteSets

CONSTANTS
    Threads,   \* the threads that use the pool
    Conns,     \* the connections Init opened (MaxConn of them)
    None       \* a NULL connection, no owner of the lock

ASSUME ConnectionPoolAssumption ==
    /\ IsFiniteSet(Threads)
    /\ IsFiniteSet(Conns)
    /\ None \notin Threads \cup Conns

VARIABLES
    connList,   \* the connections that are free
    reserve,    \* value of the semaphore
    lock,       \* the thread that holds the lock, or None
    con,        \* thread -> the connection it holds (conRAII), or None
    pc,         \* thread -> where it stands
    crashed,    \* the process was aborted
    crowded     \* history: a call found as many threads inside as connections

vars == <<connList, reserve, lock, con, pc, crashed, crowded>>

Places == {"idle", "wait", "get_lock", "get", "use", "put_lock", "put", "post"}

TypeOK ==
    /\ connList \in Seq(Conns)
    /\ reserve \in Nat
    /\ lock \in Threads \cup {None}
    /\ con \in [Threads -> Conns \cup {None}]
    /\ pc \in [Threads -> Places]
    /\ crashed \in BOOLEAN
    /\ crowded \in BOOLEAN

\* Slip: one connection fewer is opened than the semaphore counts.
InitOneShort ==
    /\ connList \in {s \in [1 .. Cardinality(Conns) - 1 -> Conns] :
                        \A i, j \in 1 .. Cardinality(Conns) - 1 :
                            s[i] = s[j] => i = j}
    /\ reserve = Cardinality(Conns)
    /\ lock = None
    /\ con = [t \in Threads |-> None]
    /\ pc = [t \in Threads |-> "idle"]
    /\ crashed = FALSE
    /\ crowded = FALSE

\* ConnectionPool::Init pushes MaxConn connections; the read of the user table
\* before the threads start takes one and puts it back, so any order will do.
Init ==
    /\ connList \in {s \in [1 .. Cardinality(Conns) -> Conns] :
                        \A i, j \in 1 .. Cardinality(Conns) :
                            s[i] = s[j] => i = j}
    /\ reserve = Cardinality(Conns)
    /\ lock = None
    /\ con = [t \in Threads |-> None]
    /\ pc = [t \in Threads |-> "idle"]
    /\ crashed = FALSE
    /\ crowded = FALSE

Goto(t, l) == pc' = [pc EXCEPT ![t] = l]

\* The threads inside the pool or with a job that holds a connection.
Busy == {t \in Threads : pc[t] # "idle"}

\* A call is made: is there a connection for one thread more?
Enter == crowded' = (crowded \/ Cardinality(Busy) >= Cardinality(Conns))

----------------------------------------------------------------------------
(* GetConnection, called by the constructor of ConnectionRAII.             *)

\* the list looks empty: return NULL
GetNothing(t) ==
    /\ pc[t] = "idle"
    /\ connList = <<>>
    /\ Goto(t, "use")
    /\ Enter
    /\ UNCHANGED <<connList, reserve, lock, con, crashed>>

GetSome(t) ==
    /\ pc[t] = "idle"
    /\ connList # <<>>
    /\ Goto(t, "wait")
    /\ Enter
    /\ UNCHANGED <<connList, reserve, lock, con, crashed>>

\* Slip: the semaphore is looked at and not taken.
WaitOnly(t) ==
    /\ pc[t] = "wait"
    /\ reserve > 0
    /\ Goto(t, "get_lock")
    /\ UNCHANGED <<connList, reserve, lock, con, crashed, crowded>>

\* reserve.Wait()
Wait(t) ==
    /\ pc[t] = "wait"
    /\ reserve > 0
    /\ reserve' = reserve - 1
    /\ Goto(t, "get_lock")
    /\ UNCHANGED <<connList, lock, con, crashed, crowded>>

\* sem_wait blocks, a signal ends it with EINTR, the result is not looked at
WaitInterrupted(t) ==
    /\ pc[t] = "wait"
    /\ reserve = 0
    /\ Goto(t, "get_lock")
    /\ UNCHANGED <<connList, reserve, lock, con, crashed, crowded>>

Lock(t) ==
    /\ pc[t] \in {"get_lock", "put_lock"}
    /\ lock = None
    /\ lock' = t
    /\ Goto(t, IF pc[t] = "get_lock" THEN "get" ELSE "put")
    /\ UNCHANGED <<connList, reserve, con, crashed, crowded>>

\* Slip: front without pop_front.
PopKeeps(t) ==
    /\ pc[t] = "get"
    /\ connList # <<>>
    /\ con' = [con EXCEPT ![t] = Head(connList)]
    /\ lock' = None
    /\ Goto(t, "use")
    /\ UNCHANGED <<connList, reserve, crashed, crowded>>

\* front, pop_front, Unlock, return
Pop(t) ==
    /\ pc[t] = "get"
    /\ connList # <<>>
    /\ con' = [con EXCEPT ![t] = Head(connList)]
    /\ connList' = Tail(connList)
    /\ lock' = None
    /\ Goto(t, "use")
    /\ UNCHANGED <<reserve, crashed, crowded>>

\* pop_front of an empty list releases the list's own sentinel: the allocator
\* aborts the process
PopEmpty(t) ==
    /\ pc[t] = "get"
    /\ connList = <<>>
    /\ crashed' = TRUE
    /\ UNCHANGED <<connList, reserve, lock, con, pc, crowded>>

----------------------------------------------------------------------------
(* ReleaseConnection, called by the destructor of ConnectionRAII when the  *)
(* job ends.                                                               *)

ReleaseNothing(t) ==
    /\ pc[t] = "use"
    /\ con[t] = None
    /\ Goto(t, "idle")
    /\ UNCHANGED <<connList, reserve, lock, con, crashed, crowded>>

Release(t) ==
    /\ pc[t] = "use"
    /\ con[t] # None
    /\ Goto(t, "put_lock")
    /\ UNCHANGED <<connList, reserve, lock, con, crashed, crowded>>

Push(t) ==
    /\ pc[t] = "put"
    /\ connList' = Append(connList, con[t])
    /\ con' = [con EXCEPT ![t] = None]
    /\ lock' = None
    /\ Goto(t, "post")
    /\ UNCHANGED <<reserve, crashed, crowded>>

\* Slip: the semaphore is not posted.
PostForgotten(t) ==
    /\ pc[t] = "post"
    /\ Goto(t, "idle")
    /\ UNCHANGED <<connList, reserve, lock, con, crashed, crowded>>

\* Slip: the semaphore goes down instead of up.
PostDown(t) ==
    /\ pc[t] = "post"
    /\ reserve' = reserve - 1
    /\ Goto(t, "idle")
    /\ UNCHANGED <<connList, lock, con, crashed, crowded>>

\* reserve.Post()
Post(t) ==
    /\ pc[t] = "post"
    /\ reserve' = reserve + 1
    /\ Goto(t, "idle")
    /\ UNCHANGED <<connList, lock, con, crashed, crowded>>

----------------------------------------------------------------------------
\* The steps a thread takes inside the pool once it has called it.
Inside(t) == Wait(t) \/ Pop(t) \/ PopEmpty(t) \/ Push(t) \/ Post(t)

Next ==
    \/ /\ ~crashed
       /\ \E t \in Threads :
             \/ GetNothing(t) \/ GetSome(t) \/ WaitInterrupted(t) \/ Lock(t)
             \/ ReleaseNothing(t) \/ Release(t) \/ Inside(t)
    \/ crashed /\ UNCHANGED vars

\* Nothing is assumed about how long a job holds its connection: Release is not
\* fair.  A contended lock is won in the end.
Fairness ==
    \A t \in Threads : WF_vars(~crashed /\ Inside(t)) /\ SF_vars(~crashed /\ Lock(t))

Spec == Init /\ [][Next]_vars /\ Fairness

----------------------------------------------------------------------------
Distinct(q) == \A i, j \in DOMAIN q : q[i] = q[j] => i = j

Contains(q, c) == \E i \in DOMAIN q : q[i] = c

\* A connection is used by one thread at a time, is never both free and used,
\* and none is lost, whatever the threads' number and however the waits end
\* (sql_connection_pool.cpp:58-90).
Accounted ==
    /\ Distinct(connList)
    /\ \A t, u \in Threads : con[t] # None /\ con[t] = con[u] => t = u
    /\ \A c \in Conns : (\E t \in Threads : con[t] = c) <=> ~Contains(connList, c)

\* GetConnection returns a connection to every caller while it is never called
\* by more threads at a time than there are connections
\* (sql_connection_pool.cpp:57-66; 8 and 8 as shipped, webserver.h:98, 106).
NeverNull ==
    ~crowded => \A t \in Threads : pc[t] \in {"use", "put_lock", "put"} => con[t] # None

\* Under the same condition pop_front is never called on an empty list
\* (sql_connection_pool.cpp:69-70).
NeverAborts == ~crowded => ~crashed

\* Under the same condition the semaphore never promises a connection that is
\* not in the list (sql_connection_pool.cpp:52).
ReserveCounts == ~crowded => reserve <= Len(connList)

\* A thread that waits for a connection gets it although no other thread ever
\* gives one back, unless too many call (sql_connection_pool.cpp:65-73).
Served == \A t \in Threads : pc[t] = "wait" ~> pc[t] = "use" \/ crowded
=============================================================================
