---------------------------- MODULE SortTimerList ----------------------------
(***************************************************************************)
(* The sorted doubly linked list of timers of timer/list_timer.cpp at the  *)
(* level of its pointers, with the calls of webserver.cpp that set a       *)
(* timer's expiry before they ask for its place in the list.               *)
(*                                                                         *)
(* Only the event loop's thread uses the list.  A loop of the code is a    *)
(* step for each turn, so that one that does not end, or that goes through *)
(* memory already freed, can be seen.  The clock is time(NULL), which may  *)
(* be set back.                                                            *)
(***************************************************************************)
EXTENDS Integers, FiniteSets

CONSTANTS
    Timers,    \* the addresses of Timer objects
    NULL,
    Term,      \* 3 * kTIMESLOT
    MaxTime    \* bound of the clock

ASSUME SortTimerListAssumption ==
    /\ IsFiniteSet(Timers) /\ NULL \notin Timers
    /\ Term \in Nat /\ MaxTime \in Nat

VARIABLES
    head, tail,
    prev, next, expire,   \* of every Timer
    allocated,            \* the Timers that were made and not deleted
    op,      \* "idle", "insert" in the private AddTimer, "tick" in Tick
    timer,   \* the timer that is being inserted, or NULL
    tmp,     \* where AddTimer (its prev) or Tick stands in the list
    cur,     \* the time Tick read when it began
    now,     \* time(NULL)
    setBack  \* history: the clock was set back at some time

links == <<head, tail, prev, next>>
vars  == <<links, expire, allocated, op, timer, tmp, cur, now, setBack>>

Pointer == Timers \cup {NULL}

TypeOK ==
    /\ head \in Pointer /\ tail \in Pointer
    /\ prev \in [Timers -> Pointer] /\ next \in [Timers -> Pointer]
    /\ expire \in [Timers -> Nat]
    /\ allocated \subseteq Timers
    /\ op \in {"idle", "insert", "tick"}
    /\ timer \in Pointer /\ tmp \in Pointer
    /\ cur \in Nat /\ now \in Nat /\ setBack \in BOOLEAN

Init ==
    /\ head = NULL /\ tail = NULL
    /\ prev = [t \in Timers |-> NULL] /\ next = [t \in Timers |-> NULL]
    /\ expire = [t \in Timers |-> 0]
    /\ allocated = {}
    /\ op = "idle" /\ timer = NULL /\ tmp = NULL
    /\ cur = 0 /\ now = 0 /\ setBack = FALSE

----------------------------------------------------------------------------
(* The private AddTimer: the place of a timer behind another one.          *)

\* the call AddTimer(t, from)
InsertAfter(t, from) ==
    /\ op' = "insert"
    /\ timer' = t
    /\ tmp' = from

Return ==
    /\ op' = "idle"
    /\ timer' = NULL
    /\ tmp' = NULL

\* the timer belongs before next[tmp], or is the last
Place ==
    LET after == next[tmp]
    IN  /\ op = "insert"
        /\ after # NULL => expire[timer] < expire[after]
        /\ next' = [next EXCEPT ![tmp] = timer, ![timer] = after]
        /\ prev' = [t \in Timers |-> IF t = timer THEN tmp
                                  ELSE IF t = after THEN timer ELSE prev[t]]
        /\ tail' = IF after = NULL THEN timer ELSE tail
        /\ Return
        /\ UNCHANGED <<head, expire, allocated, cur, now, setBack>>

\* Slip: the walk does not move on.
WalkNot ==
    /\ op = "insert"
    /\ next[tmp] # NULL /\ ~(expire[timer] < expire[next[tmp]])
    /\ UNCHANGED vars

Walk ==
    /\ op = "insert"
    /\ next[tmp] # NULL /\ ~(expire[timer] < expire[next[tmp]])
    /\ tmp' = next[tmp]
    /\ UNCHANGED <<links, expire, allocated, op, timer, cur, now, setBack>>

----------------------------------------------------------------------------
(* AddTimer, as WebServer::AddTimer calls it with a new timer.             *)

\* Slip: the term is taken from the clock instead of added.
AllocateExpired(t) ==
    /\ op = "idle" /\ t \notin allocated
    /\ allocated' = allocated \cup {t}
    /\ expire' = [expire EXCEPT ![t] = now - Term]
    /\ UNCHANGED <<cur, now, setBack>>

Allocate(t) ==
    /\ op = "idle" /\ t \notin allocated
    /\ allocated' = allocated \cup {t}
    /\ expire' = [expire EXCEPT ![t] = now + Term]
    /\ UNCHANGED <<cur, now, setBack>>

AddFirst(t) ==
    /\ Allocate(t)
    /\ head = NULL
    /\ head' = t /\ tail' = t
    /\ prev' = [prev EXCEPT ![t] = NULL] /\ next' = [next EXCEPT ![t] = NULL]
    /\ UNCHANGED <<op, timer, tmp>>

\* before the head: only a clock that was set back leads here
AddBefore(t) ==
    /\ Allocate(t)
    /\ head # NULL /\ now + Term < expire[head]
    /\ next' = [next EXCEPT ![t] = head]
    /\ prev' = [prev EXCEPT ![t] = NULL, ![head] = t]
    /\ head' = t
    /\ UNCHANGED <<tail, op, timer, tmp>>

AddBehind(t) ==
    /\ Allocate(t)
    /\ head # NULL /\ ~(now + Term < expire[head])
    /\ InsertAfter(t, head)
    /\ prev' = [prev EXCEPT ![t] = NULL] /\ next' = [next EXCEPT ![t] = NULL]
    /\ UNCHANGED <<head, tail>>

AddTimer(t) == AddFirst(t) \/ AddBefore(t) \/ AddBehind(t)

----------------------------------------------------------------------------
(* AdjustTimer, as WebServer::DelayTimer calls it with a new expiry.       *)

Delay(t) ==
    /\ op = "idle" /\ t \in allocated
    /\ expire' = [expire EXCEPT ![t] = now + Term]
    /\ UNCHANGED <<allocated, cur, now, setBack>>

\* Slip: the place is looked at with the old expiry.
InPlaceBefore(t) == next[t] # NULL => expire[t] < expire[next[t]]

\* the last, or still before its successor
InPlace(t) == next[t] # NULL => now + Term < expire[next[t]]

AdjustNot(t) ==
    /\ Delay(t)
    /\ InPlace(t)
    /\ UNCHANGED <<links, op, timer, tmp>>

AdjustHead(t) ==
    /\ Delay(t)
    /\ ~InPlace(t) /\ t = head
    /\ head' = next[t]
    /\ prev' = [prev EXCEPT ![next[t]] = NULL]
    /\ next' = [next EXCEPT ![t] = NULL]
    /\ InsertAfter(t, next[t])
    /\ UNCHANGED tail

AdjustInner(t) ==
    /\ Delay(t)
    /\ ~InPlace(t) /\ t # head
    /\ next' = [next EXCEPT ![prev[t]] = next[t]]
    /\ prev' = [prev EXCEPT ![next[t]] = prev[t]]
    /\ InsertAfter(t, next[t])
    /\ UNCHANGED <<head, tail>>

AdjustTimer(t) == AdjustNot(t) \/ AdjustHead(t) \/ AdjustInner(t)

----------------------------------------------------------------------------
(* RemoveTimer, as WebServer::DelTimer calls it.                           *)

Delete(t) == allocated' = allocated \ {t}

Remove(t) ==
    /\ op = "idle" /\ t \in allocated
    /\ Delete(t)
    /\ UNCHANGED <<expire, op, timer, tmp, cur, now, setBack>>

RemoveOnly(t) ==
    /\ Remove(t) /\ t = head /\ t = tail
    /\ head' = NULL /\ tail' = NULL
    /\ UNCHANGED <<prev, next>>

RemoveHead(t) ==
    /\ Remove(t) /\ t = head /\ t # tail
    /\ head' = next[t]
    /\ prev' = [prev EXCEPT ![next[t]] = NULL]
    /\ UNCHANGED <<tail, next>>

\* Slip: the new last timer still points at the deleted one.
RemoveTailStale(t) ==
    /\ Remove(t) /\ t # head /\ t = tail
    /\ tail' = prev[t]
    /\ UNCHANGED <<head, prev, next>>

RemoveTail(t) ==
    /\ Remove(t) /\ t # head /\ t = tail
    /\ tail' = prev[t]
    /\ next' = [next EXCEPT ![prev[t]] = NULL]
    /\ UNCHANGED <<head, prev>>

RemoveInner(t) ==
    /\ Remove(t) /\ t # head /\ t # tail
    /\ next' = [next EXCEPT ![prev[t]] = next[t]]
    /\ prev' = [prev EXCEPT ![next[t]] = prev[t]]
    /\ UNCHANGED <<head, tail>>

RemoveTimer(t) == RemoveOnly(t) \/ RemoveHead(t) \/ RemoveTail(t) \/ RemoveInner(t)

----------------------------------------------------------------------------
(* Tick.                                                                   *)

\* Slip: a timer is not due at the very second of its expiry.
NotYetEqual(t) == cur <= expire[t]

NotYet(t) == cur < expire[t]

TickBegin ==
    /\ op = "idle" /\ op' = "tick"
    /\ tmp' = head
    /\ cur' = now
    /\ UNCHANGED <<links, expire, allocated, timer, now, setBack>>

TickFree ==
    /\ op = "tick" /\ tmp # NULL
    /\ ~NotYet(tmp)
    /\ head' = next[tmp]
    /\ prev' = IF next[tmp] # NULL THEN [prev EXCEPT ![next[tmp]] = NULL] ELSE prev
    /\ Delete(tmp)
    /\ tmp' = next[tmp]
    /\ UNCHANGED <<tail, next, expire, op, timer, cur, now, setBack>>

TickEnd ==
    /\ op = "tick"
    /\ tmp # NULL => NotYet(tmp)
    /\ Return
    /\ cur' = 0
    /\ UNCHANGED <<links, expire, allocated, now, setBack>>

----------------------------------------------------------------------------
Clock ==
    /\ now' \in 0 .. MaxTime
    /\ now' <= now + 1
    /\ setBack' = (setBack \/ now' < now)
    /\ UNCHANGED <<links, expire, allocated, op, timer, tmp, cur>>

Step == Place \/ Walk \/ TickFree \/ TickEnd

Next ==
    \/ \E t \in Timers : AddTimer(t) \/ AdjustTimer(t) \/ RemoveTimer(t)
    \/ TickBegin
    \/ Step
    \/ Clock

\* The event loop's thread goes on once it is in a call.
Spec == Init /\ [][Next]_vars /\ WF_vars(Step)

----------------------------------------------------------------------------
\* The timers in the list: all but the one that is being inserted.
Listed == allocated \ {timer}

Linked ==
    /\ head \in Listed \cup {NULL}
    /\ Listed # {} => tail \in Listed
    /\ \A t \in Listed : next[t] \in Listed \cup {NULL} /\ prev[t] \in Listed \cup {NULL}
    /\ \A t, u \in Listed : next[t] = u <=> prev[u] = t
    /\ \A t \in Listed : (prev[t] = NULL <=> t = head) /\ (next[t] = NULL <=> t = tail)

\* Where the loops of AddTimer and Tick stand.
AtListed ==
    /\ op = "insert" => tmp \in Listed /\ timer \in allocated
    /\ op # "insert" => timer = NULL
    /\ op = "tick" => tmp = head

\* A set of timers that contains with each one its predecessor contains the head:
\* going back from any timer leads to the head.
Connected ==
    \A S \in SUBSET Listed :
        S # {} /\ (\A t \in S : prev[t] # NULL => prev[t] \in S) => head \in S

\* In the middle of every call the list is what a walk needs: next and prev are
\* inverse, no pointer that is followed leads to a deleted timer, the ends are
\* head and tail, and no timer is cut off (list_timer.cpp:38-172).
WellLinked == Linked /\ Connected /\ AtListed

\* The list is sorted by expiry, on which Tick relies when it stops at the first
\* timer that is not due (list_timer.cpp:38-83, 131-135, 150-173), as long as the
\* clock is not set back.
Sorted ==
    ~setBack =>
        \A t \in Listed : next[t] # NULL => expire[t] <= expire[next[t]]

\* Every call comes to its end (list_timer.cpp:131-145, 154-165).
CallsEnd == op # "idle" ~> op = "idle"

TimerSet == INSTANCE TimerSet WITH
    deadline <- [t \in allocated |-> expire[t]],
    ticking  <- op = "tick",
    due      <- IF op = "tick" THEN {t \in allocated : expire[t] <= cur} ELSE {}

\* A tick closes the timers that are due, each once, and none that is not; it
\* leaves none behind unless the clock was set back
\* (list_timer.cpp:38-147; webserver.cpp:442-464).
ImplementsTimerSet == TimerSet!Spec
=============================================================================
