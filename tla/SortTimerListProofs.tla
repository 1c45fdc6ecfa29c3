------------------------- MODULE SortTimerListProofs -------------------------
(***************************************************************************)
(* Proofs about module SortTimerList, for any number of timers, any term   *)
(* and any bound of the clock.                                             *)
(*                                                                         *)
(* Every change of the links takes one timer out of the list or puts one   *)
(* in.  Both keep the list well linked and sorted; the actions are shown   *)
(* to be one or the other.                                                 *)
(***************************************************************************)
EXTENDS SortTimerList, TLAPS

\* What the order of the list rests on: expiries lie at most a term ahead, and
\* the timer that is being inserted belongs behind tmp.
Ahead ==
    ~setBack =>
        /\ \A t \in allocated : expire[t] <= now + Term
        /\ op = "insert" => expire[tmp] <= expire[timer]

IndInv == TypeOK /\ WellLinked /\ Sorted /\ Ahead

----------------------------------------------------------------------------
(* Taking a timer out.                                                     *)

Detach(t) ==
    /\ Listed' = Listed \ {t}
    /\ head' = IF t = head THEN next[t] ELSE head
    /\ t # tail => tail' = tail
    /\ t = tail /\ prev[t] # NULL => tail' = prev[t]
    /\ \A u \in Listed \ {t} :
          /\ next'[u] = IF u = prev[t] THEN next[t] ELSE next[u]
          /\ prev'[u] = IF u = next[t] THEN prev[t] ELSE prev[u]

\* The head without a successor is alone.
LEMMA HeadAlone ==
    ASSUME TypeOK, Linked, Connected, head \in Listed, next[head] = NULL
    PROVE  Listed = {head}
<1> DEFINE S == Listed \ {head}
<1>1. \A t \in S : prev[t] # NULL => prev[t] \in S
  BY SortTimerListAssumption DEF TypeOK, Linked, Listed
<1>2. S \in SUBSET Listed /\ head \notin S
  OBVIOUS
<1>3. S = {}
  BY <1>1, <1>2 DEF Connected
<1> QED
  BY <1>3

\* No timer is its own neighbour.
LEMMA NotItsNeighbour ==
    ASSUME TypeOK, Linked, Connected, NEW t \in Listed
    PROVE  next[t] # t /\ prev[t] # t
<1>1. SUFFICES ASSUME next[t] = t PROVE FALSE
  BY DEF Linked
<1>2. \A u \in {t} : prev[u] # NULL => prev[u] \in {t}
  BY <1>1 DEF Linked
<1>3. head = t
  BY <1>2 DEF Connected
<1>4. prev[t] = NULL
  BY <1>3 DEF Linked
<1> QED
  BY <1>1, <1>4, SortTimerListAssumption DEF TypeOK, Linked, Listed

LEMMA DetachLinked ==
    ASSUME TypeOK, Linked, Connected, NEW t \in Listed, Detach(t)
    PROVE  Linked'
<1> DEFINE L == Listed \ {t}
<1>1. /\ NULL \notin Listed /\ t # NULL
      /\ Listed' = L
  BY SortTimerListAssumption DEF TypeOK, Listed, Detach
<1>2. next[t] # t /\ prev[t] # t
  BY NotItsNeighbour
<1>3. head' \in L \cup {NULL}
  BY <1>1, <1>2 DEF Linked, Detach
<1>4. L # {} => tail' \in L
  <2>1. CASE t # tail
    BY <2>1 DEF Linked, Detach
  <2>2. CASE t = tail /\ prev[t] # NULL
    BY <1>1, <1>2, <2>2 DEF Linked, Detach
  <2>3. CASE t = tail /\ prev[t] = NULL
    <3>1. t = head /\ next[t] = NULL
      BY <2>3 DEF Linked
    <3> QED
      BY <3>1, HeadAlone
  <2> QED
    BY <2>1, <2>2, <2>3
<1>5. \A u \in L : next'[u] \in L \cup {NULL} /\ prev'[u] \in L \cup {NULL}
  BY <1>1, <1>2 DEF Linked, Detach
<1>6. \A u, v \in L : next'[u] = v <=> prev'[v] = u
  BY <1>1, <1>2 DEF Linked, Detach
<1>7. \A u \in L : prev'[u] = NULL <=> u = head'
  BY <1>1, <1>2 DEF Linked, Detach
<1>8. \A u \in L : next'[u] = NULL <=> u = tail'
  <2> TAKE u \in L
  <2>1. next[u] = NULL <=> u = tail
    BY DEF Linked
  <2>2. next[t] = NULL <=> t = tail
    BY DEF Linked
  <2>3. CASE u = prev[t]
    <3>1. next'[u] = next[t] /\ next[u] = t
      BY <2>3 DEF Linked, Detach
    <3>2. CASE t = tail
      BY <1>1, <2>2, <2>3, <3>1, <3>2 DEF Detach
    <3>3. CASE t # tail
      BY <1>1, <2>1, <2>2, <3>1, <3>3 DEF Detach
    <3> QED
      BY <3>2, <3>3
  <2>4. CASE u # prev[t]
    <3>1. next'[u] = next[u] /\ next[u] # t
      BY <2>4 DEF Linked, Detach
    <3>2. CASE t = tail
      <4>1. u # tail /\ (prev[t] # NULL => u # tail')
        BY <2>4, <3>2 DEF Detach
      <4>2. prev[t] # NULL
        <5>1. SUFFICES ASSUME prev[t] = NULL PROVE FALSE
          OBVIOUS
        <5>2. t = head /\ next[t] = NULL
          BY <2>2, <3>2, <5>1 DEF Linked
        <5> QED
          BY <5>2, HeadAlone
      <4> QED
        BY <2>1, <3>1, <4>1, <4>2
    <3>3. CASE t # tail
      BY <2>1, <3>1, <3>3 DEF Detach
    <3> QED
      BY <3>2, <3>3
  <2> QED
    BY <2>3, <2>4
<1> QED
  BY <1>1, <1>3, <1>4, <1>5, <1>6, <1>7, <1>8 DEF Linked

LEMMA DetachConnected ==
    ASSUME TypeOK, Linked, Connected, NEW t \in Listed, Detach(t)
    PROVE  Connected'
<1> SUFFICES ASSUME NEW S \in SUBSET Listed', S # {},
                    \A u \in S : prev'[u] # NULL => prev'[u] \in S
             PROVE  head' \in S
  BY DEF Connected
<1>1. /\ NULL \notin Listed /\ t # NULL
      /\ S \in SUBSET Listed /\ t \notin S
  BY SortTimerListAssumption DEF TypeOK, Listed, Detach
<1> DEFINE R == S \cup {u \in {t} : next[t] \in S}
<1>2. \A u \in R : prev[u] # NULL => prev[u] \in R
  <2> TAKE u \in R
  <2>1. CASE u = t
    <3>1. next[t] \in S /\ prev'[next[t]] = prev[t]
      BY <1>1, <2>1 DEF Detach
    <3> QED
      BY <2>1, <3>1
  <2>2. CASE u # t /\ u = next[t]
    BY <1>1, <2>2 DEF Linked
  <2>3. CASE u # t /\ u # next[t]
    BY <1>1, <2>3 DEF Detach
  <2> QED
    BY <2>1, <2>2, <2>3
<1>3. R \in SUBSET Listed /\ R # {}
  BY <1>1
<1>4. head \in R
  BY <1>2, <1>3 DEF Connected
<1> QED
  BY <1>1, <1>4 DEF Detach

LEMMA DetachSorted ==
    ASSUME TypeOK, Linked, Sorted, NEW t \in Listed, Detach(t),
           setBack' = setBack,
           \A u \in Listed \ {t} : expire'[u] = expire[u]
    PROVE  Sorted'
<1> SUFFICES ASSUME ~setBack, NEW u \in Listed \ {t}, next'[u] # NULL
             PROVE  expire'[u] <= expire'[next'[u]]
  BY DEF Sorted, Detach
<1>1. NULL \notin Listed /\ Listed \in SUBSET Timers
  BY SortTimerListAssumption DEF TypeOK, Listed
<1>2. \A v \in Listed : expire[v] \in Nat
  BY <1>1 DEF TypeOK
<1>3. CASE u = prev[t]
  <2>1. next'[u] = next[t] /\ next[u] = t /\ next[t] \in Listed
    BY <1>1, <1>3 DEF Linked, Detach
  <2>2. next[t] # t
    BY <1>1, <1>3 DEF Linked
  <2>3. expire[u] <= expire[t] /\ expire[t] <= expire[next[t]]
    BY <1>1, <2>1 DEF Sorted
  <2> QED
    BY <1>2, <2>1, <2>2, <2>3
<1>4. CASE u # prev[t]
  <2>1. next'[u] = next[u] /\ next[u] \in Listed \ {t}
    BY <1>1, <1>4 DEF Linked, Detach
  <2> QED
    BY <1>1, <2>1 DEF Sorted
<1> QED
  BY <1>3, <1>4

----------------------------------------------------------------------------
(* Putting a timer in, behind p or, when p is NULL, at the head.           *)

After(p) == IF p = NULL THEN head ELSE next[p]

Attach(t, p) ==
    /\ Listed' = Listed \cup {t}
    /\ head' = IF p = NULL THEN t ELSE head
    /\ tail' = IF After(p) = NULL THEN t ELSE tail
    /\ next'[t] = After(p) /\ prev'[t] = p
    /\ \A u \in Listed :
          /\ next'[u] = IF u = p THEN t ELSE next[u]
          /\ prev'[u] = IF u = After(p) THEN t ELSE prev[u]

\* A list without a head is empty.
LEMMA NoHead ==
    ASSUME Linked, Connected, head \notin Listed
    PROVE  Listed = {}
<1> SUFFICES ASSUME Listed # {} PROVE FALSE
  OBVIOUS
<1>1. ~(\A u \in Listed : prev[u] # NULL => prev[u] \in Listed)
  BY DEF Connected
<1> QED
  BY <1>1 DEF Linked

LEMMA AttachLinked ==
    ASSUME TypeOK, Linked, Connected, NEW t \in Timers \ Listed,
           NEW p \in Listed \cup {NULL}, Attach(t, p)
    PROVE  Linked'
<1> DEFINE L == Listed \cup {t}
<1> DEFINE a == After(p)
<1>1. /\ NULL \notin Listed /\ t # NULL /\ t \notin Listed
      /\ Listed' = L
  BY SortTimerListAssumption DEF TypeOK, Listed, Attach
<1>2. a \in Listed \cup {NULL}
  BY DEF Linked, After
<1>3. a # NULL => prev[a] = p
  BY <1>1 DEF Linked, After
<1>4. p = NULL => (a = NULL <=> Listed = {})
  BY <1>1, NoHead DEF Linked, After
<1>5. \A u \in Listed : u # p => next[u] # a \/ a = NULL
  BY <1>1, <1>2, <1>3 DEF Linked
<1>6. \A u \in Listed : next[u] = NULL /\ u # p => a # NULL
  <2> SUFFICES ASSUME NEW u \in Listed, next[u] = NULL, u # p, a = NULL PROVE FALSE
    OBVIOUS
  <2>1. p # NULL
    BY <1>4
  <2>2. u = tail /\ p = tail
    BY <2>1 DEF Linked, After
  <2> QED
    BY <2>2
<1>7. head' \in L \cup {NULL} /\ tail' \in L
  BY <1>1, <1>2, <1>4 DEF Linked, Attach, After
<1>8. \A u \in L : next'[u] \in L \cup {NULL} /\ prev'[u] \in L \cup {NULL}
  BY <1>1, <1>2 DEF Linked, Attach
<1>9. \A u, v \in L : next'[u] = v <=> prev'[v] = u
  <2> TAKE u, v \in L
  <2>1. CASE u = t /\ v = t
    BY <1>1, <1>2, <2>1 DEF Attach
  <2>2. CASE u = t /\ v # t
    BY <1>1, <1>2, <2>2 DEF Linked, Attach
  <2>3. CASE u # t /\ v = t
    BY <1>1, <1>2, <2>3 DEF Linked, Attach
  <2>4. CASE u # t /\ v # t
    <3>1. next[u] = v <=> prev[v] = u
      BY <2>4 DEF Linked
    <3>2. CASE u = p
      <4>1. next'[u] = t /\ After(p) = next[u]
        BY <1>1, <2>4, <3>2 DEF Attach, After
      <4> QED
        BY <1>1, <2>4, <3>1, <4>1 DEF Attach
    <3>3. CASE u # p /\ v = a
      <4>1. next'[u] = next[u] /\ prev'[v] = t
        BY <2>4, <3>3 DEF Attach
      <4> QED
        BY <1>1, <1>5, <2>4, <3>3, <4>1
    <3>4. CASE u # p /\ v # a
      BY <2>4, <3>1, <3>4 DEF Attach
    <3> QED
      BY <3>2, <3>3, <3>4
  <2> QED
    BY <2>1, <2>2, <2>3, <2>4
<1>10. \A u \in L : prev'[u] = NULL <=> u = head'
  BY <1>1, <1>2, <1>3 DEF Linked, Attach, After
<1>11. \A u \in L : next'[u] = NULL <=> u = tail'
  <2> TAKE u \in L
  <2>1. CASE u = t
    <3>1. a # NULL => t # tail
      BY <1>1, <1>2 DEF Linked
    <3> QED
      BY <2>1, <3>1 DEF Attach
  <2>2. CASE u # t /\ u = p
    BY <1>1, <2>2 DEF Linked, Attach, After
  <2>3. CASE u # t /\ u # p
    <3>1. next'[u] = next[u] /\ (next[u] = NULL <=> u = tail)
      BY <2>3 DEF Linked, Attach
    <3>2. CASE a = NULL
      BY <1>6, <2>3, <3>1, <3>2 DEF Attach
    <3>3. CASE a # NULL
      BY <3>1, <3>3 DEF Attach
    <3> QED
      BY <3>2, <3>3
  <2> QED
    BY <2>1, <2>2, <2>3
<1> HIDE DEF a
<1> QED
  BY <1>1, <1>7, <1>8, <1>9, <1>10, <1>11 DEF Linked

LEMMA AttachConnected ==
    ASSUME TypeOK, Linked, Connected, NEW t \in Timers \ Listed,
           NEW p \in Listed \cup {NULL}, Attach(t, p)
    PROVE  Connected'
<1> SUFFICES ASSUME NEW S \in SUBSET Listed', S # {},
                    \A u \in S : prev'[u] # NULL => prev'[u] \in S
             PROVE  head' \in S
  BY DEF Connected
<1>1. /\ NULL \notin Listed /\ t # NULL /\ t \notin Listed
      /\ S \ {t} \in SUBSET Listed
  BY SortTimerListAssumption DEF TypeOK, Listed, Attach
<1>2. CASE t \notin S
  <2>1. \A u \in S : prev'[u] = prev[u]
    BY <1>1, <1>2 DEF Attach
  <2>2. head \in S
    BY <1>1, <1>2, <2>1 DEF Connected
  <2>3. p # NULL
    BY <1>1, <1>2, <2>2 DEF Attach, After
  <2> QED
    BY <2>2, <2>3 DEF Attach
<1>3. CASE t \in S /\ p = NULL
  BY <1>3 DEF Attach
<1>4. CASE t \in S /\ p # NULL
  <2>1. p \in S \ {t}
    BY <1>1, <1>4 DEF Attach
  <2>2. \A u \in S \ {t} : prev[u] # NULL => prev[u] \in S \ {t}
    <3> TAKE u \in S \ {t}
    <3>1. CASE u = next[p]
      <4>1. prev[u] = p
        BY <1>1, <1>4, <3>1 DEF Linked
      <4> QED
        BY <2>1, <4>1
    <3>2. CASE u # next[p]
      <4>1. prev'[u] = prev[u]
        BY <1>1, <1>4, <3>2 DEF Attach, After
      <4> QED
        BY <1>1, <4>1 DEF Linked
    <3> QED
      BY <3>1, <3>2
  <2>3. head \in S \ {t}
    BY <1>1, <2>1, <2>2 DEF Connected
  <2> QED
    BY <1>4, <2>3 DEF Attach
<1> QED
  BY <1>2, <1>3, <1>4

LEMMA AttachSorted ==
    ASSUME TypeOK, Linked, Sorted, NEW t \in Timers \ Listed,
           NEW p \in Listed \cup {NULL}, Attach(t, p),
           setBack' = setBack,
           \A u \in Listed : expire'[u] = expire[u],
           ~setBack => /\ p # NULL => expire[p] <= expire'[t]
                       /\ After(p) # NULL => expire'[t] <= expire[After(p)]
    PROVE  Sorted'
<1> SUFFICES ASSUME ~setBack, NEW u \in Listed \cup {t}, next'[u] # NULL
             PROVE  expire'[u] <= expire'[next'[u]]
  BY DEF Sorted, Attach
<1>1. After(p) # NULL => After(p) \in Listed
  BY DEF Linked, After
<1>2. CASE u = t
  BY <1>1, <1>2 DEF Attach
<1>3. CASE u # t /\ u = p
  <2>1. p # NULL
    BY <1>3, SortTimerListAssumption DEF TypeOK, Listed
  <2> QED
    BY <1>3, <2>1 DEF Attach
<1>4. CASE u # t /\ u # p
  <2>1. next'[u] = next[u] /\ next[u] \in Listed
    BY <1>4 DEF Linked, Attach
  <2> QED
    BY <1>4, <2>1 DEF Sorted
<1> QED
  BY <1>2, <1>3, <1>4

----------------------------------------------------------------------------
(* The actions.                                                            *)

List == Linked /\ Connected /\ Sorted

LEMMA ListedWhenIdle ==
    ASSUME TypeOK, AtListed, op # "insert"
    PROVE  Listed = allocated /\ timer = NULL
  BY SortTimerListAssumption DEF TypeOK, AtListed, Listed

LEMMA DetachKeepsList ==
    ASSUME TypeOK, List, NEW t \in Listed, Detach(t),
           setBack' = setBack,
           \A u \in Listed \ {t} : expire'[u] = expire[u]
    PROVE  List'
  BY DetachLinked, DetachConnected, DetachSorted DEF List

LEMMA AdjustHeadStep ==
    ASSUME IndInv, NEW t \in Timers, AdjustHead(t)
    PROVE  List' /\ AtListed' /\ Ahead'
<1>1. /\ t \in Listed /\ Listed = allocated /\ NULL \notin Listed /\ Listed \in SUBSET Timers
      /\ next[t] \in Listed /\ prev[t] = NULL /\ t = head /\ next[t] # t /\ t # tail
  BY SortTimerListAssumption, ListedWhenIdle
     DEF IndInv, WellLinked, Linked, TypeOK, AdjustHead, Delay, InPlace
<1>2. Listed' = Listed \ {t}
  BY <1>1 DEF AdjustHead, Delay, InsertAfter, Listed
<1>3. Detach(t)
  BY <1>1, <1>2 DEF AdjustHead, Detach, IndInv, TypeOK
<1>4. setBack' = setBack /\ \A u \in Listed \ {t} : expire'[u] = expire[u]
  BY <1>1 DEF AdjustHead, Delay, IndInv, TypeOK
<1>5. List'
  BY <1>1, <1>3, <1>4, DetachKeepsList DEF IndInv, WellLinked, List
<1>6. AtListed'
  BY <1>1, <1>2 DEF AdjustHead, Delay, InsertAfter, AtListed
<1>7. Ahead'
  BY <1>1, <1>4, SortTimerListAssumption
     DEF AdjustHead, Delay, InPlace, InsertAfter, Ahead, IndInv, TypeOK
<1> QED
  BY <1>5, <1>6, <1>7

LEMMA AdjustInnerStep ==
    ASSUME IndInv, NEW t \in Timers, AdjustInner(t)
    PROVE  List' /\ AtListed' /\ Ahead'
<1>1. /\ t \in Listed /\ Listed = allocated /\ NULL \notin Listed /\ Listed \in SUBSET Timers
      /\ next[t] \in Listed /\ prev[t] \in Listed /\ t # head /\ t # tail
  BY SortTimerListAssumption, ListedWhenIdle
     DEF IndInv, WellLinked, Linked, TypeOK, AdjustInner, Delay, InPlace
<1>2. next[t] # t
  BY <1>1, NotItsNeighbour DEF IndInv, WellLinked
<1>3. Listed' = Listed \ {t}
  BY <1>1 DEF AdjustInner, Delay, InsertAfter, Listed
<1>4. Detach(t)
  BY <1>1, <1>2, <1>3 DEF AdjustInner, Detach, IndInv, TypeOK
<1>5. setBack' = setBack /\ \A u \in Listed \ {t} : expire'[u] = expire[u]
  BY <1>1 DEF AdjustInner, Delay, IndInv, TypeOK
<1>6. List'
  BY <1>1, <1>4, <1>5, DetachKeepsList DEF IndInv, WellLinked, List
<1>7. AtListed'
  BY <1>1, <1>2, <1>3 DEF AdjustInner, Delay, InsertAfter, AtListed
<1>8. Ahead'
  BY <1>1, <1>2, <1>5, SortTimerListAssumption
     DEF AdjustInner, Delay, InPlace, InsertAfter, Ahead, IndInv, TypeOK
<1> QED
  BY <1>6, <1>7, <1>8

LEMMA RemoveStep ==
    ASSUME IndInv, NEW t \in Timers, RemoveTimer(t)
    PROVE  List' /\ AtListed' /\ Ahead'
<1>1. Remove(t)
  BY DEF RemoveTimer, RemoveOnly, RemoveHead, RemoveTail, RemoveInner
<1>2. /\ t \in Listed /\ Listed = allocated /\ NULL \notin Listed /\ Listed \in SUBSET Timers
      /\ timer = NULL
  BY <1>1, SortTimerListAssumption, ListedWhenIdle DEF IndInv, WellLinked, TypeOK, Remove
<1>3. /\ next[t] # t /\ prev[t] # t
      /\ (prev[t] = NULL <=> t = head) /\ (next[t] = NULL <=> t = tail)
      /\ next[t] \in Listed \cup {NULL} /\ prev[t] \in Listed \cup {NULL}
  BY <1>2, NotItsNeighbour DEF IndInv, WellLinked, Linked
<1>4. Listed' = Listed \ {t}
  BY <1>1, <1>2 DEF Remove, Delete, Listed
<1>5. Detach(t)
  <2>1. CASE RemoveOnly(t)
    <3>1. Listed = {t}
      BY <1>2, <1>3, <2>1, HeadAlone DEF RemoveOnly, IndInv, WellLinked
    <3> QED
      BY <1>3, <1>4, <2>1, <3>1 DEF RemoveOnly, Detach
  <2>2. CASE RemoveHead(t)
    BY <1>2, <1>3, <1>4, <2>2 DEF RemoveHead, Detach, IndInv, TypeOK
  <2>3. CASE RemoveTail(t)
    BY <1>2, <1>3, <1>4, <2>3 DEF RemoveTail, Detach, IndInv, TypeOK
  <2>4. CASE RemoveInner(t)
    BY <1>2, <1>3, <1>4, <2>4 DEF RemoveInner, Detach, IndInv, TypeOK
  <2> QED
    BY <2>1, <2>2, <2>3, <2>4 DEF RemoveTimer
<1>6. List'
  BY <1>1, <1>2, <1>5, DetachKeepsList DEF Remove, IndInv, WellLinked, List
<1>7. AtListed' /\ Ahead'
  BY <1>1 DEF Remove, Delete, AtListed, Ahead, IndInv, WellLinked
<1> QED
  BY <1>6, <1>7

LEMMA TickFreeStep ==
    ASSUME IndInv, TickFree
    PROVE  List' /\ AtListed' /\ Ahead'
<1>1. /\ tmp = head /\ Listed = allocated /\ NULL \notin Listed /\ Listed \in SUBSET Timers
      /\ timer = NULL /\ tmp \in Listed
  BY SortTimerListAssumption, ListedWhenIdle
     DEF IndInv, WellLinked, Linked, AtListed, TypeOK, TickFree
<1>2. /\ next[tmp] # tmp /\ prev[tmp] = NULL
      /\ next[tmp] \in Listed \cup {NULL}
  BY <1>1, NotItsNeighbour DEF IndInv, WellLinked, Linked
<1>3. Listed' = Listed \ {tmp}
  BY <1>1 DEF TickFree, Delete, Listed
<1>4. Detach(tmp)
  BY <1>1, <1>2, <1>3 DEF TickFree, Detach, IndInv, TypeOK
<1>5. List'
  BY <1>1, <1>4, DetachKeepsList DEF TickFree, IndInv, WellLinked, List
<1>6. AtListed' /\ Ahead'
  BY <1>1 DEF TickFree, Delete, AtListed, Ahead, IndInv, WellLinked
<1> QED
  BY <1>5, <1>6

LEMMA PlaceStep ==
    ASSUME IndInv, Place
    PROVE  List' /\ AtListed' /\ Ahead'
<1>1. /\ NULL \notin Listed /\ Listed \in SUBSET Timers
      /\ tmp \in Listed /\ timer \in Timers \ Listed /\ timer \in allocated
  BY SortTimerListAssumption DEF IndInv, WellLinked, AtListed, TypeOK, Place, Listed
<1>2. After(tmp) = next[tmp] /\ next[tmp] \in Listed \cup {NULL}
  BY <1>1 DEF After, IndInv, WellLinked, Linked
<1>3. timer' = NULL /\ Listed' = Listed \cup {timer}
  BY <1>1, SortTimerListAssumption DEF Place, Return, Listed, IndInv, TypeOK
<1>4. Attach(timer, tmp)
  <2>1. head' = head /\ tail' = IF next[tmp] = NULL THEN timer ELSE tail
    BY DEF Place
  <2>2. /\ next' = [next EXCEPT ![tmp] = timer, ![timer] = next[tmp]]
        /\ prev' = [u \in Timers |-> IF u = timer THEN tmp
                                     ELSE IF u = next[tmp] THEN timer ELSE prev[u]]
    BY DEF Place
  <2>3. next'[timer] = next[tmp] /\ prev'[timer] = tmp
    BY <1>1, <2>2 DEF IndInv, TypeOK
  <2>4. ASSUME NEW u \in Listed
        PROVE  /\ next'[u] = IF u = tmp THEN timer ELSE next[u]
               /\ prev'[u] = IF u = next[tmp] THEN timer ELSE prev[u]
    BY <1>1, <2>2 DEF IndInv, TypeOK
  <2> QED
    BY <1>1, <1>2, <1>3, <2>1, <2>3, <2>4 DEF Attach
<1>5. /\ setBack' = setBack /\ expire' = expire
      /\ ~setBack => expire[tmp] <= expire[timer]
      /\ next[tmp] # NULL => expire[timer] <= expire[next[tmp]]
  <2>1. next[tmp] # NULL => next[tmp] \in Timers
    BY <1>1, <1>2
  <2> QED
    BY <1>1, <2>1 DEF Place, IndInv, Ahead, TypeOK
<1>6. Sorted'
  BY <1>1, <1>2, <1>4, <1>5, AttachSorted DEF IndInv, WellLinked
<1>7. Linked' /\ Connected'
  BY <1>1, <1>4, AttachLinked, AttachConnected DEF IndInv, WellLinked
<1>8. AtListed' /\ Ahead'
  BY <1>1, <1>3 DEF Place, Return, AtListed, Ahead, IndInv
<1> QED
  BY <1>6, <1>7, <1>8 DEF List

LEMMA AddFrontStep ==
    ASSUME IndInv, NEW t \in Timers, AddFirst(t) \/ AddBefore(t)
    PROVE  List' /\ AtListed' /\ Ahead'
<1>1. Allocate(t) /\ UNCHANGED <<op, timer, tmp>>
  BY DEF AddFirst, AddBefore
<1>2. /\ NULL \notin Listed /\ Listed \in SUBSET Timers /\ Listed = allocated
      /\ t \in Timers \ Listed /\ timer = NULL
  BY <1>1, ListedWhenIdle, SortTimerListAssumption
     DEF IndInv, WellLinked, TypeOK, Allocate
<1>3. Listed' = Listed \cup {t}
  BY <1>1, <1>2, SortTimerListAssumption DEF Allocate, Listed
<1>4. After(NULL) = head /\ head \in Listed \cup {NULL}
  BY DEF After, IndInv, WellLinked, Linked
<1>5. Attach(t, NULL)
  <2>1. CASE AddFirst(t)
    <3>1. Listed = {}
      BY <1>2, <2>1, NoHead DEF AddFirst, IndInv, WellLinked
    <3> QED
      BY <1>2, <1>3, <1>4, <2>1, <3>1 DEF AddFirst, Attach, IndInv, TypeOK
  <2>2. CASE AddBefore(t)
    BY <1>2, <1>3, <1>4, <2>2 DEF AddBefore, Attach, IndInv, TypeOK
  <2> QED
    BY <2>1, <2>2
<1>6. /\ setBack' = setBack /\ now' = now
      /\ \A u \in Timers \ {t} : expire'[u] = expire[u]
      /\ expire'[t] = now + Term
  BY <1>1 DEF Allocate, IndInv, TypeOK
<1>7. head # NULL => expire'[t] <= expire[head]
  BY <1>2, <1>4, <1>6, SortTimerListAssumption DEF AddFirst, AddBefore, IndInv, TypeOK
<1>8. Sorted'
  BY <1>2, <1>4, <1>5, <1>6, <1>7, AttachSorted DEF IndInv, WellLinked
<1>9. Linked' /\ Connected'
  BY <1>2, <1>5, AttachLinked, AttachConnected DEF IndInv, WellLinked
<1>10. AtListed' /\ Ahead'
  BY <1>1, <1>2, <1>6, SortTimerListAssumption
     DEF Allocate, AtListed, Ahead, IndInv, TypeOK
<1> QED
  BY <1>8, <1>9, <1>10 DEF List

\* Links and expiries of the listed timers stay as they are.
LEMMA ListKept ==
    ASSUME TypeOK, List,
           Listed' = Listed, UNCHANGED <<head, tail>>,
           \A u \in Listed : /\ next'[u] = next[u] /\ prev'[u] = prev[u]
                             /\ expire'[u] = expire[u],
           setBack => setBack'
    PROVE  List'
<1>1. Linked'
  BY DEF List, Linked
<1>2. Connected'
  <2> SUFFICES ASSUME NEW S \in SUBSET Listed, S # {},
                      \A u \in S : prev'[u] # NULL => prev'[u] \in S
               PROVE  head \in S
    BY DEF Connected
  <2>1. \A u \in S : prev[u] # NULL => prev[u] \in S
    OBVIOUS
  <2> QED
    BY <2>1 DEF List, Connected
<1>3. Sorted'
  BY DEF List, Linked, Sorted
<1> QED
  BY <1>1, <1>2, <1>3 DEF List

LEMMA AddBehindStep ==
    ASSUME IndInv, NEW t \in Timers, AddBehind(t)
    PROVE  List' /\ AtListed' /\ Ahead'
<1>1. /\ Listed = allocated /\ t \notin allocated /\ timer' = t /\ tmp' = head
      /\ head \in Listed /\ Listed \in SUBSET Timers /\ op' = "insert"
      /\ allocated' = allocated \cup {t}
  BY ListedWhenIdle DEF IndInv, WellLinked, Linked, TypeOK, AddBehind, Allocate, InsertAfter
<1>2. Listed' = Listed
  BY <1>1 DEF Listed
<1>3. /\ \A u \in Listed : next'[u] = next[u] /\ prev'[u] = prev[u] /\ expire'[u] = expire[u]
      /\ expire'[t] = now + Term
      /\ UNCHANGED <<head, tail, now, setBack>>
  BY <1>1 DEF AddBehind, Allocate, IndInv, TypeOK
<1>4. List'
  BY <1>2, <1>3, ListKept DEF IndInv, WellLinked, List
<1>5. AtListed'
  BY <1>1, <1>2 DEF AtListed
<1>6. Ahead'
  BY <1>1, <1>3, SortTimerListAssumption DEF Ahead, AddBehind, IndInv, TypeOK
<1> QED
  BY <1>4, <1>5, <1>6

LEMMA AdjustNotStep ==
    ASSUME IndInv, NEW t \in Timers, AdjustNot(t)
    PROVE  List' /\ AtListed' /\ Ahead'
<1>1. /\ Listed = allocated /\ t \in Listed /\ Listed \in SUBSET Timers /\ Listed' = Listed
      /\ NULL \notin Listed /\ timer = NULL
  BY ListedWhenIdle, SortTimerListAssumption
     DEF IndInv, WellLinked, TypeOK, AdjustNot, Delay, Listed
<1>2. /\ \A u \in Timers \ {t} : expire'[u] = expire[u]
      /\ expire'[t] = now + Term
      /\ UNCHANGED <<links, now, setBack, op, timer, tmp, allocated>>
  BY DEF AdjustNot, Delay, IndInv, TypeOK
<1>3. Linked' /\ Connected' /\ AtListed'
  BY <1>1, <1>2 DEF links, Linked, Connected, AtListed, IndInv, WellLinked
<1>4. Sorted'
  <2> SUFFICES ASSUME ~setBack, NEW u \in Listed, next[u] # NULL
               PROVE  expire'[u] <= expire'[next[u]]
    BY <1>1, <1>2 DEF links, Sorted
  <2>1. next[u] \in Listed /\ next[u] # u /\ expire[u] <= expire[next[u]]
    BY NotItsNeighbour DEF IndInv, WellLinked, Linked, Sorted
  <2>2. expire[u] \in Nat /\ expire[next[u]] \in Nat /\ now + Term \in Nat
    BY <1>1, <2>1, SortTimerListAssumption DEF IndInv, TypeOK
  <2>3. CASE u = t
    BY <1>1, <1>2, <2>1, <2>2, <2>3 DEF AdjustNot, InPlace
  <2>4. CASE next[u] = t
    <3>1. expire[next[u]] <= now + Term
      BY <1>1, <2>1 DEF IndInv, Ahead
    <3> QED
      BY <1>1, <1>2, <2>1, <2>2, <2>4, <3>1
  <2>5. CASE u # t /\ next[u] # t
    BY <1>1, <1>2, <2>1, <2>5
  <2> QED
    BY <2>3, <2>4, <2>5
<1>5. Ahead'
  BY <1>1, <1>2, SortTimerListAssumption DEF AdjustNot, Delay, Ahead, IndInv, TypeOK
<1> QED
  BY <1>3, <1>4, <1>5 DEF List

LEMMA WalkStep ==
    ASSUME IndInv, Walk
    PROVE  List' /\ AtListed' /\ Ahead'
<1>1. tmp \in Listed /\ next[tmp] \in Listed /\ timer \in Timers /\ Listed \in SUBSET Timers
  BY DEF Walk, IndInv, WellLinked, Linked, AtListed, TypeOK, Listed
<1>2. Listed' = Listed
  BY DEF Walk, Listed
<1>3. List'
  BY <1>2, ListKept DEF Walk, links, IndInv, WellLinked, List
<1>4. AtListed'
  BY <1>1, <1>2 DEF Walk, AtListed, IndInv, WellLinked
<1>5. Ahead'
  BY <1>1 DEF Walk, Ahead, IndInv, TypeOK
<1> QED
  BY <1>3, <1>4, <1>5

LEMMA ClockStep ==
    ASSUME IndInv, Clock
    PROVE  List' /\ AtListed' /\ Ahead'
<1>1. Listed' = Listed
  BY DEF Clock, Listed
<1>2. List' /\ AtListed'
  BY <1>1, ListKept DEF Clock, links, IndInv, WellLinked, List, AtListed
<1>3. Ahead'
  <2> SUFFICES ASSUME ~setBack, ~(now' < now)
               PROVE  /\ \A t \in allocated : expire[t] <= now' + Term
                      /\ op = "insert" => expire[tmp] <= expire[timer]
    BY DEF Clock, Ahead
  <2>1. now' \in Nat /\ now \in Nat /\ Term \in Nat
    BY SortTimerListAssumption DEF Clock, IndInv, TypeOK
  <2>2. \A t \in allocated : expire[t] \in Nat /\ expire[t] <= now + Term
    BY DEF IndInv, TypeOK, Ahead
  <2> QED
    BY <2>1, <2>2 DEF IndInv, Ahead
<1> QED
  BY <1>2, <1>3

LEMMA TickEndsStep ==
    ASSUME IndInv, TickBegin \/ TickEnd
    PROVE  List' /\ AtListed' /\ Ahead'
<1>1. Listed' = Listed /\ timer = NULL /\ timer' = NULL
  BY ListedWhenIdle, SortTimerListAssumption
     DEF TickBegin, TickEnd, Return, Listed, IndInv, WellLinked, TypeOK
<1>2. List'
  BY <1>1, ListKept DEF TickBegin, TickEnd, links, IndInv, WellLinked, List
<1> QED
  BY <1>1, <1>2 DEF TickBegin, TickEnd, Return, links, AtListed, Ahead, IndInv, WellLinked

LEMMA TypeStep == ASSUME IndInv, [Next]_vars PROVE TypeOK'
<1> USE SortTimerListAssumption DEF IndInv, WellLinked, Linked, AtListed, TypeOK, Pointer
<1>1. CASE Place
  <2>1. timer \in Timers /\ tmp \in Timers
    BY <1>1 DEF Place, Listed
  <2> QED
    BY <1>1, <2>1 DEF Place, Return
<1>2. CASE Walk
  BY <1>2 DEF Walk, links, Listed
<1>3. ASSUME NEW t \in Timers, AddTimer(t) PROVE TypeOK'
  BY <1>3 DEF AddTimer, AddFirst, AddBefore, AddBehind, Allocate, InsertAfter
<1>4. ASSUME NEW t \in Timers, AdjustTimer(t) PROVE TypeOK'
  <2>1. CASE AdjustNot(t)
    BY <2>1 DEF AdjustNot, Delay, links
  <2>2. CASE AdjustHead(t)
    BY <2>2 DEF AdjustHead, Delay, InPlace, InsertAfter
  <2>3. CASE AdjustInner(t)
    <3>1. /\ next' = [next EXCEPT ![prev[t]] = next[t]] /\ prev' = [prev EXCEPT ![next[t]] = prev[t]]
          /\ expire' = [expire EXCEPT ![t] = now + Term]
          /\ op' = "insert" /\ timer' = t /\ tmp' = next[t]
          /\ UNCHANGED <<head, tail, allocated, cur, now, setBack>>
      BY <2>3 DEF AdjustInner, Delay, InsertAfter
    <3>2. next[t] \in Pointer /\ prev[t] \in Pointer
      OBVIOUS
    <3>3. next' \in [Timers -> Pointer] /\ prev' \in [Timers -> Pointer]
      BY <3>1, <3>2
    <3>4. expire' \in [Timers -> Nat]
      BY <3>1
    <3> QED
      BY <3>1, <3>2, <3>3, <3>4
  <2> QED
    BY <1>4, <2>1, <2>2, <2>3 DEF AdjustTimer
<1>5. ASSUME NEW t \in Timers, RemoveTimer(t) PROVE TypeOK'
  BY <1>5 DEF RemoveTimer, RemoveOnly, RemoveHead, RemoveTail, RemoveInner, Remove, Delete
<1>6. CASE TickBegin \/ TickEnd
  BY <1>6 DEF TickBegin, TickEnd, Return, links
<1>7. CASE TickFree
  BY <1>7 DEF TickFree, Delete
<1>8. CASE Clock
  BY <1>8 DEF Clock, links
<1>9. CASE UNCHANGED vars
  BY <1>9 DEF vars, links
<1> QED
  BY <1>1, <1>2, <1>3, <1>4, <1>5, <1>6, <1>7, <1>8, <1>9 DEF Next, Step

LEMMA InitInv == Init => IndInv
<1> SUFFICES ASSUME Init PROVE IndInv
  OBVIOUS
<1>1. Listed = {}
  BY DEF Init, Listed
<1> QED
  BY <1>1, SortTimerListAssumption
     DEF Init, IndInv, TypeOK, Pointer, WellLinked, Linked, Connected, AtListed, Sorted, Ahead

\* All parts together are an invariant of the list.
THEOREM Invariance == Spec => []IndInv
<1>1. IndInv /\ [Next]_vars => IndInv'
  <2> SUFFICES ASSUME IndInv, [Next]_vars PROVE IndInv'
    OBVIOUS
  <2>1. List' /\ AtListed' /\ Ahead'
    <3>1. ASSUME NEW t \in Timers, AddTimer(t) PROVE List' /\ AtListed' /\ Ahead'
      BY <3>1, AddFrontStep, AddBehindStep DEF AddTimer
    <3>2. ASSUME NEW t \in Timers, AdjustTimer(t) PROVE List' /\ AtListed' /\ Ahead'
      BY <3>2, AdjustNotStep, AdjustHeadStep, AdjustInnerStep DEF AdjustTimer
    <3>3. ASSUME NEW t \in Timers, RemoveTimer(t) PROVE List' /\ AtListed' /\ Ahead'
      BY <3>3, RemoveStep
    <3>4. CASE Step
      BY <3>4, PlaceStep, WalkStep, TickFreeStep, TickEndsStep DEF Step
    <3>5. CASE TickBegin
      BY <3>5, TickEndsStep
    <3>6. CASE Clock
      BY <3>6, ClockStep
    <3>7. CASE UNCHANGED vars
      BY <3>7 DEF vars, links, Listed, List, Linked, Connected, Sorted, AtListed, Ahead,
                  IndInv, WellLinked
    <3> QED
      BY <3>1, <3>2, <3>3, <3>4, <3>5, <3>6, <3>7 DEF Next
  <2> QED
    BY <2>1, TypeStep DEF IndInv, WellLinked, List
<1> QED
  BY InitInv, <1>1, PTL DEF Spec

\* The links are sound in the middle of every call: no freed timer is reached,
\* none in use is lost (list_timer.cpp:38-172).
THEOREM ListWellLinked == Spec => []WellLinked
  BY Invariance, PTL DEF IndInv

\* Types: every pointer of the list is NULL or the address of a timer
\* (list_timer.h:29-70).
THEOREM TypeCorrect == Spec => []TypeOK
  BY Invariance, PTL DEF IndInv

\* The list is sorted unless the clock was set back (list_timer.cpp:38-83, 150-173).
THEOREM ListSorted == Spec => []Sorted
  BY Invariance, PTL DEF IndInv

----------------------------------------------------------------------------
(* The list implements the set of timers.                                  *)

\* When the first timer is not due, none is: those due would be a set that goes
\* back to the head.
LEMMA NoneDueBehind ==
    ASSUME IndInv, op = "tick", ~setBack, tmp # NULL => NotYet(tmp)
    PROVE  {t \in allocated : expire[t] <= cur} = {}
<1> DEFINE S == {t \in allocated : expire[t] <= cur}
<1>1. Listed = allocated /\ tmp = head /\ Listed \in SUBSET Timers /\ NULL \notin Listed
  BY ListedWhenIdle, SortTimerListAssumption DEF IndInv, WellLinked, AtListed, TypeOK
<1>2. \A t \in S : prev[t] # NULL => prev[t] \in S
  <2> SUFFICES ASSUME NEW t \in S, prev[t] # NULL PROVE prev[t] \in S
    OBVIOUS
  <2>1. prev[t] \in Listed /\ next[prev[t]] = t
    BY <1>1 DEF IndInv, WellLinked, Linked
  <2>2. expire[prev[t]] <= expire[t]
    BY <1>1, <2>1 DEF IndInv, Sorted
  <2>3. expire[prev[t]] \in Nat /\ expire[t] \in Nat /\ cur \in Nat
    BY <1>1, <2>1 DEF IndInv, TypeOK
  <2> QED
    BY <1>1, <2>1, <2>2, <2>3
<1>3. head \notin S
  BY <1>1, SortTimerListAssumption DEF NotYet, IndInv, TypeOK
<1> QED
  BY <1>1, <1>2, <1>3 DEF IndInv, WellLinked, Connected

LEMMA StepRefines == ASSUME IndInv, [Next]_vars PROVE [TimerSet!Next]_(TimerSet!vars)
<1> DEFINE deadline == [t \in allocated |-> expire[t]]
<1> DEFINE due == IF op = "tick" THEN {t \in allocated : expire[t] <= cur} ELSE {}
<1> USE DEF TimerSet!Next, TimerSet!vars
<1>0. /\ allocated \subseteq Timers /\ expire \in [Timers -> Nat] /\ cur \in Nat
  BY DEF IndInv, TypeOK
<1>1. ASSUME NEW t \in Timers, AddTimer(t) \/ AdjustTimer(t) PROVE TimerSet!Set(t)
  <2>1. /\ op = "idle" /\ op' # "tick" /\ allocated' = allocated \cup {t}
        /\ expire' = [expire EXCEPT ![t] = now + Term]
        /\ UNCHANGED <<now, setBack>>
    BY <1>1 DEF AddTimer, AddFirst, AddBefore, AddBehind, Allocate, AdjustTimer, AdjustNot,
                AdjustHead, AdjustInner, Delay, InsertAfter
  <2>2. deadline' = [u \in allocated \cup {t} |-> IF u = t THEN now + Term ELSE deadline[u]]
    BY <1>0, <2>1
  <2> QED
    BY <2>1, <2>2 DEF TimerSet!Set, TimerSet!InUse
<1>2. ASSUME NEW t \in Timers, RemoveTimer(t) PROVE TimerSet!Remove(t)
  <2>1. /\ op = "idle" /\ op' = op /\ t \in allocated /\ allocated' = allocated \ {t}
        /\ UNCHANGED <<expire, now, setBack>>
    BY <1>2 DEF RemoveTimer, RemoveOnly, RemoveHead, RemoveTail, RemoveInner, Remove, Delete
  <2>2. deadline' = [u \in allocated \ {t} |-> deadline[u]]
    BY <2>1
  <2> QED
    BY <2>1, <2>2 DEF TimerSet!Remove, TimerSet!Drop, TimerSet!InUse
<1>3. CASE TickBegin
  <2>1. due' = {t \in allocated : deadline[t] <= now}
    BY <1>3 DEF TickBegin
  <2> QED
    BY <1>3, <2>1 DEF TickBegin, TimerSet!TickBegin, TimerSet!InUse
<1>4. CASE TickFree
  <2>1. /\ op = "tick" /\ op' = op /\ allocated' = allocated \ {tmp}
        /\ UNCHANGED <<expire, cur, now, setBack>>
    BY <1>4 DEF TickFree, Delete
  <2>2. PICK t \in allocated : t = tmp /\ expire[t] <= cur
    BY <1>0, <1>4, SortTimerListAssumption
       DEF TickFree, NotYet, IndInv, WellLinked, AtListed, Linked, Listed
  <2>3. due' = due \ {t} /\ t \in due
    BY <2>1, <2>2
  <2>4. deadline' = [u \in allocated \ {t} |-> deadline[u]]
    BY <2>1, <2>2
  <2>5. TimerSet!TickTake(t)
    BY <2>1, <2>3, <2>4 DEF TimerSet!TickTake, TimerSet!Drop, TimerSet!InUse
  <2> QED
    BY <1>0, <2>2, <2>5
<1>5. CASE TickEnd
  <2>1. due = {} \/ setBack
    BY <1>5, NoneDueBehind DEF TickEnd
  <2>2. op = "tick" /\ op' = "idle" /\ UNCHANGED <<expire, allocated, now, setBack>>
    BY <1>5 DEF TickEnd, Return
  <2> QED
    BY <2>1, <2>2 DEF TimerSet!TickEnd
<1>6. CASE Place \/ Walk
  BY <1>6 DEF Place, Walk, Return
<1>7. CASE Clock
  BY <1>7 DEF Clock, TimerSet!Clock
<1>8. CASE UNCHANGED vars
  BY <1>8 DEF vars
<1> QED
  BY <1>1, <1>2, <1>3, <1>4, <1>5, <1>6, <1>7, <1>8 DEF Next, Step

\* A tick takes the timers that are due and no other, and all of them unless the
\* clock was set back; that it ends is left to the model checker
\* (list_timer.cpp:38-147; webserver.cpp:442-464).
THEOREM ListIsTimerSet == Spec => TimerSet!Safety
<1>1. Init => TimerSet!Init
  BY DEF Init, TimerSet!Init
<1> QED
  BY <1>1, Invariance, StepRefines, PTL DEF Spec, TimerSet!Safety
=============================================================================
