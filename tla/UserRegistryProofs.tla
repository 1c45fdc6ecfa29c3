-------------------------- MODULE UserRegistryProofs --------------------------
(***************************************************************************)
(* Proofs about logins and registrations for any number of workers, names, *)
(* passwords, requests and restarts.                                       *)
(***************************************************************************)
EXTENDS UserRegistry, SequenceTheorems, TLAPS

\* Between the look-up of a registration and the end of its insertion.
Registers(w) == pc[w] \in {"lock", "query", "insert"}

Confirming(w) == pc[w] = "unlock" /\ answer[w] = "log"

\* Only registrations get past the look-up, and two of one name make it raced.
NameInv ==
    \A w \in Workers : Registers(w) =>
        \A v \in Workers : Registers(v) /\ Name(v) = Name(w) /\ v # w => Name(w) \in raced

\* A name that is being registered is not in the cache.
FreshInv ==
    \A w \in Workers : Registers(w) /\ Name(w) \notin Exempt => users_cache_[Name(w)] = {}

\* What is in the cache is what a restart will load, but for what operator[] added.
LoadInv ==
    \A n \in Names : n \notin Exempt =>
        /\ users_cache_[n] # {} => PasswordOf(table, n) \in users_cache_[n]
        /\ \A p \in users_cache_[n] :
              p = PasswordOf(table, n) \/ (p = Empty /\ n \in defaulted)

\* A worker that has inserted its row is going to cache it.
RowInv ==
    \A w \in Workers : pc[w] = "insert" /\ Name(w) \notin Exempt
        => PasswordOf(table, Name(w)) = Password(w)

\* Whoever was told, or is about to be told, of an account finds it in the cache
\* and in the table.
ToldInv ==
    /\ \A a \in confirmed : a[1] \notin Exempt =>
          a[2] \in users_cache_[a[1]] /\ PasswordOf(table, a[1]) = a[2]
    /\ \A w \in Workers : Confirming(w) /\ Name(w) \notin Exempt =>
          /\ Password(w) \in users_cache_[Name(w)]
          /\ PasswordOf(table, Name(w)) = Password(w)

\* operator[] looks a name up that find found.
FoundInv == \A w \in Workers : pc[w] = "compare" => users_cache_[Name(w)] # {}

\* Only registrations get past the first look-up with the lock.
KindInv == \A w \in Workers : Registers(w) => job[w][1] = "3"

KeptInv == NameInv /\ FreshInv /\ LoadInv /\ RowInv /\ ToldInv /\ FoundInv /\ KindInv

Backed(n, p) == \E i \in Rows(table, n) : table[i][2] = p

\* What a restart will load, what is cached and what is about to be is backed by
\* a row.
BackedInv ==
    /\ CacheBacked
    /\ \A n \in Names : PasswordOf(table, n) # None => Backed(n, PasswordOf(table, n))
    /\ \A w \in Workers : pc[w] = "insert" => Backed(Name(w), Password(w))

\* A name with a row has a last one, so that there is something to load.
HasLast(rows, n) ==
    Rows(rows, n) # {} => \E i \in Rows(rows, n) : \A j \in Rows(rows, n) : j <= i

LastInv == \A n \in Names : HasLast(table, n)

LoadType == \A n \in Names : PasswordOf(table, n) \in Passwords \cup {None}

IndInv == TypeOK /\ LoadType /\ LastInv /\ KeptInv /\ BackedInv

----------------------------------------------------------------------------
\* The last row of a name wins: a new row of the name is what is loaded, and the
\* other names keep theirs.
LEMMA PasswordAppend ==
  ASSUME NEW rows \in Seq(Account), NEW a \in Account, NEW n \in Names,
         HasLast(rows, n)
  PROVE  /\ HasLast(Append(rows, a), n)
         /\ PasswordOf(Append(rows, a), n) =
              IF n = a[1] THEN a[2] ELSE PasswordOf(rows, n)
  <1> DEFINE more == Append(rows, a)
             mine == Rows(rows, n)
             ours == Rows(more, n)
             k == Len(rows) + 1
  <1>1. /\ Len(rows) \in Nat
        /\ DOMAIN rows = 1 .. Len(rows) /\ DOMAIN more = 1 .. k
        /\ more[k] = a /\ \A i \in DOMAIN rows : more[i] = rows[i]
    OBVIOUS
  <1> HIDE DEF more
  <1>2. CASE n = a[1]
    <2>1. k \in ours /\ \A j \in ours : j \in Nat /\ j <= k
      BY <1>1, <1>2 DEF Rows
    <2>2. \A i \in ours : (\A j \in ours : j <= i) => i = k
      BY <1>1, <2>1
    <2> HIDE DEF ours
    <2>3. (CHOOSE i \in ours : \A j \in ours : j <= i) = k
      BY <2>1, <2>2
    <2>4. PasswordOf(more, n) = more[k][2]
      BY <2>1, <2>3 DEF PasswordOf, ours
    <2>5. HasLast(more, n)
      BY <2>1 DEF HasLast, ours
    <2> QED
      BY <1>1, <1>2, <2>4, <2>5 DEF more
  <1>3. CASE n # a[1]
    <2>1. ours = mine
      BY <1>1, <1>3 DEF Rows
    <2>2. HasLast(more, n)
      BY <2>1 DEF HasLast
    <2>3. PasswordOf(more, n) = PasswordOf(rows, n)
      <3>1. CASE mine = {}
        BY <2>1, <3>1 DEF PasswordOf
      <3>2. CASE mine # {}
        <4> DEFINE c == CHOOSE i \in mine : \A j \in mine : j <= i
        <4>1. c \in mine
          BY <3>2 DEF HasLast
        <4>2. more[c] = rows[c]
          BY <1>1, <4>1 DEF Rows
        <4>3. PasswordOf(more, n) = more[c][2] /\ PasswordOf(rows, n) = rows[c][2]
          BY <2>1, <3>2 DEF PasswordOf
        <4> QED
          BY <4>2, <4>3
      <3> QED
        BY <3>1, <3>2
    <2> QED
      BY <1>3, <2>2, <2>3 DEF more
  <1> QED
    BY <1>2, <1>3

\* A worker that is not idle has a request with a name and a password.
LEMMA JobType ==
  ASSUME TypeOK, NEW w \in Workers, pc[w] # "idle"
  PROVE  /\ job[w] \in Job /\ job[w][2] \in Account
         /\ Name(w) \in Names /\ Password(w) \in Passwords
         /\ job[w][2][1] = Name(w) /\ job[w][2][2] = Password(w)
  <1>1. job[w] \in Job
    BY DEF TypeOK, Types, PlaceKnown
  <1>2. job[w][2] \in Account
    BY <1>1 DEF Job
  <1> QED
    BY <1>1, <1>2 DEF Account, Name, Password

----------------------------------------------------------------------------
\* What INSERT makes of the table, and what it makes of the last rows.
LEMMA RowAdded ==
  ASSUME TypeOK, LastInv, LoadType, NEW w \in Workers, pc[w] # "idle",
         table' = Append(table, job[w][2])
  PROVE  /\ table' \in Seq(Account) /\ LastInv' /\ LoadType'
         /\ \A n \in Names :
               PasswordOf(table', n) = IF n = Name(w) THEN Password(w) ELSE PasswordOf(table, n)
         /\ \A n, p : Backed(n, p) => Backed(n, p)'
         /\ \E i \in Rows(table', Name(w)) : table'[i][2] = Password(w)
  <1> DEFINE a == job[w][2]
  <1>1. /\ a \in Account /\ table \in Seq(Account)
        /\ a[1] = Name(w) /\ a[2] = Password(w) /\ Password(w) \in Passwords
    BY JobType DEF TypeOK, Types
  <1> HIDE DEF a
  <1>2. table' = Append(table, a)
    BY DEF a
  <1>3. \A n \in Names :
          /\ HasLast(table', n)
          /\ PasswordOf(table', n) = IF n = a[1] THEN a[2] ELSE PasswordOf(table, n)
    BY <1>1, <1>2, PasswordAppend DEF LastInv
  <1>4. LastInv' /\ LoadType'
    BY <1>1, <1>3 DEF LastInv, LoadType
  <1>5. /\ table' \in Seq(Account) /\ Len(table) + 1 \in DOMAIN table'
        /\ table'[Len(table) + 1] = a
        /\ \A i \in DOMAIN table : i \in DOMAIN table' /\ table'[i] = table[i]
    BY <1>1, <1>2
  <1> QED
    <2>1. ASSUME NEW n, NEW p, Backed(n, p) PROVE Backed(n, p)'
      BY <1>5, <2>1 DEF Backed, Rows
    <2>2. \E i \in Rows(table', Name(w)) : table'[i][2] = Password(w)
      BY <1>1, <1>5 DEF Rows
    <2> QED
      BY <1>1, <1>3, <1>4, <1>5, <2>1, <2>2

\* A step that leaves the table alone leaves alone what depends on it.
LEMMA TableKept ==
  ASSUME LastInv, LoadType, table' = table
  PROVE  /\ LastInv' /\ LoadType'
         /\ \A n : PasswordOf(table', n) = PasswordOf(table, n)
         /\ \A n, p : Backed(n, p)' = Backed(n, p)
  BY DEF LastInv, LoadType, Backed, Rows

\* INSERT either adds the row or does not.
Inserts(w) == Query(w) \/ QueryFails(w)

Quiet(w) ==
    \/ \E j \in Job : Begin(w, j)
    \/ FindToRegister(w) \/ FindToLogin(w) \/ Compare(w)
    \/ Lock(w) \/ Insert(w) \/ Finish(w)

LEMMA NextSplit ==
  ASSUME [Next]_vars
  PROVE  UNCHANGED vars \/ Restart \/ \E w \in Workers : Inserts(w) \/ Quiet(w)
  BY DEF Next, Step, Inserts, Quiet, Exhausted

\* Types.
LEMMA StepTypes ==
  ASSUME TypeOK, LastInv, LoadType, [Next]_vars
  PROVE  Types' /\ LastInv' /\ LoadType'
  <1> USE DEF Types
  <1>1. CASE UNCHANGED vars
    <2>1. LastInv' /\ LoadType'
      BY <1>1, TableKept DEF vars
    <2> QED
      BY <1>1, <2>1 DEF vars, TypeOK
  <1>2. CASE Restart
    <2>1. LastInv' /\ LoadType'
      BY <1>2, TableKept DEF Restart
    <2>2. users_cache_' \in [Names -> SUBSET (Passwords \cup {Empty})]
      <3>1. users_cache_' = [n \in Names |-> {PasswordOf(table, n)} \ {None}]
        BY <1>2 DEF Restart, Loaded
      <3> QED
        BY <3>1 DEF LoadType
    <2>3. /\ pc' = [w \in Workers |-> "idle"] /\ job' = [w \in Workers |-> None]
          /\ answer' = [w \in Workers |-> "none"]
      BY <1>2 DEF Restart, Everyone
    <2>4. starts' \in 0 .. MaxStarts
      BY <1>2, UserRegistryAssumption DEF Restart, TypeOK
    <2> QED
      BY <1>2, <2>1, <2>2, <2>3, <2>4 DEF Restart, TypeOK, Places, Pages
  <1>3. ASSUME NEW w \in Workers, Inserts(w) PROVE Types' /\ LastInv' /\ LoadType'
    <2>1. pc[w] = "query" /\ (table' = table \/ table' = Append(table, job[w][2]))
      BY <1>3 DEF Inserts, Query, QueryFails
    <2>2. table' \in Seq(Account) /\ LastInv' /\ LoadType'
      BY <2>1, TableKept, RowAdded DEF TypeOK
    <2>3. CASE Query(w)
      BY <2>2, <2>3 DEF Query, Goto, TypeOK, Places
    <2>4. CASE QueryFails(w)
      BY <2>2, <2>4 DEF QueryFails, Goto, Lead, TypeOK, Places, Pages
    <2> QED
      BY <1>3, <2>3, <2>4 DEF Inserts
  <1>4. ASSUME NEW w \in Workers, Quiet(w) PROVE Types' /\ LastInv' /\ LoadType'
    <2>1. table' = table
      BY <1>4 DEF Quiet, Begin, FindToRegister, FindToLogin, Compare, Lock, Insert, Finish
    <2>2. LastInv' /\ LoadType'
      BY <2>1, TableKept
    <2>3. ASSUME NEW j \in Job, Begin(w, j) PROVE Types'
      <3>1. asked' \in 0 .. MaxRequests
        BY <2>3, UserRegistryAssumption DEF Begin, TypeOK
      <3> QED
        BY <2>3, <3>1 DEF Begin, Goto, TypeOK, Places
    <2>4. CASE FindToRegister(w)
      <3>1. Name(w) \in Names
        BY <2>4, JobType DEF FindToRegister
      <3>2. /\ pc' \in [Workers -> Places] /\ answer' \in [Workers -> Pages]
            /\ raced' \subseteq Names /\ missed' \subseteq Names
        BY <2>4, <3>1 DEF FindToRegister, Goto, Lead, TypeOK, Places, Pages
      <3> QED
        BY <2>1, <2>2, <2>4, <3>2 DEF FindToRegister, TypeOK
    <2>5. CASE FindToLogin(w)
      <3>1. answer' \in [Workers -> Pages] /\ pc' \in [Workers -> Places]
        BY <2>5 DEF FindToLogin, Goto, Lead, TypeOK, Places, Pages
      <3> QED
        BY <2>1, <2>2, <2>5, <3>1 DEF FindToLogin, TypeOK
    <2>9. CASE Compare(w)
      <3>1. PICK v \in {"welcome", "logError"} : Lead(w, v)
        BY <2>9 DEF Compare, Verdict
      <3>2. answer' \in [Workers -> Pages] /\ pc' \in [Workers -> Places]
        BY <2>9, <3>1 DEF Compare, Goto, Lead, TypeOK, Places, Pages
      <3>3. Name(w) \in Names
        BY <2>9, JobType DEF Compare
      <3>4. /\ users_cache_' \in [Names -> SUBSET (Passwords \cup {Empty})]
            /\ defaulted' \subseteq Names
        BY <2>9, <3>3 DEF Compare, TypeOK
      <3> QED
        BY <2>1, <2>2, <2>9, <3>2, <3>4 DEF Compare, TypeOK
    <2>6. CASE Lock(w)
      BY <2>1, <2>2, <2>6 DEF Lock, Goto, TypeOK, Places
    <2>7. CASE Insert(w)
      <3>1. Name(w) \in Names /\ Password(w) \in Passwords
        BY <2>7, JobType DEF Insert
      <3> QED
        BY <2>1, <2>2, <2>7, <3>1 DEF Insert, Goto, Lead, TypeOK, Places, Pages
    <2>8. CASE Finish(w)
      <3>1. job[w][2] \in Account
        BY <2>8, JobType DEF Finish
      <3> QED
        BY <2>1, <2>2, <2>8, <3>1 DEF Finish, Goto, Lead, TypeOK, Places, Pages
    <2> QED
      BY <1>4, <2>2, <2>3, <2>4, <2>5, <2>6, <2>7, <2>8, <2>9 DEF Quiet
  <1> QED
    BY <1>1, <1>2, <1>3, <1>4, NextSplit

\* The lock is held exactly by a worker that is past its wait.
LEMMA StepPlace ==
  ASSUME TypeOK, [Next]_vars
  PROVE  PlaceKnown'
  <1> USE UserRegistryAssumption
  <1>1. CASE UNCHANGED vars
    BY <1>1 DEF vars, TypeOK, PlaceKnown
  <1>2. CASE Restart
    BY <1>2 DEF Restart, Everyone, PlaceKnown
  <1>3. ASSUME NEW w \in Workers, Query(w) \/ QueryFails(w) \/ Lock(w) \/ Insert(w)
        PROVE  PlaceKnown'
    BY <1>3 DEF Query, QueryFails, Lock, Insert, Goto, TypeOK, Types, PlaceKnown
  <1>4. ASSUME NEW w \in Workers, FindToRegister(w) \/ FindToLogin(w) \/ Compare(w)
        PROVE  PlaceKnown'
    <2>1. PICK l \in {"unlock", "lock", "compare"} : Goto(w, l)
      BY <1>4 DEF FindToRegister, FindToLogin, Compare
    <2>2. UNCHANGED <<job, sql_lock_>> /\ pc[w] \in {"find", "compare"}
      BY <1>4 DEF FindToRegister, FindToLogin, Compare
    <2> QED
      BY <2>1, <2>2 DEF Goto, TypeOK, Types, PlaceKnown
  <1>5. ASSUME NEW w \in Workers, NEW j \in Job, Begin(w, j) PROVE PlaceKnown'
    <2>1. j # None
      BY DEF Job, Account
    <2> QED
      BY <1>5, <2>1 DEF Begin, Goto, TypeOK, Types, PlaceKnown
  <1>6. ASSUME NEW w \in Workers, Finish(w) PROVE PlaceKnown'
    BY <1>6 DEF Finish, Goto, TypeOK, Types, PlaceKnown
  <1> QED
    BY <1>1, <1>2, <1>3, <1>4, <1>5, <1>6, NextSplit DEF Inserts, Quiet

----------------------------------------------------------------------------
\* A step of one worker leaves the others where they are.
LEMMA Others ==
  ASSUME TypeOK, NEW w \in Workers, Inserts(w) \/ Quiet(w)
  PROVE  /\ \A v \in Workers \ {w} :
               /\ pc'[v] = pc[v] /\ answer'[v] = answer[v] /\ job'[v] = job[v]
               /\ Name(v)' = Name(v) /\ Password(v)' = Password(v)
               /\ Registers(v)' = Registers(v) /\ Confirming(v)' = Confirming(v)
         /\ job' = job => Name(w)' = Name(w) /\ Password(w)' = Password(w)
  <1>1. ASSUME NEW v \in Workers \ {w}
        PROVE  pc'[v] = pc[v] /\ answer'[v] = answer[v] /\ job'[v] = job[v]
    <2>1. CASE Compare(w)
      <3>1. PICK p \in {"welcome", "logError"} : Lead(w, p)
        BY <2>1 DEF Compare, Verdict
      <3> QED
        BY <2>1, <3>1 DEF Compare, Goto, Lead, TypeOK, Types
    <2>2. CASE ~Compare(w)
      BY <2>2 DEF TypeOK, Types, Inserts, Quiet, Begin, FindToRegister, FindToLogin, Lock,
             Insert, Finish, Query, QueryFails, Goto, Lead
    <2> QED
      BY <2>1, <2>2
  <1> QED
    BY <1>1 DEF Name, Password, Registers, Confirming

\* A registration begins: a second one of the name makes it raced, and one whose
\* look-up missed the name makes it missed.
LEMMA KeptFind ==
  ASSUME TypeOK, KeptInv, NEW w \in Workers, FindToRegister(w)
  PROVE  KeptInv'
  <1>1. /\ UNCHANGED <<table, users_cache_, job, confirmed, defaulted>> /\ pc[w] = "find"
        /\ raced \subseteq raced' /\ Exempt \subseteq Exempt'
        /\ job[w][1] = "3"
        /\ pc' \in [Workers -> Places] /\ answer' \in [Workers -> Pages]
    <2>1. PICK l \in {"unlock", "lock"} : Goto(w, l)
      BY DEF FindToRegister
    <2>2. answer' = [answer EXCEPT ![w] = "registerError"] \/ answer' = answer
      BY DEF FindToRegister, Lead
    <2>3. raced \subseteq raced' /\ missed \subseteq missed'
      BY DEF FindToRegister
    <2> QED
      BY <2>1, <2>2, <2>3 DEF FindToRegister, Goto, TypeOK, Types, Places, Pages, Exempt
  <1>2. /\ Name(w)' = Name(w) /\ Password(w)' = Password(w)
        /\ \A v \in Workers \ {w} :
               /\ pc'[v] = pc[v] /\ Name(v)' = Name(v) /\ Password(v)' = Password(v)
               /\ Registers(v)' = Registers(v) /\ Confirming(v)' = Confirming(v)
    BY <1>1, Others DEF Quiet
  <1>3. ~Confirming(w)' /\ pc'[w] \notin {"insert", "compare"}
    BY DEF FindToRegister, Goto, Lead, Confirming, TypeOK, Types
  <1>4. Registers(w)' /\ Name(w) \notin raced' =>
               \A v \in Workers \ {w} : ~(Registers(v) /\ Name(v) = Name(w))
    BY DEF FindToRegister, Goto, Registers, TypeOK, Types, Overlaps
  <1>5. Registers(w)' /\ Name(w) \notin Exempt' => users_cache_[Name(w)] = {}
    BY DEF FindToRegister, Goto, Registers, TypeOK, Types, Exempt, Known
  <1>6. NameInv'
    BY <1>1, <1>2, <1>4 DEF KeptInv, NameInv
  <1>7. FreshInv'
    BY <1>1, <1>2, <1>5 DEF KeptInv, FreshInv
  <1>8. LoadInv' /\ RowInv' /\ ToldInv'
    BY <1>1, <1>2, <1>3 DEF KeptInv, LoadInv, RowInv, ToldInv
  <1>9. FoundInv' /\ KindInv'
    BY <1>1, <1>2, <1>3 DEF KeptInv, FoundInv, KindInv
  <1> QED
    BY <1>6, <1>7, <1>8, <1>9 DEF KeptInv

\* The steps that touch neither the table nor the cache nor the exempt names.
LEMMA KeptQuiet ==
  ASSUME TypeOK, KeptInv, NEW w \in Workers,
         (\E j \in Job : Begin(w, j)) \/ FindToLogin(w) \/ Lock(w) \/ Finish(w)
  PROVE  KeptInv'
  <1>1. /\ UNCHANGED <<table, users_cache_, raced, defaulted>> /\ Exempt' = Exempt
        /\ \A v \in Workers \ {w} :
               /\ pc'[v] = pc[v] /\ Name(v)' = Name(v) /\ Password(v)' = Password(v)
               /\ Registers(v)' = Registers(v) /\ Confirming(v)' = Confirming(v)
               /\ job'[v] = job[v]
        /\ job' = job => Name(w)' = Name(w)
    <2>1. UNCHANGED <<table, users_cache_, raced, missed, defaulted>>
      BY DEF Begin, FindToLogin, Lock, Finish
    <2> QED
      BY <2>1, Others DEF Quiet, Exempt
  <1>2. /\ Registers(w)' => Registers(w) /\ job' = job
        /\ ~Confirming(w)' /\ pc'[w] # "insert"
        /\ pc'[w] = "compare" => job' = job /\ users_cache_[Name(w)] # {}
    <2>1. CASE \E j \in Job : Begin(w, j)
      BY <2>1 DEF Begin, Goto, Registers, Confirming, TypeOK, Types
    <2>2. CASE FindToLogin(w)
      <3>1. job' = job
        BY <2>2 DEF FindToLogin
      <3>2. CASE TRUE \in Finds(w) /\ Goto(w, "compare")
        BY <3>1, <3>2 DEF Finds, Known, Goto, Registers, Confirming, TypeOK, Types
      <3>3. CASE Goto(w, "unlock") /\ Lead(w, "logError")
        BY <3>3 DEF Goto, Lead, Registers, Confirming, TypeOK, Types
      <3> QED
        BY <2>2, <3>2, <3>3 DEF FindToLogin
    <2>3. CASE Lock(w)
      BY <2>3 DEF Lock, Goto, Registers, Confirming, TypeOK, Types
    <2>4. CASE Finish(w)
      BY <2>4 DEF Finish, Goto, Registers, Confirming, TypeOK, Types
    <2> QED
      BY <2>1, <2>2, <2>3, <2>4
  <1>3. NameInv' /\ FreshInv' /\ LoadInv' /\ RowInv'
    BY <1>1, <1>2 DEF KeptInv, NameInv, FreshInv, LoadInv, RowInv
  <1>4. \A a \in confirmed' :
            a \in confirmed \/ (Confirming(w) /\ a[1] = Name(w) /\ a[2] = Password(w))
    <2>1. CASE confirmed' = confirmed
      BY <2>1
    <2>2. CASE confirmed' # confirmed
      <3>1. Finish(w)
        BY <2>2 DEF Begin, FindToLogin, Lock
      <3>2. answer[w] = "log" /\ pc[w] = "unlock" /\ confirmed' = confirmed \cup {job[w][2]}
        BY <2>2, <3>1 DEF Finish
      <3>3. job[w][2][1] = Name(w) /\ job[w][2][2] = Password(w)
        BY DEF Name, Password
      <3> QED
        BY <3>2, <3>3 DEF Confirming
    <2> QED
      BY <2>1, <2>2
  <1>5. ToldInv'
    BY <1>1, <1>2, <1>4 DEF KeptInv, ToldInv
  <1>6. FoundInv' /\ KindInv'
    BY <1>1, <1>2 DEF KeptInv, FoundInv, KindInv
  <1> QED
    BY <1>3, <1>5, <1>6 DEF KeptInv

\* operator[] adds the empty password to a name that has an entry, which no
\* registration is about to add.
LEMMA KeptCompare ==
  ASSUME TypeOK, KeptInv, NEW w \in Workers, Compare(w)
  PROVE  KeptInv'
  <1>1. /\ UNCHANGED <<table, raced, confirmed, job>> /\ Exempt' = Exempt
        /\ pc[w] = "compare" /\ pc'[w] = "unlock" /\ ~Registers(w)'
    BY DEF Compare, Goto, Registers, TypeOK, Types, Exempt
  <1>2. ~Confirming(w)'
    <2>1. PICK p \in {"welcome", "logError"} : Lead(w, p)
      BY DEF Compare, Verdict
    <2> QED
      BY <2>1 DEF Lead, Confirming, TypeOK, Types
  <1>3. /\ Name(w)' = Name(w) /\ Password(w)' = Password(w)
        /\ \A v \in Workers \ {w} :
               /\ pc'[v] = pc[v] /\ Name(v)' = Name(v) /\ Password(v)' = Password(v)
               /\ Registers(v)' = Registers(v) /\ Confirming(v)' = Confirming(v)
    BY <1>1, Others DEF Quiet
  <1>4. /\ \A v \in Workers : pc[v] # "idle" => Name(v) \in Names
        /\ \A a \in confirmed : a[1] \in Names
    BY JobType DEF TypeOK, Types, Account
  <1>5. /\ defaulted \subseteq defaulted'
        /\ \A n \in Names :
             \/ users_cache_'[n] = users_cache_[n]
             \/ /\ n = Name(w) /\ n \in defaulted'
                /\ users_cache_'[n] = users_cache_[n] \cup {Empty}
    BY DEF Compare, TypeOK, Types
  <1>6. users_cache_[Name(w)] # {}
    BY <1>1 DEF KeptInv, FoundInv
  <1>7. NameInv' /\ RowInv' /\ KindInv'
    BY <1>1, <1>3 DEF KeptInv, NameInv, RowInv, KindInv
  <1>8. FreshInv'
    <2> SUFFICES ASSUME NEW v \in Workers, Registers(v)', Name(v)' \notin Exempt'
                 PROVE  users_cache_'[Name(v)'] = {}
      BY DEF FreshInv
    <2>1. v # w /\ Registers(v) /\ Name(v)' = Name(v) /\ Name(v) \in Names
      BY <1>1, <1>3, <1>4 DEF Registers
    <2>2. users_cache_[Name(v)] = {}
      BY <1>1, <2>1 DEF KeptInv, FreshInv
    <2> QED
      BY <1>5, <1>6, <2>1, <2>2
  <1>9. LoadInv'
    <2> SUFFICES ASSUME NEW n \in Names, n \notin Exempt
                 PROVE  /\ users_cache_'[n] # {} => PasswordOf(table, n) \in users_cache_'[n]
                        /\ \A p \in users_cache_'[n] :
                              p = PasswordOf(table, n) \/ (p = Empty /\ n \in defaulted')
      BY <1>1 DEF LoadInv
    <2> QED
      BY <1>5, <1>6 DEF KeptInv, LoadInv
  <1>10. ToldInv'
    <2>1. ASSUME NEW n \in Names, NEW p \in users_cache_[n] PROVE p \in users_cache_'[n]
      BY <1>5, <2>1
    <2> QED
      BY <1>1, <1>2, <1>3, <1>4, <2>1 DEF KeptInv, ToldInv, Confirming
  <1>11. FoundInv'
    <2> SUFFICES ASSUME NEW v \in Workers, pc'[v] = "compare"
                 PROVE  users_cache_'[Name(v)'] # {}
      BY DEF FoundInv
    <2>1. v # w /\ pc[v] = "compare" /\ Name(v)' = Name(v) /\ Name(v) \in Names
      BY <1>1, <1>3, <1>4
    <2> QED
      BY <1>5, <2>1 DEF KeptInv, FoundInv
  <1> QED
    BY <1>7, <1>8, <1>9, <1>10, <1>11 DEF KeptInv

\* INSERT changes the last row of no name but the worker's own, which is not in
\* the cache unless it is exempt.
LEMMA KeptInserts ==
  ASSUME TypeOK, LastInv, LoadType, KeptInv, NEW w \in Workers, Inserts(w)
  PROVE  KeptInv'
  <1>1. /\ UNCHANGED <<users_cache_, raced, confirmed, job, defaulted>> /\ Exempt' = Exempt
        /\ pc[w] = "query" /\ Registers(w) /\ ~Confirming(w)' /\ pc'[w] # "compare"
        /\ (Registers(w)' => pc'[w] = "insert")
        /\ pc'[w] = "insert" => table' = Append(table, job[w][2])
        /\ table' = table \/ table' = Append(table, job[w][2])
    <2>1. CASE Query(w)
      BY <2>1 DEF Query, Goto, Registers, Confirming, TypeOK, Types, Exempt
    <2>2. CASE QueryFails(w)
      BY <2>2 DEF QueryFails, Goto, Lead, Registers, Confirming, TypeOK, Types, Exempt
    <2> QED
      BY <2>1, <2>2 DEF Inserts
  <1>2. /\ Name(w)' = Name(w) /\ Password(w)' = Password(w)
        /\ \A v \in Workers \ {w} :
               /\ pc'[v] = pc[v] /\ Name(v)' = Name(v) /\ Password(v)' = Password(v)
               /\ Registers(v)' = Registers(v) /\ Confirming(v)' = Confirming(v)
    BY <1>1, Others
  <1>3. /\ \A n \in Names : n # Name(w) => PasswordOf(table', n) = PasswordOf(table, n)
        /\ pc'[w] = "insert" => PasswordOf(table', Name(w)) = Password(w)
        /\ \A v \in Workers : pc[v] # "idle" => Name(v) \in Names
        /\ \A a \in confirmed : a[1] \in Names
    BY <1>1, RowAdded, TableKept, JobType DEF TypeOK, Types, Account
  <1>4. Name(w) \notin Exempt => users_cache_[Name(w)] = {}
    BY <1>1 DEF KeptInv, FreshInv
  <1>5. NameInv' /\ FreshInv' /\ FoundInv' /\ KindInv'
    BY <1>1, <1>2 DEF KeptInv, NameInv, FreshInv, FoundInv, KindInv
  <1>6. LoadInv'
    BY <1>1, <1>3, <1>4 DEF KeptInv, LoadInv
  <1>7. RowInv'
    <2> SUFFICES ASSUME NEW v \in Workers, pc'[v] = "insert", Name(v)' \notin Exempt'
                 PROVE  PasswordOf(table', Name(v)') = Password(v)'
      BY DEF RowInv
    <2>1. CASE v = w
      BY <1>2, <1>3, <2>1
    <2>2. CASE v # w
      <3>1. pc[v] = "insert" /\ Registers(v) /\ Name(v) \in Names
        BY <1>2, <1>3, <2>2 DEF Registers
      <3>2. Name(v) # Name(w)
        BY <1>1, <1>2, <2>2, <3>1 DEF KeptInv, NameInv, Exempt
      <3> QED
        BY <1>1, <1>2, <1>3, <2>2, <3>1, <3>2 DEF KeptInv, RowInv
    <2> QED
      BY <2>1, <2>2
  <1>8. ToldInv'
    <2>1. ASSUME NEW a \in confirmed, a[1] \notin Exempt
          PROVE  a[2] \in users_cache_[a[1]] /\ PasswordOf(table', a[1]) = a[2]
      BY <1>3, <1>4, <2>1 DEF KeptInv, ToldInv
    <2>2. ASSUME NEW v \in Workers, Confirming(v)', Name(v)' \notin Exempt'
          PROVE  /\ Password(v)' \in users_cache_[Name(v)']
                 /\ PasswordOf(table', Name(v)') = Password(v)'
      <3>1. /\ v # w /\ Confirming(v) /\ Name(v) \notin Exempt /\ Name(v) \in Names
            /\ Name(v)' = Name(v) /\ Password(v)' = Password(v)
        BY <1>1, <1>2, <1>3, <2>2 DEF Confirming
      <3> QED
        BY <1>3, <1>4, <3>1 DEF KeptInv, ToldInv
    <2> QED
      BY <1>1, <2>1, <2>2 DEF ToldInv
  <1> QED
    BY <1>5, <1>6, <1>7, <1>8 DEF KeptInv

\* Insert caches the name whose row is the last one, and nobody else's.
LEMMA KeptInsert ==
  ASSUME TypeOK, KeptInv, NEW w \in Workers, Insert(w)
  PROVE  KeptInv'
  <1>1. /\ UNCHANGED <<table, raced, confirmed, job, defaulted>> /\ Exempt' = Exempt
        /\ pc[w] = "insert" /\ Registers(w) /\ ~Registers(w)'
        /\ pc'[w] \notin {"insert", "compare"}
    BY DEF Insert, Goto, Registers, TypeOK, Types, Exempt
  <1>2. /\ Name(w)' = Name(w) /\ Password(w)' = Password(w)
        /\ \A v \in Workers \ {w} :
               /\ pc'[v] = pc[v] /\ Name(v)' = Name(v) /\ Password(v)' = Password(v)
               /\ Registers(v)' = Registers(v) /\ Confirming(v)' = Confirming(v)
    BY <1>1, Others DEF Quiet
  <1>3. /\ Name(w) \in Names
        /\ \A v \in Workers : pc[v] # "idle" => Name(v) \in Names
        /\ \A a \in confirmed : a[1] \in Names
    BY <1>1, JobType DEF TypeOK, Types, Account
  <1>4. /\ \A n \in Names : n # Name(w) => users_cache_'[n] = users_cache_[n]
        /\ \A n \in Names : users_cache_[n] \subseteq users_cache_'[n]
        /\ users_cache_[Name(w)] = {} => users_cache_'[Name(w)] = {Password(w)}
    BY <1>3 DEF Insert, TypeOK, Types, Known
  <1>5. NameInv' /\ RowInv' /\ KindInv'
    BY <1>1, <1>2 DEF KeptInv, NameInv, RowInv, KindInv
  <1>6. FreshInv'
    <2> SUFFICES ASSUME NEW v \in Workers, Registers(v)', Name(v)' \notin Exempt'
                 PROVE  users_cache_'[Name(v)'] = {}
      BY DEF FreshInv
    <2>1. v # w /\ Registers(v) /\ Name(v)' = Name(v) /\ Name(v) \notin Exempt
      BY <1>1, <1>2
    <2>2. Name(v) # Name(w)
      BY <1>1, <2>1 DEF KeptInv, NameInv, Exempt
    <2>3. users_cache_[Name(v)] = {} /\ Name(v) \in Names
      BY <1>3, <2>1 DEF KeptInv, FreshInv, Registers
    <2> QED
      BY <1>4, <2>1, <2>2, <2>3
  <1>7. Name(w) \notin Exempt => /\ users_cache_'[Name(w)] = {Password(w)}
                                /\ PasswordOf(table, Name(w)) = Password(w)
    BY <1>1, <1>4 DEF KeptInv, FreshInv, RowInv
  <1>8. LoadInv'
    <2> SUFFICES ASSUME NEW n \in Names, n \notin Exempt
                 PROVE  /\ users_cache_'[n] # {} => PasswordOf(table, n) \in users_cache_'[n]
                        /\ \A p \in users_cache_'[n] :
                              p = PasswordOf(table, n) \/ (p = Empty /\ n \in defaulted)
      BY <1>1 DEF LoadInv
    <2>1. CASE n = Name(w)
      BY <1>7, <2>1
    <2>2. CASE n # Name(w)
      BY <1>4, <2>2 DEF KeptInv, LoadInv
    <2> QED
      BY <2>1, <2>2
  <1>9. ToldInv'
    <2>1. ASSUME NEW a \in confirmed, a[1] \notin Exempt
          PROVE  a[2] \in users_cache_'[a[1]] /\ PasswordOf(table, a[1]) = a[2]
      BY <1>3, <1>4, <2>1 DEF KeptInv, ToldInv
    <2>2. ASSUME NEW v \in Workers, Confirming(v)', Name(v)' \notin Exempt'
          PROVE  /\ Password(v)' \in users_cache_'[Name(v)']
                 /\ PasswordOf(table, Name(v)') = Password(v)'
      <3>1. CASE v = w
        BY <1>1, <1>2, <1>7, <2>2, <3>1
      <3>2. CASE v # w
        BY <1>1, <1>2, <1>3, <1>4, <2>2, <3>2 DEF KeptInv, ToldInv, Confirming
      <3> QED
        BY <3>1, <3>2
    <2> QED
      BY <1>1, <2>1, <2>2 DEF ToldInv
  <1>10. FoundInv'
    <2> SUFFICES ASSUME NEW v \in Workers, pc'[v] = "compare"
                 PROVE  users_cache_'[Name(v)'] # {}
      BY DEF FoundInv
    <2>1. v # w /\ pc[v] = "compare" /\ Name(v)' = Name(v) /\ Name(v) \in Names
      BY <1>1, <1>2, <1>3
    <2> QED
      BY <1>4, <2>1 DEF KeptInv, FoundInv
  <1> QED
    BY <1>5, <1>6, <1>8, <1>9, <1>10 DEF KeptInv

\* A restart loads for every account what it was told to be.
LEMMA KeptRestart ==
  ASSUME TypeOK, KeptInv, Restart
  PROVE  KeptInv'
  <1>1. /\ UNCHANGED <<table, raced, confirmed>> /\ Exempt' = Exempt
        /\ \A n \in Names : users_cache_'[n] = {PasswordOf(table, n)} \ {None}
        /\ \A w \in Workers : pc'[w] = "idle"
    BY DEF Restart, Loaded, Everyone, Exempt
  <1>2. NameInv' /\ FreshInv' /\ RowInv' /\ LoadInv' /\ FoundInv' /\ KindInv'
    BY <1>1 DEF NameInv, FreshInv, RowInv, LoadInv, FoundInv, KindInv, Registers
  <1>3. ToldInv'
    <2>1. ASSUME NEW a \in confirmed, a[1] \notin Exempt
          PROVE  a[2] \in users_cache_'[a[1]] /\ PasswordOf(table, a[1]) = a[2]
      <3>1. a[1] \in Names /\ a[2] \in Passwords /\ a[2] # None
        BY UserRegistryAssumption DEF TypeOK, Types, Account
      <3>2. PasswordOf(table, a[1]) = a[2]
        BY <2>1 DEF KeptInv, ToldInv
      <3> QED
        BY <1>1, <3>1, <3>2
    <2> QED
      BY <1>1, <2>1 DEF ToldInv, Confirming
  <1> QED
    BY <1>2, <1>3 DEF KeptInv

\* Rows are only added, and what is cached or loaded has its row by then.
LEMMA StepBacked ==
  ASSUME TypeOK, LastInv, LoadType, BackedInv, [Next]_vars
  PROVE  BackedInv'
  <1> USE DEF BackedInv
  <1>1. CASE UNCHANGED vars
    BY <1>1 DEF vars, CacheBacked, Backed, Name, Password
  <1>2. CASE Restart
    <2>1. /\ \A n \in Names : users_cache_'[n] = {PasswordOf(table, n)} \ {None}
          /\ table' = table /\ \A w \in Workers : pc'[w] = "idle"
      BY <1>2 DEF Restart, Loaded, Everyone
    <2>2. \A n, p : Backed(n, p)' = Backed(n, p)
      BY <2>1, TableKept
    <2> QED
      BY <2>1, <2>2 DEF CacheBacked, Backed
  <1>3. ASSUME NEW w \in Workers, Inserts(w) PROVE BackedInv'
    <2>1. /\ UNCHANGED <<users_cache_, defaulted, job>> /\ pc[w] = "query"
          /\ table' = table \/ table' = Append(table, job[w][2])
          /\ pc'[w] = "insert" => table' = Append(table, job[w][2])
      BY <1>3 DEF Inserts, Query, QueryFails, Goto, TypeOK, Types
    <2>2. /\ Name(w)' = Name(w) /\ Password(w)' = Password(w)
          /\ \A v \in Workers \ {w} :
                 pc'[v] = pc[v] /\ Name(v)' = Name(v) /\ Password(v)' = Password(v)
      BY <1>3, <2>1, Others
    <2>3. \A n, p : Backed(n, p) => Backed(n, p)'
      BY <2>1, TableKept, RowAdded
    <2>4. CacheBacked'
      BY <2>1, <2>3 DEF CacheBacked, Backed
    <2>5. ASSUME NEW n \in Names, PasswordOf(table', n) # None
          PROVE  \E i \in Rows(table', n) : table'[i][2] = PasswordOf(table', n)
      <3>1. CASE table' = table
        BY <2>5, <3>1 DEF Backed
      <3>2. CASE table' = Append(table, job[w][2])
        <4>1. CASE n = Name(w)
          BY <2>1, <3>2, <4>1, RowAdded
        <4>2. CASE n # Name(w)
          <5>1. PasswordOf(table', n) = PasswordOf(table, n)
            BY <2>1, <3>2, <4>2, RowAdded
          <5>2. Backed(n, PasswordOf(table, n))
            BY <2>5, <5>1
          <5>3. PICK i \in Rows(table, n) : table[i][2] = PasswordOf(table, n)
            BY <5>2 DEF Backed
          <5>4. i \in Rows(table', n) /\ table'[i][2] = table[i][2]
            <6>1. job[w][2] \in Account /\ table \in Seq(Account)
              BY <2>1, JobType DEF TypeOK, Types
            <6> QED
              BY <3>2, <6>1 DEF Rows
          <5> QED
            BY <5>1, <5>3, <5>4
        <4> QED
          BY <4>1, <4>2
      <3> QED
        BY <2>1, <3>1, <3>2
    <2>6. ASSUME NEW v \in Workers, pc'[v] = "insert"
          PROVE  \E i \in Rows(table', Name(v)) : table'[i][2] = Password(v)
      <3>1. CASE v = w
        BY <2>1, <2>6, <3>1, RowAdded
      <3>2. CASE v # w
        BY <2>2, <2>3, <2>6, <3>2 DEF Backed
      <3> QED
        BY <3>1, <3>2
    <2> QED
      BY <2>2, <2>4, <2>5, <2>6 DEF Backed
  <1>4. ASSUME NEW w \in Workers, Quiet(w) PROVE BackedInv'
    <2>1. /\ table' = table
          /\ \A v \in Workers : pc'[v] = "insert" => pc[v] = "insert" /\ v # w
      <3>1. table' = table /\ pc'[w] # "insert"
        BY <1>4 DEF Quiet, Begin, FindToRegister, FindToLogin, Compare, Lock, Insert, Finish,
                    Goto, TypeOK, Types
      <3> QED
        BY <1>4, <3>1, Others
    <2>2. \A n, p : Backed(n, p)' = Backed(n, p)
      BY <2>1, TableKept
    <2>3. \A v \in Workers : pc'[v] = "insert" => Backed(Name(v), Password(v))'
      BY <1>4, <2>1, <2>2, Others DEF Backed
    <2>4. ASSUME NEW n \in Names, NEW p \in users_cache_'[n]
          PROVE  Backed(n, p) \/ (p = Empty /\ n \in defaulted')
      <3>1. CASE UNCHANGED <<users_cache_, defaulted>>
        BY <2>4, <3>1 DEF CacheBacked, Backed
      <3>2. CASE Insert(w)
        <4>1. Backed(Name(w), Password(w)) /\ defaulted' = defaulted
          BY <3>2 DEF Insert
        <4>2. p \in users_cache_[n] \/ (n = Name(w) /\ p = Password(w))
          BY <2>4, <3>2 DEF Insert, TypeOK, Types
        <4> QED
          BY <4>1, <4>2 DEF CacheBacked, Backed
      <3>3. CASE Compare(w)
        <4>1. /\ defaulted \subseteq defaulted'
              /\ p \in users_cache_[n] \/ (n \in defaulted' /\ p = Empty)
          BY <2>4, <3>3 DEF Compare, TypeOK, Types
        <4> QED
          BY <4>1 DEF CacheBacked, Backed
      <3> QED
        BY <1>4, <3>1, <3>2, <3>3 DEF Quiet, Begin, FindToRegister, FindToLogin, Lock, Finish
    <2> QED
      BY <2>1, <2>2, <2>3, <2>4 DEF CacheBacked, Backed
  <1> QED
    BY <1>1, <1>2, <1>3, <1>4, NextSplit

LEMMA StepKept ==
  ASSUME TypeOK, LastInv, LoadType, KeptInv, [Next]_vars
  PROVE  KeptInv'
  <1>1. CASE UNCHANGED vars
    BY <1>1 DEF vars, KeptInv, NameInv, FreshInv, LoadInv, RowInv, ToldInv, FoundInv,
                KindInv, Exempt, Registers, Confirming, Name, Password
  <1> QED
    BY <1>1, NextSplit, KeptFind, KeptQuiet, KeptCompare, KeptInserts, KeptInsert, KeptRestart
    DEF Quiet

\* The table is empty and nobody has asked for anything.
LEMMA InitIndInv == ASSUME Init PROVE IndInv
  <1> USE UserRegistryAssumption
  <1>1. Rows(table, 1) = {} /\ \A n : Rows(table, n) = {} /\ PasswordOf(table, n) = None
    BY DEF Init, Rows, PasswordOf
  <1>2. \A n \in Names : users_cache_[n] = {}
    BY <1>1 DEF Init, Loaded
  <1>3. Types
    <2>1. users_cache_ \in [Names -> SUBSET (Passwords \cup {Empty})]
      BY <1>1 DEF Init, Loaded
    <2> QED
      BY <2>1 DEF Init, Types, Places, Pages, Everyone
  <1>4. PlaceKnown /\ LastInv /\ LoadType
    BY <1>1 DEF Init, PlaceKnown, Everyone, LastInv, LoadType, HasLast
  <1>5. KeptInv
    BY <1>2 DEF Init, Everyone, KeptInv, NameInv, FreshInv, LoadInv, RowInv, ToldInv,
                FoundInv, KindInv, Registers, Confirming
  <1>6. BackedInv
    BY <1>1, <1>2 DEF Init, Everyone, BackedInv, CacheBacked
  <1> QED
    BY <1>3, <1>4, <1>5, <1>6 DEF IndInv, TypeOK

\* All parts together are an invariant of the registry.
THEOREM Invariance == Spec => []IndInv
  <1>1. IndInv /\ [Next]_vars => IndInv'
    BY StepTypes, StepPlace, StepKept, StepBacked DEF IndInv, TypeOK
  <1> QED
    BY <1>1, InitIndInv, PTL DEF Spec

\* Types, and the lock is held exactly by a worker that is past its wait
\* (http_conn.cpp:605-614).
THEOREM TypeCorrect == Spec => []TypeOK
  BY Invariance, PTL DEF IndInv

\* Whoever was told to have an account keeps it, over failed INSERTs, crashes and
\* restarts and whatever operator[] adds.  Names are left out that two registrations
\* looked up at once, and names that a registration did not find although they were
\* there (http_conn.cpp:602-618, 623, 241-248).
THEOREM AccountsKept == Spec => []AccountKept
  <1>1. IndInv => AccountKept
    <2> SUFFICES ASSUME IndInv, NEW a \in confirmed, a[1] \notin Exempt
                 PROVE  /\ a[2] \in users_cache_[a[1]]
                        /\ \A p \in users_cache_[a[1]] :
                              p = a[2] \/ (p = Empty /\ a[1] \in defaulted)
                        /\ Loaded(table)[a[1]] = {a[2]}
      BY DEF AccountKept
    <2>1. a[1] \in Names /\ a[2] \in Passwords /\ a[2] # None
      BY UserRegistryAssumption DEF IndInv, TypeOK, Types, Account
    <2>2. a[2] \in users_cache_[a[1]] /\ PasswordOf(table, a[1]) = a[2]
      BY DEF IndInv, KeptInv, ToldInv
    <2>3. \A p \in users_cache_[a[1]] : p = a[2] \/ (p = Empty /\ a[1] \in defaulted)
      BY <2>1, <2>2 DEF IndInv, KeptInv, LoadInv
    <2> QED
      BY <2>1, <2>2, <2>3 DEF Loaded
  <1> QED
    BY <1>1, Invariance, PTL

\* Whatever the cache says has a row in the table, but for the empty password of a
\* name that operator[] added since the start (http_conn.cpp:606-611, 623).
THEOREM CacheAlwaysBacked == Spec => []CacheBacked
  BY Invariance, PTL DEF IndInv, BackedInv

\* A login that meets no insertion and no torn tree is decided by the account the
\* client was told of, unless its name is raced or missed (http_conn.cpp:602-618,
\* 623).
THEOREM AccountsOpen == Spec => AccountOpens
  <1>1. ASSUME IndInv, [Next]_vars, ~Unreliable, NEW w \in Workers, NEW a \in confirmed,
               Decided(w), job[w][1] = "2", Name(w) = a[1], a[1] \notin Exempt
        PROVE  answer'[w] = Verdict(w, a[2])
    <2>1. /\ a[2] \in users_cache_[a[1]] /\ PasswordOf(table, a[1]) = a[2]
          /\ a[1] \in Names /\ defaulted = {}
      BY <1>1 DEF IndInv, KeptInv, ToldInv, Unreliable, Torn, TypeOK, Types, Account
    <2>2. users_cache_[a[1]] = {a[2]}
      BY <1>1, <2>1 DEF IndInv, KeptInv, LoadInv
    <2>3. CASE FindToLogin(w)
      <3>1. ~(FALSE \in Finds(w))
        BY <1>1, <2>2 DEF Finds, Known
      <3>2. answer' = answer
        BY <2>3, <3>1 DEF FindToLogin
      <3> QED
        BY <1>1, <3>2 DEF Decided
    <2>4. CASE Compare(w)
      <3>1. Lead(w, Verdict(w, a[2]))
        BY <1>1, <2>2, <2>4 DEF Compare
      <3> QED
        BY <1>1, <3>1 DEF Lead, IndInv, TypeOK, Types
    <2>5. ASSUME NEW v \in Workers, v # w, Inserts(v) \/ Quiet(v) PROVE FALSE
      BY <1>1, <2>5, Others DEF IndInv, Decided
    <2>6. ~Registers(w)
      BY <1>1 DEF IndInv, KeptInv, KindInv
    <2>7. CASE Inserts(w) \/ Insert(w) \/ Lock(w)
      BY <2>6, <2>7 DEF Inserts, Query, QueryFails, Insert, Lock, Registers
    <2>8. CASE FindToRegister(w) \/ Finish(w) \/ \E j \in Job : Begin(w, j)
      <3>1. ~FindToRegister(w)
        BY <1>1 DEF FindToRegister
      <3>2. answer' = answer \/ answer' = [answer EXCEPT ![w] = "none"]
        BY <2>8, <3>1 DEF Finish, Lead, Begin
      <3> QED
        BY <1>1, <3>2 DEF Decided, IndInv, TypeOK, Types
    <2>9. CASE Restart
      BY <1>1, <2>9 DEF Restart, Everyone, Decided
    <2>10. CASE UNCHANGED vars
      BY <1>1, <2>10 DEF vars, Decided
    <2> QED
      BY <1>1, <2>3, <2>4, <2>5, <2>7, <2>8, <2>9, <2>10, NextSplit DEF Quiet
  <1>2. IndInv /\ [Next]_vars =>
          (~Unreliable =>
             \A w \in Workers, a \in confirmed :
                 Decided(w) /\ job[w][1] = "2" /\ Name(w) = a[1] /\ a[1] \notin Exempt
                     => answer'[w] = Verdict(w, a[2]))
    BY <1>1
  <1> QED
    BY <1>2, Invariance, PTL DEF Spec, AccountOpens
=============================================================================
