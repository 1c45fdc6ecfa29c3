----------------------------- MODULE UserRegistry -----------------------------
(***************************************************************************)
(* Logins and registrations (http/http_conn.cpp): several workers in the   *)
(* first part of DoRequest.  A registration looks the name up in           *)
(* users_cache_ without the lock and adds it, to the user table and to     *)
(* users_cache_, with it.  A login looks the name up twice without the     *)
(* lock, by find and by operator[], which adds a name it does not find.    *)
(* The process may end at any time and be started again, which fills       *)
(* users_cache_ from the table (MysqlResultInit).                          *)
(*                                                                         *)
(* The schema is not in the repository: the table may take every row.  One *)
(* with a unique key refuses more, which QueryFails allows.                *)
(*                                                                         *)
(* A look-up without the lock may meet an insertion that is turning the    *)
(* tree and miss a name that is there.  When operator[] then adds it, two  *)
(* threads change the tree at once: the name has a second entry, and the   *)
(* tree may be torn, so that look-ups may miss names until a restart.  A   *)
(* walk of a torn tree that never ends is left out; one that ends the      *)
(* process is a Restart.                                                   *)
(***************************************************************************)
EXTENDS Naturals, Sequences

CONSTANTS
    Workers,      \* the threads of the pool
    Names, Passwords,
    Empty,        \* the password operator[] gives a name it adds
    MaxRequests,  \* bound: requests in a behaviour
    MaxStarts,    \* bound: restarts in a behaviour
    None          \* no worker, no request, no password

ASSUME UserRegistryAssumption ==
    /\ None \notin Workers /\ None \notin Passwords
    /\ None \notin {"2", "3"} \X (Names \X Passwords)
    /\ MaxRequests \in Nat /\ MaxStarts \in Nat

VARIABLES
    table,         \* rows of the user table, in the order of their insertion
    users_cache_,  \* name -> passwords of its entries: one, unless operator[] added one
    sql_lock_,     \* worker that holds it, or None
    pc,            \* worker -> its place in DoRequest
    job,           \* worker -> the request it handles, or None
    answer,        \* worker -> the page it leads to
    confirmed,     \* history: accounts clients were told they have
    raced,         \* history: names two registrations looked up at once
    missed,        \* history: names a registration did not find although they were there
    defaulted,     \* history: names operator[] added since the start of the process
    asked, starts  \* counters of the bounds

vars == <<table, users_cache_, sql_lock_, pc, job, answer, confirmed, raced, missed,
          defaulted, asked, starts>>

Account == Names \X Passwords

\* '3' registers, '2' logs in
Job == {"2", "3"} \X Account

Name(w) == job[w][2][1]
Password(w) == job[w][2][2]

Places == {"idle", "find", "compare", "lock", "query", "insert", "unlock"}
Pages == {"none", "log", "registerError", "welcome", "logError"}

\* Where a worker stands tells whether it has a request and the lock.
PlaceKnown ==
    \A w \in Workers :
        /\ pc[w] = "idle" <=> job[w] = None
        /\ pc[w] \in {"query", "insert"} => sql_lock_ = w
        /\ sql_lock_ = w => pc[w] \in {"query", "insert", "unlock"}

Types ==
    /\ table \in Seq(Account)
    /\ users_cache_ \in [Names -> SUBSET (Passwords \cup {Empty})]
    /\ sql_lock_ \in Workers \cup {None}
    /\ pc \in [Workers -> Places]
    /\ job \in [Workers -> Job \cup {None}]
    /\ answer \in [Workers -> Pages]
    /\ confirmed \subseteq Account
    /\ raced \subseteq Names /\ missed \subseteq Names /\ defaulted \subseteq Names
    /\ asked \in 0 .. MaxRequests /\ starts \in 0 .. MaxStarts

TypeOK == Types /\ PlaceKnown

Rows(rows, n) == {i \in DOMAIN rows : rows[i][1] = n}

\* Slip: the first row of a name wins.
PasswordOfFirst(rows, n) ==
    IF Rows(rows, n) = {} THEN None
    ELSE rows[CHOOSE i \in Rows(rows, n) : \A j \in Rows(rows, n) : j >= i][2]

\* the last row of a name wins
PasswordOf(rows, n) ==
    IF Rows(rows, n) = {} THEN None
    ELSE rows[CHOOSE i \in Rows(rows, n) : \A j \in Rows(rows, n) : j <= i][2]

\* Slip: the cache is not filled at the start.
LoadedNot(rows) == [n \in Names |-> {}]

\* MysqlResultInit
Loaded(rows) == [n \in Names |-> {PasswordOf(rows, n)} \ {None}]

Everyone(x) == [w \in Workers |-> x]

\* the table is empty
Init ==
    /\ table = <<>>
    /\ users_cache_ = Loaded(table)
    /\ sql_lock_ = None
    /\ pc = Everyone("idle") /\ job = Everyone(None) /\ answer = Everyone("none")
    /\ confirmed = {} /\ raced = {} /\ missed = {} /\ defaulted = {}
    /\ asked = 0 /\ starts = 0

----------------------------------------------------------------------------
Goto(w, l) == pc' = [pc EXCEPT ![w] = l]
Lead(w, page) == answer' = [answer EXCEPT ![w] = page]

\* a request whose url ends in 2 or 3 was parsed
Begin(w, j) ==
    /\ pc[w] = "idle" /\ asked < MaxRequests
    /\ job' = [job EXCEPT ![w] = j]
    /\ asked' = asked + 1
    /\ Goto(w, "find")
    /\ UNCHANGED <<table, users_cache_, sql_lock_, answer, confirmed, raced, missed, defaulted, starts>>

Inserting == \E v \in Workers : pc[v] = "insert"

\* operator[] changed the tree while an insertion did
Torn == defaulted # {}

Unreliable == Inserting \/ Torn

\* another registration of the name is between its look-up and its insertion
Overlaps(w) ==
    \E v \in Workers \ {w} : pc[v] \in {"lock", "query", "insert"} /\ Name(v) = Name(w)

Known(n) == users_cache_[n] # {}

\* what find(name) may say: whether the name is there
Finds(w) == {Known(Name(w))} \cup {found \in {FALSE} : Unreliable}

\* the look-up of a registration
FindToRegister(w) ==
    /\ pc[w] = "find" /\ job[w][1] = "3"
    /\ \/ /\ TRUE \in Finds(w)
          /\ Goto(w, "unlock") /\ Lead(w, "registerError")
          /\ UNCHANGED <<raced, missed>>
       \/ /\ FALSE \in Finds(w)
          /\ Goto(w, "lock") /\ UNCHANGED answer
          /\ raced' = raced \cup {n \in {Name(w)} : Overlaps(w)}
          /\ missed' = missed \cup {n \in {Name(w)} : Known(n)}
    /\ UNCHANGED <<table, users_cache_, sql_lock_, job, confirmed, defaulted, asked, starts>>

\* the first look-up of a login
FindToLogin(w) ==
    /\ pc[w] = "find" /\ job[w][1] = "2"
    /\ \/ /\ TRUE \in Finds(w)
          /\ Goto(w, "compare") /\ UNCHANGED answer
       \/ /\ FALSE \in Finds(w)
          /\ Goto(w, "unlock") /\ Lead(w, "logError")
    /\ UNCHANGED <<table, users_cache_, sql_lock_, job, confirmed, raced, missed, defaulted,
                   asked, starts>>

\* the page of a login whose password is compared with p
Verdict(w, p) == IF p = Password(w) THEN "welcome" ELSE "logError"

\* users_cache_[name] == password: an entry of the name is compared, or the name
\* is missed, and one with the empty password is added and compared
Compare(w) ==
    /\ pc[w] = "compare"
    /\ \/ /\ \E p \in users_cache_[Name(w)] : Lead(w, Verdict(w, p))
          /\ UNCHANGED <<users_cache_, defaulted>>
       \/ /\ Unreliable
          /\ users_cache_' = [users_cache_ EXCEPT ![Name(w)] = @ \cup {Empty}]
          /\ defaulted' = defaulted \cup {Name(w)}
          /\ Lead(w, Verdict(w, Empty))
    /\ Goto(w, "unlock")
    /\ UNCHANGED <<table, sql_lock_, job, confirmed, raced, missed, asked, starts>>

\* Slip: the lock is not waited for.
LockBarges(w) ==
    /\ pc[w] = "lock"
    /\ sql_lock_' = w
    /\ Goto(w, "query")
    /\ UNCHANGED <<table, users_cache_, job, answer, confirmed, raced, missed, defaulted, asked,
                   starts>>

Lock(w) ==
    /\ pc[w] = "lock" /\ sql_lock_ = None
    /\ sql_lock_' = w
    /\ Goto(w, "query")
    /\ UNCHANGED <<table, users_cache_, job, answer, confirmed, raced, missed, defaulted, asked,
                   starts>>

\* Slip: the result of INSERT is not looked at.
QueryUnchecked(w) ==
    /\ pc[w] = "query"
    /\ table' \in {table, Append(table, job[w][2])}
    /\ Goto(w, "insert")
    /\ UNCHANGED <<users_cache_, sql_lock_, job, answer, confirmed, raced, missed, defaulted,
                   asked, starts>>

\* INSERT succeeds ...
Query(w) ==
    /\ pc[w] = "query"
    /\ table' = Append(table, job[w][2])
    /\ Goto(w, "insert")
    /\ UNCHANGED <<users_cache_, sql_lock_, job, answer, confirmed, raced, missed, defaulted,
                   asked, starts>>

\* ... or fails, before or after the server took the row
QueryFails(w) ==
    /\ pc[w] = "query"
    /\ table' \in {table, Append(table, job[w][2])}
    /\ Goto(w, "unlock") /\ Lead(w, "registerError")
    /\ UNCHANGED <<users_cache_, sql_lock_, job, confirmed, raced, missed, defaulted, asked,
                   starts>>

\* std::map::insert leaves a name that it finds as it is
Insert(w) ==
    /\ pc[w] = "insert"
    /\ \/ /\ Known(Name(w)) /\ UNCHANGED users_cache_
       \/ /\ ~Known(Name(w)) \/ Torn
          /\ users_cache_' = [users_cache_ EXCEPT ![Name(w)] = @ \cup {Password(w)}]
    /\ Goto(w, "unlock") /\ Lead(w, "log")
    /\ UNCHANGED <<table, sql_lock_, job, confirmed, raced, missed, defaulted, asked, starts>>

\* Slip: the lock is kept.
FinishLocked(w) ==
    /\ pc[w] = "unlock"
    /\ confirmed' = IF answer[w] = "log" THEN confirmed \cup {job[w][2]} ELSE confirmed
    /\ Goto(w, "idle") /\ Lead(w, "none")
    /\ job' = [job EXCEPT ![w] = None]
    /\ UNCHANGED <<table, users_cache_, sql_lock_, raced, missed, defaulted, asked, starts>>

\* the lock is released if it was taken, and the client is answered
Finish(w) ==
    /\ pc[w] = "unlock"
    /\ sql_lock_' = IF sql_lock_ = w THEN None ELSE sql_lock_
    /\ confirmed' = IF answer[w] = "log" THEN confirmed \cup {job[w][2]} ELSE confirmed
    /\ Goto(w, "idle") /\ Lead(w, "none")
    /\ job' = [job EXCEPT ![w] = None]
    /\ UNCHANGED <<table, users_cache_, raced, missed, defaulted, asked, starts>>

\* the process ends, wherever its threads are, and is started again
Restart ==
    /\ starts < MaxStarts
    /\ starts' = starts + 1
    /\ users_cache_' = Loaded(table) /\ defaulted' = {}
    /\ sql_lock_' = None
    /\ pc' = Everyone("idle") /\ job' = Everyone(None) /\ answer' = Everyone("none")
    /\ UNCHANGED <<table, confirmed, raced, missed, asked>>

----------------------------------------------------------------------------
Step(w) ==
    \/ FindToRegister(w) \/ FindToLogin(w) \/ Compare(w)
    \/ Lock(w) \/ Query(w) \/ QueryFails(w) \/ Insert(w) \/ Finish(w)

Exhausted == (\A w \in Workers : pc[w] = "idle") /\ asked = MaxRequests /\ UNCHANGED vars

Next ==
    \/ \E w \in Workers : Step(w) \/ \E j \in Job : Begin(w, j)
    \/ Restart
    \/ Exhausted

\* Workers go on; a mutex that is free again and again is got.
Fairness ==
    \A w \in Workers :
        WF_vars(Step(w)) /\ SF_vars(Lock(w))

Spec == Init /\ [][Next]_vars /\ Fairness

----------------------------------------------------------------------------
\* Who was told to have an account has it: its password is one that logins are
\* compared with, and the only one but for the empty password that operator[] may
\* have given the name; and it is the one that a restart will load, also when an
\* earlier INSERT of the name failed after the server had taken it.  Two kinds of
\* names are left out, since either can lose its account: one of which two
\* registrations overlapped (raced), and one that a registration did not find
\* although it was there (missed), beside an insertion of whatever name or in a torn
\* tree (http_conn.cpp:602-618, 241-248).
Exempt == raced \cup missed

AccountKept ==
    \A a \in confirmed : a[1] \notin Exempt =>
        /\ a[2] \in users_cache_[a[1]]
        /\ \A p \in users_cache_[a[1]] : p = a[2] \/ (p = Empty /\ a[1] \in defaulted)
        /\ Loaded(table)[a[1]] = {a[2]}

\* What the cache says survives every crash: an entry has its row, but for the
\* empty password of a name that operator[] added since the start of the process
\* (http_conn.cpp:606-611, 623).
CacheBacked ==
    \A n \in Names : \A p \in users_cache_[n] :
        \/ \E i \in Rows(table, n) : table[i][2] = p
        \/ p = Empty /\ n \in defaulted

\* A login in which no insertion is met and no tree is torn is decided by what
\* clients were told, by whatever workers, failures and restarts the account came
\* to be: its own password opens it and no other does.  Names in raced and missed
\* are left out as above (http_conn.cpp:602-618, 623).
Decided(w) == answer[w] = "none" /\ answer'[w] # "none"

AccountOpens ==
    [][~Unreliable =>
          \A w \in Workers, a \in confirmed :
              Decided(w) /\ job[w][1] = "2" /\ Name(w) = a[1] /\ a[1] \notin Exempt
                  => answer'[w] = Verdict(w, a[2])]_vars

\* A request is answered: the lock is never kept (http_conn.cpp:605-614).
Served == \A w \in Workers : pc[w] # "idle" ~> pc[w] = "idle"
===============================================================================
