# MyTinyWeb in TLA+

A verification project for MyTinyWeb, a small HTTP server in C++: one event loop
on `epoll`, a pool of worker threads, a pool of MySQL connections and a sorted
list of idle timers. The modules are translated from the source (paths below are
relative to the repository's root), checked by TLC on small instances, and, where
a property matters most, proved by TLAPS for every value of the constants.

Contents: 1 the system · 2 the plan · 3 the modules and the code · 4 the runs ·
5 fairness · 6 the proofs · 7 findings · 8 what is not covered.

## 1. The system

### Components, their state and operations

| component | source | state | operations | module |
|---|---|---|---|---|
| Event loop | `webserver.cpp`, `webserver.h` | `clock_flag`, `stop_server_flag`, the events of the round, `client_resource_[fd]` | `EventLoop`, `HandleNewConn`, `HandleReadEvent`, `HandleWriteEvent`, `AddTimer`, `DelayTimer`, `DelTimer`, `DealWithSigna` | `WebServer` |
| Connection slots | `http/http_conn.*` | one `HttpConn` per descriptor: `sockfd_`, `completed_flag_`, `close_conn_flag_`, `http_state_`, the two buffers; the static `client_counts_` | `Init`, `HttpClear`, `ReadOnce`, `Write`, `Process`, `CloseConn` | `WebServer` for flags and descriptors, `HttpConn` for what is in a slot |
| Idle timers | `timer/list_timer.*` | the list, each timer's expiry and user data, the alarm | `AddTimer`, `AdjustTimer`, `RemoveTimer`, `Tick`, `SigHandler`, `ReleseResource` | `SortTimerList`, and inside `WebServer` as a set |
| Thread pool | `threadpool/threadpool.h` | `workqueue_`, its lock and semaphore | `ReactorAppendRequests`, `Run` | `ThreadPool`, inside `WebServer` as an atomic queue |
| Locks | `lock/locker.h` | mutex, counting semaphore | `Sem::Wait/Post`, `Locker::Lock/Unlock` | in `ThreadPool` and `ConnectionPool` |
| Database connection pool | `cgi_mysql/sql_connection_pool.*` | `connList`, `reserve`, `lock` | `Init`, `GetConnection`, `ReleaseConnection`, `ConnectionRAII` | `ConnectionPool` |
| Request parsing | `http/http_conn.cpp` | `check_state_`, `checked_idx_`, `start_line_`, `read_index_` | `ProcessRead`, `ParseLine`, `ParseRequestLine`, `ParseHeaders`, `ParseContent` | `RequestParser`, composed in `HttpConn`; one choice of outcome in `WebServer` |
| Response writing | `http/http_conn.cpp` | `m_iv_`, `iv_count_`, the two byte counters, the mapped file | `DoRequest` from `stat` on, `ProcessWrite`, `Write`, `Unmap` | `ResponseWriter`, composed in `HttpConn` |
| Login and registration | `http/http_conn.cpp` | `users_cache_`, `sql_lock_`, the user table | `DoRequest` up to the page it leads to, `MysqlResultInit` | `UserRegistry` |
| Start-up | `main.cpp`, `webserver.cpp`, `util/util.*` | configuration | `ParameterSet`, `SocketInit`, `ListTimerInit`, wrappers of system calls | gives the initial states |
| Shutdown | destructors | | `~WebServer`, `~SortTimerList`, `~ThreadPool` | none (section 8) |
| Pages | `root/` | | | none |

### How they interact

*Reactor* (the model of `-a r`). The loop gets an event, puts the timer off,
appends the slot to the pool's queue with a direction in `http_state_`, and spins
on `completed_flag_`. A worker pops the slot, reads or writes, sets
`completed_flag_`, and after a failure also `close_conn_flag_`, in this order
(`threadpool.h:176-178, 189-191`). After a read it parses, fills the write buffer
and arms the descriptor again (`http_conn.cpp:252-273`), while the loop already
goes on.

*Proactor* (`-a p`). The loop reads and writes itself and leaves only parsing to
the pool; it waits for nobody and ignores that an append was refused.

*Shared without a lock*: everything in a slot, and `client_counts_`. What keeps
two threads off one slot is only that a descriptor is registered with
`EPOLLONESHOT` (`util.cpp:4-34`): it is reported once and then off until it is
armed again.

*Time*: `alarm` raises `SIGALRM`, whose handler writes to a pipe, which is an event
of the loop, which sets `clock_flag`, upon which `Tick` closes what the expired
timers point at and sets the alarm again. The timer of a descriptor is found
through `client_resource_[fd].timer`; nothing clears that pointer when the timer
is freed.

*Descriptors are reused* as soon as they are closed, and a slot is its
descriptor's: whatever was left in it, or is still done to it, meets the next
connection.

### What is hard here, and what correctness means

| hazard | properties |
|---|---|
| the loop looks at two flags a worker sets in two steps | `NoCrossTalk` |
| a completion taken for another request's; a spin without end, a `Write` without end | `CompletionMatches`, `QueueDrained`, `SpinEnds` |
| a slot handled by two threads, or closed under its worker; a connection refused by a full queue | `OneHandler` (refinement of `Ownership`), `NoCrossTalk` |
| a request that is in nobody's hands: neither armed nor queued | `PoolGivesBack` |
| a timer freed while an event, a pointer or a spinning loop still leads to it | `TimerAlive` |
| a connection no timer will ever close, a timer that closes another's descriptor | `OpenHasTimer`, `ClosesOnlyIdle` |
| a pointer of the list left behind by the head, tail or inner case of a change | `WellLinked`, `CallsEnd` |
| the list not in the order on which `Tick` relies when it stops early | `Sorted`, `ImplementsTimerSet` |
| the chain alarm, handler, pipe, event, `Tick`, alarm breaks | `TimeoutEnforced` |
| a termination that comes while the loop is busy or together with an alarm | `StopHonoured` |
| the queue at its capacity | `ImplementsWorkQueue` |
| a wake-up lost between list and semaphore, a wait cut short by a signal | `NoLostWakeup` |
| the list of connections looked at without the lock, the result of the wait ignored | `Accounted`, `NeverNull`, `NeverAborts`, `ReserveCounts`, `Served` |
| a request cut anywhere by the network, resumed by the next read | `Answered`, `OwnBody`, `NoRequestMeansMore` |
| a response cut anywhere by `writev`, with two buffers and two counters to put right; its length in an `int` | `ImplementsExchange` |
| a status with no case, an empty file, a file that cannot be mapped | `Answered` |
| a slot used for request after request and connection after connection | `ImplementsExchange`, `OwnBody` |
| a descriptor armed for the wrong event or not at all | `Answered` |
| a mapping released with the size of another file, twice or never | `MappingSound` |
| a name looked up without the lock and inserted with it | `AccountKept` |
| a look-up beside an insertion misses a name: it is registered again, or `operator[]` adds it | `AccountKept`, `AccountOpens`, `CacheBacked` |
| an INSERT that fails after it took effect; a crash between table, cache and answer | `AccountKept`, `CacheBacked` |

`PROJECT.json` lists the hazards at their lines, those no property covers included.

## 2. The plan

Done, in this order: `WorkQueue` and `ThreadPool`; `ConnectionPool`; `WebServer` in
both models with `Ownership`; `SortTimerList` and `TimerSet`; the proofs of these four;
`RequestParser` and `ResponseWriter`, composed in `HttpConn` and held against
`Exchange`, with the first theorems about them; `UserRegistry` and its proofs; the proofs
that `Ownership` and then that `Exchange` holds. `PROJECT.json` maps every definition to its
lines. Shutdown was planned and dropped: section 8 says why.

## 3. The modules and the code

### `ThreadPool` implements `WorkQueue`

`WorkQueue` is the promise: a queue of at most `requests_list_max_` jobs, first in
first out, each job taken by one worker. `ThreadPool` is `threadpool.h` at the
granularity at which another thread can see a difference: a critical section is
the step that acquires the mutex and one step for its body with the release.
The semaphore is its value; `SemInterrupted` is the wait a signal ends
(`Addsig(..., false)` installs handlers without `SA_RESTART`), whose result `Run`
ignores. `Dispatch` is the test of `request->http_state_`, outside the lock.

The mapping takes a job to be in a worker's hand from the pop on, with the
direction the slot has then. It is right only because of the caller: `Settled` says
that no other direction is asked for while one is unread. That is an obligation of the
event loop, not a test of the pool, and `ImplementsWorkQueue` shows nothing about a loop that breaks
it. The reactor's loop keeps it, since it waits for a request until a worker has
read the direction and finds the queue empty at the next append (`CompletionMatches`,
`QueueDrained`, proved in `WebServerProofs`); the proactor's loop only ever passes 0
(`ProactorRead`). `HttpClear` also writes `http_state_`; the worker
that calls it has dispatched the slot, and the loop calls it for slots that are
not queued.

### `ConnectionPool`

`GetConnection` in the steps it really takes: the length of the list without the
lock (`GetNothing`, `GetSome`), the wait (`Wait`, or `WaitInterrupted`, whose
result is ignored), the lock, the pop. `PopEmpty` is `pop_front` of an empty
`std::list`, which frees the sentinel inside the pool object; the allocator aborts.
`std::list::size` is read as one step although it races with the lock's holder.
`Init` is the state after `ConnectionPool::Init` and `MysqlResultInit`.

The pool keeps its promise as long as no more threads are inside, or hold a connection,
than there are connections. The history variable `crowded` remembers that a call found
it otherwise; `NeverNull`, `NeverAborts`, `ReserveCounts` and `Served` hold until then,
`Accounted` always.

### `SortTimerList` implements `TimerSet`

`TimerSet` is what the event loop needs: every timer in use has a deadline, and a tick
takes the timers that are due and no other. `SortTimerList` is `list_timer.cpp` pointer by
pointer: `head`, `tail`, and `prev`, `next`, `expire` of every address.

| code | definition |
|---|---|
| `AddTimer(timer)`, with the `new` and the expiry of `WebServer::AddTimer` | `AddFirst`, `AddBefore`, `AddBehind` |
| `AdjustTimer`, with the expiry set by `WebServer::DelayTimer` | `AdjustNot`, `AdjustHead`, `AdjustInner` |
| `RemoveTimer` | `RemoveOnly`, `RemoveHead`, `RemoveTail`, `RemoveInner` |
| the private `AddTimer(timer, lst_head)` | `InsertAfter`; `Walk`, `Place` for the turns of its loop |
| `Tick` | `TickBegin`; `TickFree` for a turn, `TickEnd` |

Every turn of a loop is a step, so that a cycle or a pointer to freed memory would be
seen. A deleted timer keeps its fields as they are: the properties say that nothing leads to
it. What `cb_func` does for the connection is in `WebServer`. The clock is `time(NULL)`:
it moves by itself and may be set back, which `setBack` remembers.

### `HttpConn` implements `Exchange`

`Exchange` is what a connection promises its client: it asks one request after the other,
and what it has got is at any time the beginning of the answer to the request it asked last.
`HttpConn` is one slot that several connections use one after the other, with the client and
the network at its other end. It composes the two halves of `http_conn.cpp`, each a module
with its own fields: `RequestParser` up to a complete request, `ResponseWriter` from the page
asked for to the last `writev`.

| code | definition |
|---|---|
| `ReadOnce`, level triggered | `ReadOnce`, `ReadFull` |
| `ParseLine`, and a turn of the loop of `ProcessRead` by what it finds | `ParseLine`; `RequestLineTurn`, `BadRequestLine`, `HeaderTurn`, `HeaderEnds`, `ContentFollows`, `ContentTurn`, `ContentEnds`, `NoLine` |
| `DoRequest` from `stat` on, with whatever `open` and `mmap` return | `MmapReturns`, `DoRequest`, `Request` |
| `DoRequest` reading name and password at a `heard_string_` that is not this request's | `Stray`, `RequestCrash` |
| `ProcessWrite` | `Refused`, `ProcessWrite`; `Reply`, `Drop` with the rest of `Process` |
| `Write` | `NothingToSend`, `WriteBegin`, and for every `writev` `WriteSome`, `WriteLast`, `WriteClose`, `WouldBlock`, `WriteError` |
| `Unmap` | `Unmap`, `Unmapped` |
| `HttpClear`, `Init`, the close of a socket | `HttpClear`, `Connect`, `Shut` |

Abstractions:

- A byte of a request is CR, LF, the content of a whole line, or a byte of the body: the
  code looks for CR and LF and reads what is between them only when it has the line. A
  request can be cut between any two of these, between CR and LF too. What a line says
  is a table (`RequestLines`); methods, versions and host names are not.
- A byte of a response is its place in the header or file it belongs to, so bytes
  that are missing, repeated or of another response are visible.
- `Deliver` is only enabled while the slot is watched. A piece that comes during a turn
  changes nothing the turn looks at, since `recv` is called once; it may as well come later.
- The client asks again only when it has its answer. `HttpClear` wipes what was sent ahead.
- One thread has the slot at a time: `OneHandler` of `WebServer` is about that.
- The page a login leads to is already in `url_`: `UserRegistry` is about that.
- `heard_string_` is a place in `read_buffers_`, which `HttpClear` wipes while the pointer stays. What
  a login without a body reads there is not modelled further: it may be anything that is left in the buffer, or have
  no end, and then the process ends (`RequestCrash`) and is started again with an unused slot.
  `http_conn` has such logins too.
- Neither `open` nor `mmap` is looked at: the file may be `MAP_FAILED`, for no bytes it always is. `writev`
  then fails at the second buffer (`BadVector`).
- `file_address_` is never initialised. It is NULL because `new HttpConn[kFD_MAX]` is a
  fresh anonymous mapping of many megabytes; `Unused` says so.
- A `writev` after `EPOLLOUT` takes at least a byte; the ones after it may find the socket
  full. One that is given no bytes returns 0 whatever the socket is about (`MayFail`): `Write` does not leave
  its loop then. An int wraps beyond `IntMax`, and its comparison with a `size_t` is unsigned.

`Answer` is what a client is to get: a 404 for a missing page and the small page for an empty file
included, as the repository says (`README.md:230-248`), although the code closes the connection instead.
`ImplementsExchange` and `Answered` allow a connection to be closed at any time, so a client that
gets nothing is not counted as a violation; section 7 lists it.

The properties end at three things the code does not get right, each named by a definition and
explained in section 7:

| exception | definition | in |
|---|---|---|
| a header cut more than once | `cuts`, in `Garbled` | `ImplementsExchange`, `Answered` |
| a response whose length is no `int` | `Overflows`, in `Garbled` | `ImplementsExchange`, `Answered` |
| a body that came in parts | `bodyCut` | `Answered`; the run `http_conn_cut` shows what happens |

Everything else the network may do to a request or a response is under the three. `OwnBody` has no exception.

### `UserRegistry`

The first part of `DoRequest`, run by several workers.

| code | definition |
|---|---|
| registration: `find`, outside `sql_lock_` | `FindToRegister` |
| the lock, the INSERT, `users_cache_.insert`, the unlock with the answer | `Lock`, `Query` or `QueryFails`, `Insert`, `Finish` |
| login: `find(name)`, then `users_cache_[name] == password`, neither under the lock | `FindToLogin`, `Compare` |
| `MysqlResultInit` at the start | `Loaded`, `Restart` |

An INSERT that fails for the client may have taken effect. A look-up beside an `insert` is a data
race: the tree may be in the middle of a rotation, and the search may then miss a name that is there
(`Finds`, `Unreliable`). When the second look-up of a login misses, `operator[]` adds the name with
an empty password and no row. Two threads then change the tree at once: the name has two entries
(`users_cache_` maps a name to the set of its entries), and from then on until a restart the tree
may be torn and every look-up may miss (`Torn`). A walk of a torn tree that does not end is left
out; one that ends the process is a `Restart`.

The schema of the table is not in the repository, so it
takes every row (one with a unique key refuses more, which `QueryFails` allows); `MysqlResultInit` reads them in
order of insertion and the last row of a name wins, while `std::map::insert` lets the first one win. `Restart` ends the process
with its threads anywhere and starts it again. How `name` and `password` are cut out of the
body, and the text of the SQL statement, are left out.

Three history variables name what the code gets wrong. `raced`: names that two registrations looked up at once.
`missed`: names a registration did not find although they were there, which any other insertion can cause.
`defaulted`: names that `operator[]` added since the start. `AccountKept` and `AccountOpens` leave out names in
`raced` and `missed`, and `CacheBacked` the empty password of `defaulted` ones.

### `WebServer`

One action per handler of the loop, and workers in as many steps as the loop or
another worker can tell apart.

| code | definition |
|---|---|
| `epoll_wait`; the events may come in any order | `EpollWait`, `Handle` |
| `HandleNewConn`: accept fails, too many users, or a new connection | `AcceptFails`, `Reject`, `HandleNewConn` |
| the `EPOLLRDHUP / HUP / ERR` branch | `HandleHup` |
| `HandleReadEvent`, `HandleWriteEvent`, reactor | `ReactorHandle`, `Spin` |
| `HandleReadEvent`, `HandleWriteEvent`, proactor | `ProactorRead`, `ProactorWrite` |
| `DealWithSigna` | `DealWithSigna` |
| `if (clock_flag)` at the end of a round, `Tick`, the loop's condition | `EndRound`, `Tick` |
| `Run` | `Take`, `WorkerRead`, `WorkerWrite`, `Mark` |
| `Process` | `Parse`, `Reply`, `Rearm`, and `CloseConn` as `DropFd`, `DropMark`, `DropCount`, `DropStore` |

Abstractions, and why they lose nothing the properties are about:

- A connection is a name. The read buffer of a slot is the connection whose bytes
  it got last, the write buffer the connection whose request it answers, so that
  mixed-up data are visible; what the bytes are is not. `Parse` chooses among
  `Answers`: `incomplete` (`NO_REQUEST`), `reply` (a response is made), `drop`
  (`ProcessWrite` returns false, as it does for a file that is missing or empty).
- A timer is named after the connection it was made for. The list is a set: the
  expiry of every timer is its last use plus a constant, so the order of the list is
  the order of use. `age` counts slots of `kTIMESLOT` seconds, up to `IdleSlots`
  (3 in the code, 1 or 2 in the runs). That the pointer list behaves as such a set is
  what `SortTimerList` shows; `WebServer` takes a clock that is not set back.
- The queue of the pool is atomic, which is what `ThreadPool` implements. The
  database pool is left out: with as many connections as workers (8 and 8) no
  worker ever waits for one or goes without (theorem `EnoughConnections`).
- `HandleNewConn`, with `HttpConn::Init` and `AddTimer`, is one step; so are the
  calls of `recv` and `writev` with what they lead to, up to and with the assignment
  of `completed_flag_`. A worker left over from the slot's earlier connection is
  thereby before or after these, not in the middle.
- `Write` either returns in one step or does not return: once the header of an error page has been cut twice
  (`Spend`, a choice where `CutsTwice` allows it) the loop of `Write` goes round for ever (`Endless`, `WriteAgain`),
  in the worker in the reactor, in the event loop itself in the proactor. `HttpConn` has that loop byte by byte
  (`WriteSome`, which a `writev` that is given nothing repeats).
- The loop's look at `completed_flag_` and at `close_conn_flag_` is one step: of the
  orders in which it may meet the worker's two assignments, the ones in which the
  two looks differ end as one in which they do not.
- The flags are plain `int`s. The makefile compiles with `-g` and no optimisation, so
  each look is a load of its own. An optimising build could hoist the load out of
  the loop; that is not modelled.
- `client_counts_--` of a worker is a load and a store. When another thread changes
  the counter in between, either's update may be the one lost; the loop's own
  updates are single steps.
- Level-triggered mode only: no option selects the other one.
- The first `EPOLLONESHOT` disarms when the event is reported. Events of one round are
  handled in any order, one per descriptor.
- `SIGTERM` and `SIGALRM` are in the pipe or not: the loop only asks whether one came.

`Ownership` is what `EPOLLONESHOT` is for: a connection is with the kernel, the loop
or the pool, moves between them in that order, and is closed only by the loop or for
being idle. A pool that holds as many connections as its queue has places may refuse another one (`Refuse`), which
then is with nobody, and stays so until its timer expires. `OneHandler`, the safety part, maps the variables of
`WebServer` to the party that has each connection; `PoolGivesBack`, its fairness, says that the pool does not keep one for ever.

### Constants

`Prompt` says that no slot of time (5 s) passes while the pool has work. It is
not in the code; without it a worker may be overtaken by its connection's timer (section 7). Among the
runs whose properties hold only `proactor_clean` sets it to `TRUE`; the violation runs of `WebServer` do too, so that what they find does not come from such a tick. `CutsTwice` says whether `Write` may not return: it is `TRUE` in
every run whose properties hold where a reply can be cut, `reactor_live` included. `Answers`, `MayStop` and
`kFD_MAX` choose which part of the behaviour a run is about.

## 4. The runs

| run | what it asks | instance |
|---|---|---|
| `threadpool` | does the pool lose a wake-up, and does it implement `WorkQueue`? | 2 workers, 2 slots, 2 places: both the full queue and two workers at one entry occur; 58 008 states |
| `sqlpool` | are connections lost or shared, and are callers served while connections suffice? | 3 threads, 2 connections: two callers at a time are enough, three are `crowded`, and then the interrupted wait and the pop of an empty list occur; 2 426 states |
| `http_conn` | does a client get the answer to its own request, however both are cut? | 1 slot, 2 connections, 2 requests out of 13: with and without keep-alive, logins with one of two bodies or none, a wrong request line, lines that end in LF alone, a page that is there, empty, missing, secret, a directory, or too long for an int, files that cannot be mapped; 202 793 states |
| `registry` | are accounts kept, and do they open by their own password only? | 2 workers, 2 names, 2 passwords of which one is empty, 4 requests, 1 restart; 559 956 states |
| `timers` | is the list well linked and sorted in the middle of every call, does every call end, and does a tick close what is due? | 3 timers, a term of 2, a clock up to 3: head, inner and tail cases, insertion before the head by a clock set back, a tick that takes some, all or none; 417 thousand states |
| `reactor` | do timers match connections, completions requests? | 2 descriptors reused by 2 connections, 2 workers, all outcomes, time, `SIGTERM`, a `Write` that does not return; 1.3 million states |
| `proactor` | the same timers when the pool's queue overflows and users are refused | 3 connections for 2 descriptors, a queue of 1, `kFD_MAX` 5; 2.1 million states |
| `proactor_clean` | is `EPOLLONESHOT` enough for one handler at a time, and does every request come back from the pool? | 3 connections for 2 descriptors, 2 workers, a queue of 1 that is full when the second descriptor is read before a worker pops the first; every request answered, `Prompt`; 301 621 states |
| `reactor_live` | do spins end, timeouts happen, terminations stop the loop, where `Write` returns? | 1 descriptor, 2 connections, 1 worker, and a `Write` that may not return; 153 884 states |
| `reactor_crosstalk` | do foreign bytes get into a slot of the reactor? They do (section 7) | 2 descriptors, 3 connections, every request answered, `Prompt` |
| `proactor_orphan` | does a tick close a connection in use where workers drop requests? It does | the instance of `proactor_clean` with a queue of 2 and requests that are dropped |
| `http_conn_cut` | is a whole request taken for an incomplete one? It is | one login, cut inside its body |

Two descriptors, two workers: every hazard of section 1 is about one slot and two
parties, or about two connections that use one descriptor after another; the second
descriptor makes events of one round meet, and lets an accept or a `Tick` come between
the steps for the first. Three connections are needed for a descriptor used a third
time, and for a second user of one descriptor while the other is still held.
`IdleSlots` is 1 where nothing depends on a timer being put off in time, and 2 where a
connection must be able to be idle for part of its time. The liveness run has one
descriptor and one worker because a connection's timer, the alarm and the spin involve
no other; without symmetry, which is unsound for liveness, two of each is beyond five
minutes.

`http_conn`: two requests, on one connection or on two, are what it takes for one to meet what another
left in the slot; the two logins with bodies have different ones, so that a body of the other would be seen. The read
buffer has 12 bytes, so that the longest request (a login that keeps the
connection, 13) does not fit and every other one does; a header of 4 bytes can be cut three
times; an int ends at 7, so that files of 5 and 12 bytes make the length of the response negative
and zero.

`registry`: two workers are the two registrations of a name that meet, and a look-up that meets
an insertion of another name. Four requests are two registrations, a login that misses the name in its second
look-up and tears the tree, and what a third registration or login makes of that; or a registration that
fails, one that succeeds, and logins after a restart.

Deadlock is checked in every run. A `WebServer` that stopped and a pool that aborted
stutter (`Exited`, `crashed`), as do the bounds of requests and connections (`Exhausted`);
nothing else may stop: in the bounded instances of `WebServer` time can always pass.

Every property has a mutant: a definition with a plausible slip (`\* Slip:` in the
modules, next to what it falsifies), under which TLC finds the property violated.

## 5. Fairness

- `ThreadPool`: weak fairness of the loop's steps, of each worker's steps and of
  `sem_wait` (the scheduler runs what can run; no wait is interrupted for ever), and
  strong fairness of `Lock`. Weak fairness is too little for the mutex: when the
  queue is full the loop may lock, be refused and come back for ever, so the mutex is
  free again and again but never stays free for a waiting worker. Nothing makes the
  loop append.
- `ConnectionPool`: the same for the steps inside the pool. `Release` is not fair: a
  job may keep its connection for ever, and `Served` shows that nobody waits for it.
- `SortTimerList`: the loop's thread goes on inside a call (`Step`); nothing makes it call.
  It implements the fairness of `TimerSet`, that a tick which began comes to its end.
- `WebServer`: the loop and the workers run; `epoll_wait` returns when the pipe has
  something (level triggered); time passes. Clients do nothing they need not.
  `SpinEnds`, `TimeoutEnforced` and `StopHonoured` rest besides on `Write` returning. Each names the
  exception (`Endless`, `Hung`: a `Write` that goes round for ever), so the run has such writes too.
- `HttpConn`: weak fairness of all that the slot's threads do (`Server`): threads go on,
  and `epoll` reports an armed descriptor with bytes or room. A client takes what is sent:
  without that no server answers. Neither the client's steps nor the timer are
  fair, so `Answered` does not rest on a timeout.
- `UserRegistry`: workers go on (weak), and a worker gets a mutex that is free again and
  again (strong `Lock`). Requests and restarts are not fair.

## 6. The proofs

The theorems hold for any finite sets of descriptors, connections, workers and threads, any
names and passwords, any capacities and both models, under the named assumptions of the modules
(`ThreadPoolAssumption`, `ConnectionPoolAssumption`, `SortTimerListAssumption`,
`WebServerAssumption`, `UserRegistryAssumption`: sets are finite where they are counted, `None`, `NULL` and `NoFd`
are no members, capacities are positive; `RequestParserAssumption`, `ResponseWriterAssumption`, `HttpConnAssumption`:
what the tables of lines and pages look like, that no line is a CR or an LF, and that a header fits an int), which TLC evaluates in each run.

| theorem | says |
|---|---|
| `ThreadPoolProofs!TypeCorrect` | types, the capacity of the queue included |
| `ThreadPoolProofs!WakeupsNeverLost` | `[]NoLostWakeup` |
| `ThreadPoolProofs!PoolIsQueue` | the pool implements `WorkQueue`'s safety part |
| `ConnectionPoolProofs!ConnectionsAccounted` | `[]Accounted`, for any number of threads |
| `ConnectionPoolProofs!TypeCorrect` | types |
| `ConnectionPoolProofs!CallersGetConnections` | `[]NeverNull`: no `NULL` while not `crowded` |
| `ConnectionPoolProofs!NeverPopsEmpty` | `[]NeverAborts`, interrupted waits included |
| `ConnectionPoolProofs!SemaphoreExact` | `[]ReserveCounts` |
| `ConnectionPoolProofs!EnoughConnections` | with at least as many connections as threads the pool is never `crowded` |
| `SortTimerListProofs!TypeCorrect` | types |
| `SortTimerListProofs!ListWellLinked` | `[]WellLinked`, for any number of timers |
| `SortTimerListProofs!ListSorted` | `[]Sorted` |
| `SortTimerListProofs!ListIsTimerSet` | the list implements `TimerSet`'s safety part |
| `WebServerProofs!TypeCorrect` | types |
| `WebServerProofs!EveryConnectionTimed` | `[]OpenHasTimer` |
| `WebServerProofs!NoTimerUsedAfterFree` | `[]TimerAlive` |
| `WebServerProofs!CompletionsMatch` | `[]CompletionMatches` |
| `WebServerProofs!QueueAlwaysDrained` | `[]QueueDrained` |
| `OwnershipProofs!OneHandlerAtATime` | a clean proactor, whatever the capacity of its queue, implements `Ownership`'s safety part |
| `OwnershipProofs!BuffersAreOwn` | `[]NoCrossTalk` for a clean proactor |
| `OwnershipProofs!OnlyIdleExpire` | `ClosesOnlyIdle` for both models, as long as no request is dropped |
| `HttpConnProofs!TypeCorrect` | types; the parser's indices stay in order and inside what was received, whatever a client sends and however it is cut |
| `HttpConnProofs!MappingsReleased` | `[]MappingSound` |
| `ExchangeProofs!ConnInvariance` | at every place of a slot, what was read and what is still to come are the request, and what was sent and what the slot holds are the answer |
| `ExchangeProofs!BodiesAreOwn` | `[]OwnBody` |
| `ExchangeProofs!SlotKeepsExchange` | `ImplementsExchange`: a slot implements `Exchange` for any requests, files and sizes |
| `UserRegistryProofs!TypeCorrect` | types, and that a worker past its wait, and no other, has the lock |
| `UserRegistryProofs!AccountsKept` | `[]AccountKept` |
| `UserRegistryProofs!CacheAlwaysBacked` | `[]CacheBacked` |
| `UserRegistryProofs!AccountsOpen` | `AccountOpens` |

*ThreadPool.* The inductive invariant is the types, that the mutex is held exactly by
the thread whose place says so (`LockInv`), and that a thread's arguments are there
when its place needs them (`ArgsInv`). On it rests the balance of wake-ups, by how each
step changes the cardinality of the awake workers. For the refinement the caller's
promise must survive until the push (`SettledInv`): meanwhile workers only pop and read.
Two lemmas say that pairing entries with directions commutes with `Append` and `Tail`.

*ConnectionPool.* `Accounted` is not inductive: one must know that a thread holds a
connection only between pop and push (`HoldInv`), who has the lock (`LockInv`), and that
list and holders together are as many as there are connections (`Balance`). The others count
the threads between wait and post: while the pool is not crowded they are fewer than the connections
whenever another thread comes, so the semaphore is positive, the wait never blocks and
thus is never cut short.

*SortTimerList.* All ways to change the links come down to two, which are lemmas: `Detach`
takes one timer out of the list, `Attach` puts one in between two neighbours or at an end.
That no timer is cut off would call for induction along the list; `Connected` says
instead that every set of timers closed under `prev` has the head in it, which is as strong
and is preserved by arguments about one set at a time. `Sorted` needs besides `WellLinked`
that the timer being inserted is not due before the place where the walk stands
(`Ahead`). For the refinement `NoneDueBehind` applies `Connected` to the set of timers that are
due: the head of a sorted list is due if any timer is, so a tick that stops leaves none.

*WebServer.* The inductive invariant is the types, that a worker off the queue has a slot
(`Busy`), and `TimerInv`: besides `OpenHasTimer` and `TimerAlive` it says that a connection
nobody made yet has left no trace, that a listed timer found at a descriptor closes that
descriptor, that a round has one event per descriptor, and that the loop spins with the
timer of its descriptor, whose event is taken. The third is why a handler that frees a
timer leaves no event behind that leads to it. And for the reactor the `Handshake`: while the
loop does not spin, the queue is empty, no completion is up and no worker is before its
completion; while it spins, exactly one of these three has the slot. That is why the unsynchronised flag works at all,
although what a worker does after it (`Process`) overlaps with the loop.

*Ownership.* A clean proactor (`CleanProactor`) is one in which nothing takes a connection away from
the party that handles it: its workers close nothing (`NoDrops`), no timer overtakes them
(`Prompt`), and the loop waits for none of them. These are conditions the code does not guarantee: without the first
two the properties are false (`proactor_orphan`; section 7 on a tick under a worker), and for the reactor `NoCrossTalk` is
(`reactor_crosstalk`). Nothing is assumed of the queue: as shipped it has room for 10000 requests and there may be 65536 descriptors. The inductive
invariant `CleanInv` says of every descriptor (`HandInv`) that it is closed and forgotten by all, or open, and then at most one of armed,
with an event in this round, or with the pool; that the pool has
a request once (`PoolInv`) and got it within this slot of time (`TermInv`), so no timer of it is due;
that a timer in the list is an open connection's (`ListedInv`); and that buffers hold their connection's
data (`DataInv`). Every step does one of a few things to one descriptor (`StepEffect`: it is
accepted, reported, read, popped, given back, or expires), and both the invariant and the
mapping go by these. A refused append leaves its connection with nobody: not armed, not
queued, and `Ownership` allows that only of a full pool. That the pool is full then takes a count: the descriptors in
the queue are distinct and have a connection each, so the connections of the pool are as many as there are places in the
queue (`FullPool`). Such a connection is like an armed one for all else: the timer is its own, and ends it.

*HttpConn.* `TypeOK` needs that the page is known once the request line was read (`UrlKnown`), that a response is
made only of a status that has one (`Ready`), and that a slot unmaps only what it has mapped. Every turn of the
parser comes down to one lemma about `ParseLine` (`ParseLineInBuffer`, by the least place of a CR or
LF) and one about moving the indices (`MovesInBuffer`). For `MappingSound` the invariant says where a
slot may have a file mapped: from `DoRequest` until the last `writev` (`Holding`). A step keeps the mapping (`MapStays`) or
releases it (`MapReleased`); only `Request` makes one, at a place where there is none.

*Exchange.* `ConnInv` gives every place of the slot what it means for the request in
progress (`Phase`). While the client asks (`Asking`), what is in the buffer, in the socket and on the
way are together its request, and the parser stands at one of the places it can resume
from (`Position`): in the request line, in one of the header lines, where the indices
tell which ones it knows, or behind them. That the next line end it looks for is that of the request's
next line is where the shape of a request comes in (`LineRead`, from the places of CR and LF in it). Once
`checked_idx_` has gone over a part of a body the test of `ParseContent` fails for good, so a body that
passes it was not gone over and is whole: `OwnBody`. This needs that `heard_string_` is set by the same turn,
to a place behind the head of this request. Without a body the request is complete at its empty line, and `Requested` says that the
buffer then holds it and nothing of an earlier one. While the answer is on its way (`Sending`),
the iovecs continue it behind what the client has (`Cursor`): in the header (`InHead`), or in the file (`InFile`);
or the file is not mapped, and nothing is ever taken (`Unsendable`).
A `writev` moves from one to the other or within one (`CursorMoves`). After a second cut in the header
this is false for good, and `Cursor` says in what way: a byte is wrong (`Wrong`) or the rest of the
header is too short (`RunsShort`). Without that a client might come to hold the right answer and ask again on a
connection that the mapping shows as closed. `all_bytes_have_send_` must be 0 before the first `writev`,
so `Untouched` and `Before` say so: only `HttpClear` resets it, and `ProcessWrite` relies on that. The counter
of what is left is an int (`Int32Minus`: wrapping at every step is wrapping at the end).
The mapping shows a connection as closed once the promise has ended for it (`Garbled`); its steps are
then steps of `Exchange` that close, connect or do nothing.

*UserRegistry.* `AccountKept` compares what a client was told with the cache and with what
a restart would load, the last row of the name. It is not inductive: a worker on its way to
insert a name might spoil it. `KeptInv` therefore follows every name outside `raced` and `missed` through a
registration: a name in the cache has no registration on its way (`NameInv`, `FreshInv`), one of the entries in the
cache is the last row's and the others are what `operator[]` added (`LoadInv`), a row just inserted is the last of its
name and not yet in the cache (`RowInv`), and who is about to be told has it already (`ToldInv`). That `operator[]`
adds an entry only to a name that has one (`FoundInv`) keeps `FreshInv` from being broken by a login. What `PasswordOf`
makes of a table that got a row is a lemma (`PasswordAppend`). `AccountOpens` follows from `ToldInv` and `LoadInv`: with
no insertion under way and nothing added by `operator[]`, the one entry of the name is what the client was told.

Left to TLC: everything temporal beyond invariance (`SpinEnds`, `TimeoutEnforced`,
`StopHonoured`, `Served`, `CallsEnd`, `Answered`, `PoolGivesBack`, and the fairness of `WorkQueue` and `TimerSet`), which
TLAPS does not handle. Every invariant and action property that a passing run checks is
also the statement of a theorem.

## 7. Findings

Each is a run that TLC must find violated, and each is quoted in `PROJECT.json` with what the repository says.

- `reactor_crosstalk`: a worker that failed sets `completed_flag_`
  first and `close_conn_flag_` second, after a read (`threadpool.h:176-177`) as after a write (`threadpool.h:189-190`).
  A loop that looks in between goes on without closing. The flag stays up for the slot's next request, which is
  then closed while a worker still handles it; the descriptor is accepted again, and the
  slot of the new connection gets the request or the response of the old one.
- `proactor_orphan`: `Process` closes the descriptor of a request it cannot answer
  (`http_conn.cpp:265-270`) and leaves its timer in the list. When that timer expires,
  `ReleseResource` closes the connection that has the descriptor by then, idle or not.
- `http_conn_cut`: when only the first part of a body has come, `ProcessRead` goes over it as
  over a line and leaves `checked_idx_` behind it (`http_conn.cpp:283, 313`). With the rest
  `ParseContent` asks for `content_length_` bytes behind that place
  (`http_conn.cpp:545`), so a login whose body came in two pieces is never answered.

Other places where the code goes wrong are in the models as the code has them, and the properties they
would break name them as an exception:

- A `Write` without end (`Endless`, `Hung`). An error page has one buffer. The second time a `writev` ends inside it, the length of
  the buffer becomes 0 (see the next item) while bytes are still to be sent (`http_conn.cpp:152-187`). `writev` then returns 0,
  neither an error nor the end, and `Write` goes round for ever; in the reactor the event loop
  waits for it for ever (`webserver.cpp:395`), and nothing is served, closed or stopped any more. In the proactor the loop itself is inside
  `Write`.
- A header cut twice (`cuts`). The second time a `writev` ends inside the header, the length of the first buffer is
  reduced by all that was ever sent (`http_conn.cpp:186`), and the client gets the file in the place of the rest of the header.
- A length that is no int (`Overflows`). The length of a response is an `int` (`http_conn.cpp:364`); a file of 2 GB or more does not arrive whole.
- No response (`Drop`). A missing page gets none, since `ProcessWrite` has no case for
  `NO_RESOURCE`; an empty file gets none although its page was built, since its case falls through to
  the default (`http_conn.cpp:367-377`). `README.md:230-248` says that a response is completed for both.
- A login without a body (`Stray`, `RequestCrash`). When the headers give no length or 0, the request is complete at its empty line (`http_conn.cpp:512`). Name and
  password are then read at `heard_string_`, which points to where an earlier body of the slot was, or was never set.
  `OwnBody` says that what is left in the buffer is this request only; where the read ends is another matter.
- A tick under a worker (`Prompt`). A timer that expires while the pool has its connection closes it under the worker
  (`list_timer.cpp:131-145`).
- Two registrations at once (`raced`). Both look the name up before either inserts it (`http_conn.cpp:602-610`), and both
  clients are told they have the account; logins go by the first one's password until a
  restart, by the second one's after it. A unique key in the table, whose schema is not in the repository, would prevent it.
- A name that is missed (`missed`). The unlocked look-up of a registration may miss a name that is there, beside the insertion of any
  other name, and the name is registered again (`http_conn.cpp:603`).
- A name that is added by a login (`defaulted`). The second look-up of a login may miss the name and add it with an empty password
  (`http_conn.cpp:623`), so that a login with an empty password succeeds which no row of the table allows.

The last two take a look-up that misses because of an unsynchronised insertion. That is a data race, whose outcome C++ leaves
open; a miss is one that the tree walk of a usual `std::map` can produce.

And some where the repository says nothing that the code contradicts:

- A connection closed while its file is mapped leaves the mapping behind; nothing unmaps
  it when the slot is used again: `abandoned`.
- An accepted connection is counted by `HandleNewConn` and by `HttpConn::Init` and uncounted
  once, a rejected one is counted and not uncounted (`webserver.cpp:269-285`). The limit `kFD_MAX` is
  reached although few connections are open; the run `proactor` has such refusals.
- With fewer connections than threads `GetConnection` may return `NULL`, although its comment
  (`sql_connection_pool.cpp:57`) promises an available connection, and an interrupted wait
  may pop an empty list (`sql_connection_pool.cpp:65-70`). As shipped the numbers are equal, and
  the theorem `EnoughConnections` says that neither can happen.
- A clock that is set back leaves the list unsorted: `AdjustTimer` only looks for a place
  further behind. `Tick` may then leave timers behind that are due. `Sorted` and the
  end of a tick in `TimerSet` are therefore stated for a clock that was not set back; the
  links are right in any case.

## 8. What is not covered

- Shutdown. `~WebServer` frees the slots, the resources and the pool while detached workers may use
  them, and `~SortTimerList` calls back into resources that are already freed
  (`webserver.cpp:29-40`, `list_timer.cpp:16-26`). From the first delete on the behaviour is
  undefined whenever a connection is open: a model could only say that anything may happen. What
  is modelled ends with the loop.
- `ProactorAppendRequests`, `Cond` and the edge-triggered branches: nothing calls or
  selects them.
- A client that sends its next request before it has its answer: `HttpClear` wipes what came of it.
- A `recv` that returns -1 makes `read_index_` one smaller (`http_conn.cpp:100`); the slot is closed in the same
  step, and `HttpClear` sets the index before it is used again.
- Failing system calls at start-up end the process by `assert` or `exit` before any
  concurrency.
- The text of requests and responses beyond what is named above, the forms of the pages, and the
  console output.
