# A verification development for lxcHttpServer

TLA+ models of the server in `src/`, TLC runs that check them on small
instances, and TLAPS proofs of what holds for every value of the constants.
Paths such as `httpserver.cpp:171` are relative to `src/src/` or
`src/include/`, those of the exercise pool to `src/thread_pool/`.

Contents: [inventory](#1-the-system) - [plan](#2-plan) -
[modules and code](#3-modules-and-code) - [runs](#4-what-the-runs-show) -
[bounds](#5-bounds) - [fairness](#6-fairness) - [proofs](#7-proofs) -
[findings](#8-findings) - [limits](#9-not-modelled-only-model-checked)

## 1. The system

A web server with one reactor thread, four worker threads, a timer for idle
keep-alive connections and a logger with a thread of its own.

| component | state | operations |
|---|---|---|
| Reactor, `httpserver.cpp` main | epoll instance, signal pipe, current batch of events | `epoll_wait`; accept loop; suspend and queue a readable connection; read the pipe, expire, `alarm(1)` |
| Handler, `httpserver()` | the descriptor of its task | parse and answer; then `addfd`, `close`, or `deleteFd` and `close`; three early returns; an exception nobody catches |
| Thread pool, `ThreadPool` | `running`, `workList`, mutex, condition variable | constructor, `appendFd`, worker loop, destructor |
| Timer, `Timer` | `timeList`, `hashMap`, `curSize`, mutex | `addfd`, `deleteExpiredFd`, `deleteFd`, `forbidenFd` |
| Logger, `AsyncLoger` | four buffers in `curBuffer`, `emptyBuffers`, `toWriteBuffers` and the local `writeQueue`; `running`, mutex, timed condition | `logInfo`, `threadFun`, constructor, destructor, `getInstance` |
| Request parser, `HttpData` | 1024-byte buffer and two indexes, `prev`, parsed fields | `parseOneLine` over `recv`, start line, headers, parameters, body |
| Responder, `Responser` | none of its own; two pipes and a child for CGI | static files, the page in memory, CGI, error pages |
| Helpers, `utils`, `Pages` | `memory_index_page` | epoll registration, fcntl, printing |
| Exercise pool, `thread_pool/` | task queue, live/busy/exit counters | worker, manager and destructor threads; not linked into the server |

**How they interact.** The reactor gives the pool tasks (a descriptor number
and the timer). A worker runs `httpserver()` on one and calls the timer from its
own thread, while the reactor calls `forbidenFd` and `deleteExpiredFd`. Timer
and handlers act on the kernel: they register, remove and close descriptors,
whose numbers accept hands out again. SIGALRM's handler writes a byte to a pipe
which the reactor reads like any other event. Every part logs; the timer does it
with its mutex held, so the logger's mutex nests inside the timer's, never the
other way round. A CGI program is a child process: `fork` gives it a copy of every
descriptor the server has, the pipes of requests that other workers are serving
among them.

**What is hard.** Descriptor numbers are reused while events, tasks and map keys
still carry the old meaning; events come in batches whose earlier members change
what the later ones denote; `running` is read without the mutex; signals of
condition variables are lost when nobody waits; buffers are handed between
threads and written without the mutex; a worker may wait for a silent client for
ever; a request arrives in pieces cut anywhere; parent and child of a CGI request
wait for each other, and for the children of other requests. `PROJECT.json` lists each of these hazards at its line.

**What makes each part correct.**

- Pool: a queued task is taken exactly once, in order, while fewer handlers than
  workers are stuck; the pool can be stopped.
- Timer: no live iterator dangles, the list is sorted, the counter matches the
  map, and what is suspended does not expire.
- Connections: one handler at a time; a queued or served connection keeps its
  descriptor; every open connection has an owner; an idle one expires.
- Logger: a line reaches the file once, in order and eventually; buffers are
  neither shared nor lost.
- Parser: the request does not depend on how its bytes arrive, and what is read and
  written is in bounds. CGI: parent and child do not wait for each other, the
  client gets all of the output, no process and no descriptor is left behind.
- Exercise pool: a queued task is taken, the counters are those of the threads,
  the destructor returns and leaves nobody in the freed pool.

## 2. Plan

Ordered by importance. Everything below is modelled and checked, and the invariants of
every run are proved; what a module's proofs consist of is in [section 7](#7-proofs).

1. `TaskDispatch` (abstract) and `ThreadPool` (refines it); `ThreadPoolProofs`.
2. `Timer` among arbitrary callers; `TimerProofs`.
3. `Connections`, which EXTENDS `Timer` and adds the reactor, the handlers,
   the clients and the clock. The pool appears as a queue that workers take
   from, which is what `TaskDispatch` promises. `ConnectionsProofs`, which
   extends `TimerProofs`.
4. `LogFile` (abstract) and `AsyncLoger` (implements it), without `getInstance`;
   `AsyncLogerProofs`.
5. `HttpData`, `Responser` and `Handlers`: requests parsed and answered side by
   side, CGI programs included. `HandlersProofs` (buffers, pipes, programs) and
   `ParserProofs` (lines, headers, bodies, what is in bounds), which extends it.
6. `DynamicPool`: the worker, manager and destructor of `thread_pool/`;
   `DynamicPoolProofs`.

Left: the action and liveness properties of [section 9](#9-not-modelled-only-model-checked)
stay with TLC. A refinement that would tie `Serve` of `Connections` to the steps of
`Handlers` is not stated: what the two share is the list of a handler's ends.

## 3. Modules and code

### TaskDispatch, ThreadPool

`TaskDispatch` is the promise: tasks are submitted while the pool is open, each
is handed to one idle worker, oldest first. `ThreadPool` has a program counter
per worker. A section that runs with the mutex held and touches only the list
is one step; `running`, an atomic that the destructor writes without the mutex,
is read in a step of its own each time:

| action | code |
|---|---|
| `AppendCall`, `AppendPush`, `AppendSignal` | `appendFd`: call, push with the mutex, signal without it |
| `Stop`, `StopBroadcast`, `Join` | the destructor, `ThreadPool.cpp:45-53` |
| `LoopTest`, `Lock`, `Check`, `Wait`, `Relock`, `StopTest`, `Take`, `Run` | `worker()`, lines 23-40 |
| `SpuriousWake` | a return of `pthread_cond_wait` that nobody caused |

`Notify` moves one blocked worker, whichever the library picks, to those that
compete for the mutex, or does nothing when none is blocked. The server itself
never destroys its pool (main does not return); the destructor is modelled as
part of the class.

### Timer

The four operations hold `Timer::mutex` from first to last access, so each is one
action. The list grows only at its end; a node has the number of insertions
made before it (`pos`), the list is the set of its nodes ordered by `pos`,
an iterator is a `pos`, and `end()` is 0. The kernel's part is per descriptor: the
socket it denotes, and whether epoll has it not at all, armed, or registered and
spent by its one shot. `EPOLL_CTL_ADD` has no effect on a closed or registered
descriptor (`Added`).

Undefined behaviour is modelled by what the build does: `erase(end())` frees
the list's sentinel and the program aborts (`EraseEnd`); `front()` of an empty list
overlays the map's head pointer on the expiry time, which stops the loop unless
the map is empty (`SentinelExpires`).

`TimerSpec` lets any caller call anything at any time, and lets descriptors be
closed and reopened by others. What holds there holds in the server.

### Connections

| action | code |
|---|---|
| `EpollWait`, `BatchDone` | `httpserver.cpp:165-166`; any ready events, in any order, up to the size of the array |
| `AcceptOne`, `AcceptFails` | the accept loop, lines 168-175, and where it goes on |
| `Forbid`, `AppendEvent` | lines 178 and 179, two steps |
| `ReadPipe`, `SampleTime`, `ExpireAndRearm`, `TicksDone` | lines 182-194; the time is read before the timer's mutex is taken |
| `Fetch` | a worker takes the oldest task |
| `Serve`, `ServeReturns`, `ServePeerClosed`, `Keep`, `DeleteFailed`, `Close` | the ways through `httpserver()`, lines 57-104 |
| `Connect`, `Clock`, `AlarmFires` | clients, time, SIGALRM and its handler |

Parsing and answering is one step, `Serve`, with every outcome the code has;
`m_keepConnection` is never initialised, so both answers of line 90 are possible
for any request. `SocketClosed` is not a `std::exception`, leaves the thread
function and ends the process: `ServePeerClosed` ends the behaviour.

A task and an event carry a number. Beside it the model keeps the socket the
number stood for when the task or event was made (`sock`), `left` (sockets a
handler abandoned) and `stale` (an event was handled after its descriptor had
been closed). No step reads these history variables.

**`AcceptAsCoded`.** Lines 171-181 are modelled twice. As committed, the `while`
ends in `;`, so accepted descriptors are dropped and the block runs once with -1,
and line 176 is `if`, so the listening socket is then suspended, queued, and
closed by a worker. With that no client is ever served, which run
`conn_as_coded` shows, and nothing else in the system has anything to do. The
other runs set `AcceptAsCoded = FALSE`: the loop has the body its layout shows
and the listening event ends there. Everything else is as committed.
Line 115 (`if(serverSocketfd = -1) throw`) makes the program as committed throw
before the loop; the models start behind it.

### LogFile, AsyncLoger

`LogFile` is the promise: lines are accepted or refused, wait in memory, and are
appended to one file in the order in which they were logged, each once. A write
that is cut short costs lines; once the logger is broken (a write failed, a buffer
was destroyed) only that the file keeps what it has. `AsyncLoger` implements it with
the lines in all buffers as `pending`. The mapping knows of no queue, so the
order of the three of them has to come out of the code.

`logInfo` runs with the mutex held and is one action with three cases
(`LogRefused`, `LogAppend`, `LogSwap`); so are the collecting part of `threadFun`
(`Collect`) and each return of a buffer (`ReturnBuffer`). The write to the file
between them holds no mutex (`WriteOut`, `WriteNull`). Because the wait has a time
limit it may end at any moment, and notifications need no model. Lengths are
counted in lines. `WriteOut` may succeed, store a part (the code forgets the rest)
or fail (the code keeps the text and gives the buffer back all the same).

`Buffer`'s constructor ignores its argument and sets neither `bufferSize` nor `end`
(lines 10-13). `Sizes` and `FreshEnds` are what they may turn out to be; below an `end`
that is not 0 a buffer holds `Junk`. `async_loger` uses what the header intends, a size
that holds a line and `end = 0`, and also sizes of 0 (a heap of zeros leaves every buffer
so), where the first line swapped in goes out of bounds. Ends other than 0 are left to the
proofs: a run of `ImplementsLogFile` needs buffers that begin empty.

### HttpData, Responser, Handlers

One handler for each request, with the members of its `HttpData` object as
functions of the handler and a place (`at`) for where its thread is.
`HttpData` has the steps of the parser, `Responser` those of the answer,
`Handlers` puts them together as `httpserver()` does, and states the properties.

A client's bytes are units: CR, LF, and words, which are the text between two
blanks of a line, or one parameter of a body. `recv` returns any number of units
that fits the buffer, so that a request may be cut between any two.

| action | code |
|---|---|
| `Recv`, `RecvClosed`, `RecvFails` | `readRawDataFromSocket`, `HttpData.cpp:163-170`, at the two places that call it |
| `TakeUnit`, `EndLine` | the loop of `parseOneLine`, one round each |
| `GiveUp`, `ParseStartLine` | `parseData`, `parseStartLine`, `getRequestMethod`, `parseUrlDataParamList` |
| `StoreHeader`, `SkipHeader`, `EndHeader` | `parseHeader`, `getHeaderLineName` |
| `NoNumber`, `BodyUnread`, `BeginBody`, `TakeBodyUnit`, `ParseBody` | `numeralContentLength`, `parseBodyParamData` and the splitting of its text |
| `Dispatch`, `Send`, `SendFails`, `SendKills` | the choice of lines 75-88 of `httpserver.cpp`; every `send`, its -1, and its SIGPIPE where `MSG_NOSIGNAL` is missing |
| `Stat`, `OpenFile`, `RemoveFile` | `sendStaticFileToClient` and `serverStaticFile`, while files disappear |
| `StartCgi`, `Pipe`, `Fork`, `CgiFails`, `CloseEnd`, `WriteInput`, `WriteKills`, `ReadOutput`, `EndRead`, `Overread`, `Wait` | the parent's part of `executeCGI` |
| `ChildCloses`, `ChildReads`, `ChildHasRead`, `ChildPrints`, `ChildExits` | the child's part up to `execl`, and then the program |
| `Finish`, `Catch`, `Return` | the ends of `httpserver()`; `Connections` has what they do to the timer |

`holds` says which pipe ends each process has open; a fork copies the server's set.
End of file and SIGPIPE follow from it: a reader sees the end when no process
holds the write end. The server closes two of a request's four ends and never the
other two.

A parameter is four calls of `write`, so four steps and four units of input. A program
is any sequence of reads (of one unit, of all that is announced, to the end) and
printed units: it may stop reading anywhere, print first, or do neither. A program
whose file has gone when `execl` looks for it does nothing and ends. The page is the
part of `buf` behind the header, zeroed; `strlen` measures it (`StrLen`), so that a
printed NUL hides what follows it and the next read overwrites that, and a full page
has no end: `strlen` then leaves the buffer (`Overread`), or finds a zero behind it,
where `read` is asked for 0 bytes and returns 0 (`OutputEnds`), or one further behind,
where the size underflows and `read` fails (`CgiFails`).

Out of bounds the model has what the build may do: a read may crash or find
what memory holds (`Garbage`, or nothing when `new` returned zeros), a write
ends the behaviour, as nothing is known of what follows. `crash` names the place.

### DynamicPool

The exercise pool is a class of its own. A worker is its slot of `threadIDs`. A
worker's section with the mutex held is several steps (`Lock`, `TestQueue`,
`TestFlag`, `Wait`), because `addTask` and the destructor push, signal and write
`shutdown` without the mutex; `takeTast` and the counter after it are one
(`TakeTask`). The manager reads two counters without the mutex on line 202, in
either order (`ReadFirst`, `TestHalfIdle`), and tests one more (`TestAboveMin`). After
`FreePool` a worker that runs uses freed memory: `UseFreed` ends the behaviour.
`DestroyCondition` is the return of `pthread_cond_destroy` on line 82, which is undefined
with a worker still blocked: it may return, and is only sure to when none is (glibc
waits for the blocked since 2.25).

## 4. What the runs show

| run | expects | shows |
|---|---|---|
| `thread_pool` | pass | three workers, four tasks, one handler that never returns, the destructor at any time: exactly once, `front()` never on an empty list, no task waits while a worker sleeps unsignalled, at most one task starts after the stop, refinement of `TaskDispatch` (so tasks are taken in order); every task is taken; a stop with a backlog ends |
| `thread_pool_stop` | violation | the destructor's wake-up is lost and the join never returns |
| `timer` | pass | any calls in any order on three reusable descriptors: iterators valid, list sorted, the expiry loop never runs past the list |
| `connections` | pass | with the accept loop repaired: one handler per connection, descriptors owned while served, list and map in agreement, every open connection accounted for (all unless an event was handled stale), one alarm chain, and no connection waits in the timer for ever |
| `conn_as_coded` | pass | as committed, only -1 and the listening socket are ever queued |
| `conn_batch` | violation | two threads on one connection, through a stale event of a batch |
| `conn_rearm` | violation | a connection kept alive twice is not watched again |
| `conn_delete` | violation | `deleteFd` of a suspended connection erases `end()` |
| `async_loger` | pass | buffers neither shared nor lost; implements `LogFile` (lines once and in order); every line written in the end; refusal, overflow and loss each only from the cause named, with buffers that have room and with buffers left without any |
| `loger_overrun` | violation | two queued buffers: one destroyed, a null pointer dereferenced |
| `handlers` | pass | lines and bodies are what was sent however `recv` cut them; requests of one form keep the parser in bounds, unless the body was not there yet; keep-alive and url parameters are never heard; programs that end are waited for, send their output, up to a NUL or a full page, and leave two pipe ends open; only a program that ends before it has read everything makes the server die writing to it; `strlen` leaves a buffer only for a full page or a file that is not html; every program ends unless one hangs |
| `dynamic_pool` | pass | counters exact under every interleaving, no worker takes from an empty queue, the size never changes in an open pool, a task waits beside sleeping workers only after a missed signal, the destructor's signals miss at most one worker, and it returns unless it was earlier than the manager's first test, a worker missed its signal, or one used freed memory |

The properties conditioned on `stale` say exactly that the batch is the only way
to break them: `conn_batch` shows the break, `connections` that there is no
other. `RefusesOnlyWhenDoomed`, `OverflowHasCause` and `LostWithItsBuffer` in `NoLineLost`
do the same for the logger. So do `bodyCut` in `ReadAsSent` and `DiesOnlyOf`, `missed` in
`NobodyOversleeps` and `CallsComplete`, and `Hangs` in `CgiEnds`: that formula names
every request's program because one that hangs holds the pipe ends it inherited,
and with the request's own program alone in its place TLC finds it violated. It has
four cases, one of them the deadlock of lines 96-99: a program that fills its pipe
before it has read so much that the server can write the rest. `PoliteNeverKills` (in
`DiesOnlyOf`) asks that a program reads all that is written: with all but the last unit,
which is what CGIDATA announces, TLC finds it violated.

Every property has a mutant: a definition beside the modelled one with a
plausible slip (a missing call, a wrong end of a queue, an `if` for a `while`)
under which TLC finds the property violated.

Behaviours end when the bound on tasks, lines, sockets or time is used up or the
program dies, and each handler of `Handlers` serves one request, so deadlock is
not an error in these runs; that the system does not stop earlier is what the
liveness properties say.

## 5. Bounds

- `thread_pool`: `MaxTasks` 4 and three workers give a backlog, a worker of each
  kind (asleep, stuck, coming) at once, and a stop in each of these states.
  `thread_pool_stop` needs two workers and one task.
- `timer`: three descriptors, `MaxSize` 2 (so that the limit is hit), four
  insertions (so that a descriptor is suspended, comes back and expires),
  `MaxTime` 3 with `Timeout` 1. Descriptors are symmetric; nothing orders them.
- `connections`: two workers, two client descriptors, `MaxSockets` 3 (the
  listening one and two clients, so a number is reused while an old event is in
  hand), batches of up to 3 events, which is every source at once (the code's
  array has 5). `MaxTime` 20 is never reached: the clock moves only while a
  listed connection has not expired.
- `async_loger`: the server's four buffers - with three `RefusesOnlyWhenDoomed`
  fails - and five lines, enough to fill all four and be refused once. Buffers
  hold one line, one of them two. In two other
  instances two of the buffers, or all, have a size of 0.
- `handlers`: one of nineteen requests alone, which between them reach every place
  of the parser, every page and every way to crash; or a pair of posts side by side,
  whose bodies do not come, so that what memory holds may be the parameter. The buffer has 2 units, so that a CRLF, a
  header's end and a body are cut in both ways and not; a line has 6, one more than the
  longest sound line, and one of the requests exceeds it. A page and a pipe hold two
  units, a parameter is four and a request has up to two of them. The programs print less
  than a page, exactly a page, more than page and pipe together, a NUL in the middle;
  read all, nothing, a part (as many as are announced), more than there is, to the end;
  and one prints before it reads. Of the pair one program reads all or to the end, the
  other half of its parameter: that ends the server unless the first has inherited the
  pipe. Two handlers are enough for a program to inherit another's pipes, the writer of its output included (checked: the state is reached).
- `dynamic_pool`: two workers at first and three at most, so that the manager can
  create one and order two to leave; three tasks, more than live workers.

## 6. Fairness

- Pool: weak fairness of each worker and of the reactor's calls. They are threads
  the system schedules; blocking is in the guards. Nothing is assumed of arriving
  tasks, of the destructor being called, of spurious wake-ups, or of who wins
  the mutex. A handler in `Stuck` never returns, whatever the scheduling.
- Connections: weak fairness of the reactor, the clock and the alarm. None of the
  workers: a handler may wait in `recv` for ever, so a run in which all do is
  allowed.
- Logger: weak fairness of the background thread, whose wait ends after three
  seconds at the latest. None of the callers.

- Handlers: weak fairness of a thread once its program runs, and of the program.
  Nothing of clients, files or failing calls; a blocked read, write or `waitpid` is
  in the guards.
- Exercise pool: weak fairness of the manager, the workers and of what the caller has
  begun. Tasks return, as those of `test.cpp` do.

## 7. Proofs

All theorems are of the form `Spec => []Inv` or a refinement, for every value of
the constants. They rest on the named assumptions of the modules, which TLC
evaluates in every run, and on nothing else:

| assumption | says | why the code justifies it |
|---|---|---|
| `ThreadPoolAssumption` | finitely many workers, `Free` is none of them | a thread's identity is not "nobody" |
| `TimerAssumption` | finitely many descriptors, limits are natural numbers | they are `int` constants of `Timer.h` |
| `ConnectionsAssumption` | the listening socket and -1 are different numbers, the others are natural | `socket` has succeeded before the loop |
| `AsyncLogerAssumption` | there is a buffer; `Sizes` and `FreshEnds` are sets of naturals, not empty | the constructor makes four; what it leaves unset is some `size_t` |
| `DynamicPoolAssumption` | `1 <= MinNum <= MaxNum` | the constructor's arguments; with 0 the pool has no worker |
| `HttpDataAssumption` | buffer and line have a size; a number or a text with an equals sign is not a CR or LF; the two names the parser compares with end in the equals sign it looks for | what the words stand for |
| `ResponserAssumption` | the server is not a request; a CGI file has a program; a page and a pipe hold something | `fork` gives the child a pid of its own |

`NoConnectionLost`, `AsCodedNobodyIsServed`, `FourBuffersSuffice` and
`LoggerWritesInOrder` carry a hypothesis on a constant in the theorem itself: the accept
loop as its layout has it, or as committed; four buffers or more (with three, TLC refutes
it); fresh buffers that start empty. Each is what the run of that name uses.
`OverflowOnlyForCause` has none: it says of any sizes and ends what `async_loger` checks of some sizes.

**ThreadPoolProofs.** `IInv` is the conjunction of `TypeOK` with

- `MutexInv`: the mutex is held by exactly the worker that is between `Lock` and
  its release;
- `StopInv`, `LateInv`: what `running` and the reactor's place say of each other, and
  that the one worker past line 36 accounts for the one late task;
- `ReadInv`: a worker about to wait has an empty list in front of it, and one that
  has left the wait loop either a non-empty list or a clear flag: the two reads
  of the loop may straddle the destructor's write, but the list cannot change
  while the mutex is held and `running` does not come back. This is what
  `TakeFindsTask` needs and does not say;
- `ListInv`, `TaskInv`: the list is the interval of tasks not yet taken, and those
  taken are with one worker or finished.

`FIFO` (the list is that interval) and `SleeperMissedNoTask` (a worker the broadcast
missed leaves no task behind) are parts of it. No run checks them alone:
`ImplementsDispatcher` and `BackloggedStopEnds` do not hold without them.

`WorkConserving` has its own induction on top of it, with cardinalities of the
sets of awake and blocked workers. `PoolDispatches` maps `AppendPush`, `Take`,
`Run` and `Stop` to the abstract actions and everything else to stutters.

**TimerProofs.** `TInv` is the conjunction of the properties of the run
(`IteratorsValid`, `ListSorted`, `NeverPastTheEnd`, `TimerTypeOK`) and four facts
they lean on: the count never exceeds the map's keys (`CountWithinMap`), the list is
finite (`ListFinite`), a position is given once (`PosUnique`), and no node expires
later than one inserted now would (`ExpiryBounded`, which keeps `ListSorted` when a
node is pushed at the back). There is one lemma per operation; `NeverPastTheEnd` is
preserved because a popped node's descriptor was a key, so a positive count
leaves a key and the map's head pointer is not null. The lemmas are about
the operations, not about `TimerSpec`, so that `Connections` can cite them.

**ConnectionsProofs.** `Base` is inductive without a condition: `TInv` of the timer,
`TypeOK`, `AlarmChain`, where the reactor is and what it has in hand (`Control`),
that a socket number once given is not given again (`Numbers`), and that an epoll batch
reports a descriptor once (`Events`). From it come the type theorem, the alarm, and that
the timer is sound in the server with descriptors closed and reused between its calls.
`FInv == ~stale => Fresh` is the second layer. `OneHandlerUnlessStale` alone is not
inductive: a second handler starts from a second task, which comes from an event,
which comes from epoll. `Fresh` therefore says of every client that it is in one place at a
time (`Once`), that what is queued or served still has its socket and is
neither watched nor listed (`Owned`), that an event in hand denotes a connection that is
neither watched nor in flight (`Reported`), and that list, map and counter agree
(`Exact`). `AInv` (for `Accounted`) says where each open connection is, and `CodedLoop` (for
`NoClientServed`) that with the committed loop no client is ever armed.

**AsyncLogerProofs.** `Base` has `Unique` (no `unique_ptr` of the queues, the current
buffer or the destroyed ones denotes the buffer of another, pairwise, where a step
disturbs one or two conjuncts), `Control` (the background thread's place against what it has
collected) and `Lines` (a line is in one place, none is from the future). Above it
are `Kept` for `NoLineLost`, `Pair` for `RefusesOnlyWhenDoomed` (the thread collects two
buffers at most, so of four one is left), `GivenBack` for `OverflowHasCause` and `NoLineLost`
(unless a write failed, what is on the stack of empty buffers holds no line: only what the
constructor left there),
`Flushed` for `StopFlushes`, and `Order` for the refinement: lines are ordered
within a buffer, and buffers from the back of `writeQueue` over `toWriteBuffers` to
`curBuffer`. `LoggerWritesInOrder` maps `LogRefused`, `LogAppend`, `LogSwap` and `WriteOut` to
steps of `LogFile` and shows that the rest stutters.

**DynamicPoolProofs.** `IInv` has the mutex, that a worker which has found a task finds it
again (`Tasks`: the task count cannot fall between test and take), what the manager
and the caller have done when they are where they are, and the counters. `Awake` and
`Asleep` follow the signals: in an open pool with tasks somebody is up unless a signal
was missed; the destructor has a signal left for every sleeper but one.

**HandlersProofs.** `IInv` has `Buffers` (what is buffered is the client's bytes at their
place, so a unit that is read is the next one sent) and `Answers`, of each handler:
`ChildOf` (there is a program exactly from `fork` to `waitpid`), `PipesOf` (which ends of its
own pipes the server holds at each place, and that a running program holds the two
it uses), `AmountsOf` and `PostOf`. `InputOf` in it says that what is unread is
unwritten or in the pipe, and that while the server writes the program has read by "one"
only, or is reading everything (`PartRead`): from this `ReadersAreSafe` counts what a
program that has ended can have read. `OutputOf` says that what was printed is in the
pipe or, before its first NUL, in the page at its place, and that behind it the page is
as `memset` left it. `LeavesBehind` and `OutputComplete` are not inductive without these. What a child inherited of other requests
needs no invariant: the ends that matter are those of the request itself, and a step
of one handler changes no other's (`Frame`).

**ParserProofs.** `ParserOf(h)` says where the handler is in what the client sent:
`LinesOf` (the ends found are those up to the position consumed, the line buffer is the text
since the last, the last unit is in `prev`, no blank line has passed), `LengthOf` (the
content length comes from a header of that name before this place) and `BodyOf`
(the body read starts where the header ends and is shorter than the length). One
lemma for each action shows that it is kept, one for each place of a crash that a sound
request does not get there. `HeaderEnd`, a `CHOOSE` of a least element, exists by the lemma
`Least`: a set of natural numbers that is not empty has a minimum, from the
well-foundedness of `<` (a library theorem about sets, not the induction over an
operator, which no installed prover instantiates).

**What the proofs corrected.** TLC had passed each of these on the small instance:
`Connections` put a socket into `left` (those the handlers left open with no timer) although
its timer had been armed again; two
places of a handler had one name, `header`, so that a page's header was taken for the
parser's line; `Sound` took a `Content-Length` in the body for one in the header, looked
at one of several only, and did not ask that the header ends (the run has two more
requests for it); and assumptions on constants were missing (a CGI file without a program,
a word with an equals sign that is a line feed). `BuffersConserved` was restated, without
counting, so that it can be reasoned about.

## 8. Findings

`PROJECT.json` lists them with the statement of the repository each one
contradicts: the lost wake-up of the pool's destructor; the stale event of a
batch; the accept loop; the one-shot event added instead of modified; the erased
`end()`; the logger's overrun and its overflow after failed writes; the exercise
pool's inverted manager loop; the buffers whose size and end the constructor does not
set; the announced length that leaves out blanks and newlines; url parameters that are
never split off; the header name that is searched with '=', so that keep-alive is never
heard.

## 9. Not modelled, only model-checked

Only model-checked: the liveness properties (`EveryTaskTaken`,
`BackloggedStopEnds`, `ListedLeaves`, `EveryLineWritten`, `CallsComplete`,
`CgiEnds`). Each rests on fairness and so on ENABLED, which the prover does not reach.
Every invariant and refinement of the passing runs is proved; the runs that expect a
violation are not, a counterexample being its own proof.

Not modelled:

- the startup of main and `getInstance`, which run in one thread before the others
  exist (the unguarded test of `getInstance` is met by one caller only);
- the text of pages and headers, a text file's truncation to its first line
  (`fgets`, `Responser.cpp:138`), printing, address formatting, socket options, and
  `loadIndexTomemory`, which runs before the loop;
- inside a word of a request: a `Content-Length` that cuts a parameter in two or is
  negative, NUL bytes, two keys of equal text. Values of parameters are always
  stored as "" (`HttpData.cpp:146`), so a parameter is its key;
- of a failed `execl`: the flush of the server's unwritten `printf` text by the child's
  `exit(0)` (the child is modelled as a program that reads and prints nothing);
- how many bytes a part of a parameter has: the four calls of `write` are four units, and
  a program stops between them. Where the announced length ends, within the last value for
  one parameter or two, is taken for the end of that value;
- `sprintf(buf, "%s%s", buf, ...)`, whose operands overlap, is taken for the appending
  it is meant to be;
- `Hangs` counts a printed NUL like text, although what a NUL hides leaves room in the
  page: the condition it puts on `CgiEnds` is for such output wider than needed;
- the bound `maxWorkListLen`, which the code never tests, and the limits on
  descriptors and processes, which make `pipe` and `fork` fail at any time instead;
- `EINTR` of `epoll_wait`, after which the loop does nothing;
- in `Connections`, the ends of the process by SIGPIPE or out of bounds: like
  `SocketClosed` they end the behaviour, and `Handlers` has them;
- the two getters of the exercise pool, which only read under the mutex, and its
  constructor's failure, after which there is no pool.
