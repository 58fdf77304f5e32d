# A verification project for web.d

web.d is a multi-threaded HTTP server in C++ (`src/src`): one accepting thread,
a number of IO threads that each run an epoll loop, an asynchronous logger, a
FastCGI client for php-fpm, and a thread pool that is not used by the server. This directory holds TLA+ modules
that model those parts, TLC configurations that check them on small instances,
and TLAPS proofs of theorems about them. Paths below are relative to
`src/src/` unless they begin with `src/`.

## 1. Inventory

| Component | State | Operations | Who calls it |
|---|---|---|---|
| `EventLoop` | `looping_`, `quit_`, `callingPendingFunctors_`, `pendingFunctors_`, the eventfd | `loop`, `queueInLoop`, `runInLoop`, `wakeup`, `quit`, `doPendingFunctors` | its thread; `Server` (queueInLoop); the destructor of `EventLoopThread` (quit) |
| `Epoll`, `Channel` | `fd2chan_`, `fd2http_`, the kernel's epoll entries, `events_`, `lastEvents_`, `revents_` | `epoll_add/mod/del`, `poll`, `getEventsRequest`, `handleEvents` | `EventLoop`, `HttpData` |
| `HttpData` | connection state, `error_`, buffers, parser state, `timer_` | `handleRead`, `handleWrite`, `handleConn`, `handleClose`, `handleError`, `reset`, parsing and answering | its `Channel`, by a raw `this`; timers |
| `Timer` | a heap of `TimerNode`s | `addTimer`, `clearReq`, `handleExpiredEvent` | `Epoll` |
| `Server`, `EventLoopThreadPool` | listening channel, `next_` | `handNewConn`, `getNextLoop` | the main loop |
| `EventLoopThread`, `Thread`, `CountDownLatch` | `loop_`, `latch_`, the thread | `startLoop`, `threadFunc`, destructor | the main thread |
| `AsyncLogging`, `LogFile`, `AppendFile` | two or more buffers on each side, `running_`, `count_`, stdio's buffer | `append`, `threadFunc`, `start`, `stop`, `flush` | every thread |
| `ThreadPool` | ring `queue`/`head`/`tail`/`count`, `shutdown`, `started` | `threadpool_add/destroy/free/thread` | nobody in the server |
| `SocketBuffer` | a chain of nodes, `offset`, `size`, a pool of nodes | `BufferPushData`, `BufferReadSpec`, `BufferReadAll` | nobody in the server |
| `FastCgiData` | the socket to php-fpm, the header last read, two buffers | `Send...Record`, `RecvRecord`; `HttpData::sendPhpToCli` | nobody calls the senders |
| `LogStream`, `Util` | formatting, reading and writing sockets | | everybody |
| `HTTP.cc`, `Http.h`, `DataBase` | a test program, unused headers | | nobody |

Interactions: `Server` creates an `HttpData` and queues `newEvent` into one of
the loops; that loop registers its channel (`epoll_add`), gives it a timer, and
from then on `poll` reports events, `handleEvents` dispatches them into
`HttpData`, `handleConn` re-arms or closes, and the timer sweep at the end of a
round closes what has expired. Any thread logs.

What is hard here:

- functors queued while the loop sleeps, runs functors, or is about to leave
  (`queueInLoop`, `wakeup`, `quit`), and a `quit` before the loop has begun;
- edge-triggered epoll with a cached mask: a missed edge is never repeated;
- a listening socket that is edge-triggered too, so that whoever is left in its
  backlog waits for the next client; descriptors that run out; calls to the
  kernel that fail half-way through an operation;
- raw `this` in channels, `shared_ptr`s in functors, tables and timers, and
  descriptor numbers that another thread is given as soon as they are closed;
- timers that are only looked at when `poll` returns, on a clock that wraps;
- a parser whose state survives between reads while its positions do not;
- the hand-over of buffers between four holders, a drop of the backlog, and a
  stop from outside;
- a log file whose writes may be cut short without anybody being told;
- a ring of tasks, one condition variable, and two ways to shut down;
- records from another process that may end, break or come in pieces anywhere.

`PROJECT.json` lists each of these as a hazard at its line.

## 2. Modules

| Module | Models | Refines |
|---|---|---|
| `TaskQueue` | what a loop promises to those who queue functors | |
| `EventLoop` | one `EventLoop`, its callers, the eventfd and epoll's ready list | `TaskQueue` |
| `EventLoopThread` | extends `EventLoop`: thread start, `startLoop`, destructor | |
| `Timer` | `TimerManager`, its heap, the reduced millisecond clock | |
| `Reactor` | the life of connections over `Server` and its listening channel, `Epoll`, `Channel`, `HttpData` and timers | |
| `HttpData` | what one connection's bytes become: requests and responses | |
| `LogPipe` | what a logger promises: a queue from `append` to the disk | |
| `AsyncLogging` | front ends, the logging thread, `LogFile`, `AppendFile` | `LogPipe` |
| `WorkQueue` | what a pool promises: a bounded queue of tasks | |
| `ThreadPool` | the ring, workers, adders, destroyers | `WorkQueue` |
| `SocketBuffer` | the chain of nodes, its reads, the pool | |
| `FastCgi` | one exchange with php-fpm, and what the client is sent of it | |
| `MC...` | instances for TLC | |
| `...Proofs` | theorems about `EventLoop` with `EventLoopThread`, `Timer`, `Reactor`, `HttpData`, `AsyncLogging`, `ThreadPool`, `SocketBuffer`, `FastCgi` | |

### How state and actions correspond to the code

**EventLoop.** `pc` is the place in `loop()`: `check` is `while (!quit_)`, `poll`
is `epoll_wait`, `handle` is the dispatch of `ret`, `run` is inside
`doPendingFunctors`. What happens under the mutex is one step (`Push`,
`StartPending`, which swaps); the call of `wakeup()` after a push, and after the
store to `quit_`, is a separate step of the caller. `eventfd` is the kernel's
counter and `wakeReady` its place on the ready list, which an edge-triggered
entry gets at each write and loses at the next `epoll_wait`. `Epoll::poll`
waits again when it times out with nothing to report, so `Poll` is only enabled
when something is there.

**EventLoopThread** reuses EventLoop's actions as steps of the new thread and of
its owner. `alive` is the `EventLoop` object on the stack of `threadFunc`;
`loop_` the pointer to it. It reaches states in which the owner, inside
`quit()`, has stored `quit_` and not yet called `wakeup()`, while the loop has
already returned and been destroyed (`owner = "wakeup"`, `alive = FALSE`): the
code promises nothing about this window, so no property is stated.

**Timer.** `clock` is what the code computes, `(tv_sec % 10000) * 1000 + ...`;
`now` is the real time the properties speak of. `node[n].expiredTime` is not
reduced, as in the code. The sweep is one step per node, so time passes inside it.

**Reactor.** Each loop has a `pc` over the phases of a round; `cur` is the
connection inside `handleEvents`. `ep[c]` is the kernel's epoll entry: its mask,
whether it is armed (`EPOLLONESHOT` disarms), whether it is on the ready list.
`sock[c]` holds what control depends on: unread data, FIN, reset, a full send
buffer. `timers[c]` counts nodes that still refer to the connection, `linked`
says whether `timer_` reaches one, `due` whether one has expired, and `endless` whether
one was overtaken by the clock: when the clock falls back to 0 (`ClockWraps`), the
`expiredTime_` of a node that was not due yet is above all it will ever show, and
`isValid` is true for ever. The outcome
of parsing is any of those `handleRead` tells apart (`ReadResults`); what they
depend on is the business of `HttpData`. An `HttpData` is destroyed, and its
descriptor closed, when neither a table nor a timer node refers to it
(`Release`); the number is then free for the accepting thread.

`acc` is the accepting thread: where it is in its round (`epoll_wait`, the loop of
`handNewConn`, `handThisConn`), the kernel's entry of the listening socket and the
fields of `acceptChannel_`. One turn of the loop of `handNewConn` is one step, so
clients connect and loops run between two turns. `accept` fails when
nobody is there or no descriptor is left (`AcceptEnds`, `starved`); a
connection beyond `MAXFDS` is refused; when `fcntl` fails `handNewConn`
returns at once, with the descriptor open and `acceptChannel_` without events
(`Leaked`). `epoll_ctl` may fail in `epoll_add` and `epoll_mod` (`Control`),
which both forget the channel. What a client sends while it is in the
backlog is as if it had been sent once it is accepted, as no webd code can see it earlier.

**HttpData.** The stream of a client is a sequence of tokens: a word (method,
path, header name, value, version) is one token, CR and LF are tokens of their
own. A read takes any further part of it, so requests are cut at any place
between two tokens, but never inside a word. `size_t` arithmetic wraps
(`npos + 1 = 0`), and a position of -1 kept in an `int` reads a byte that
belongs to nothing. The loop of `parseHeaders` is a function of the number of its
turns (`HeaderLoop`). `inBuffer`, `state`, `hState`, `headers`, `file` are the
fields of the class; `Parsed` is the chain of phases of `handleRead`.

**AsyncLogging.** Buffers have an identity, so hand-over and recycling are
visible; `content` is what is in them. `pc` follows `threadFunc`; a notify is
lost unless the thread waits, and the timed wait may end by itself. `file` is
what `fwrite` has taken, `onDisk` how much of it an `fflush` has pushed out.
`AppendFile::append` repeats a short `fwrite` until one brings nothing, and then
drops the rest; nobody looks at the result of `fflush`, and stdio may keep or
forget what it could not write. Lines are whole: one that a failure cuts counts as lost.

**ThreadPool.** The body of each function between lock and unlock is one step.
`lock` is TRUE only where the code returns holding the mutex (a second
`threadpool_destroy`; `threadpool_free`). Condition variables wake up at will.

**SocketBuffer.** A byte is its place in all that was pushed, so a node is the
first byte it holds and its size; nodes are alike otherwise, and of the pool only
the number of free ones matters. A turn of a copying loop is a step. The buffer
is `broken` when the pool asks for no nodes and takes the first of them.

**FastCgi.** The senders are called in the order of the protocol, with any
parameters and any body; a write sends everything or fails after any part of it.
`SendStdinRecord` is one step per turn of its loop (`StdinTurn`), and `left` is its `len`.
A unit of `sent` is a byte of content, or a header reduced to its type and its two
lengths, so that where php-fpm looks for the next header can be compared with
where it is. `MakeHeader` keeps the low 16 bits of a length. php-fpm answers with
records of any kind, content and padding; what it sends is a sequence of numbers, so that
the body of a record `RecvRecord` does not handle is taken for headers, as in the code.
A record is sent once `RecvRecord` waits for it, which it cannot tell from one that came
earlier. The connection may be closed or break at any place, and after it broke one
read fails (`reset`) or all do (`failing`).
`at` is the place in `RecvRecord`; `rio_readn` returns what there was, or an error,
which the `size_t` it is kept in makes positive. What `realloc` and an
uninitialized header hold is any value (`Junk`, `Uninitialized`). `lost` remembers that
php-fpm sent a body, or padding, that is not skipped (`Misleads`).

## 3. Runs

All runs are deterministic breadth-first checks. Passing runs:

| Run | Instance | Questions |
|---|---|---|
| `event_loop` | 3 functors, 2 callers, 2 quits | Is a wakeup or a quit ever lost (`WakeupPending`, `QuitSignalled`)? Does a quit end the loop (`QuitTakesEffect`)? Do functors run once and in order, also those queued by handlers and functors (`RunsInOrder`, refinement)? |
| `event_loop_thread` | 2 functors, the owner | Is the loop `startLoop` returns alive, and until when, and is the thread gone before the object (`Lifetimes`)? Does `startLoop` return, and does the destructor end a loop that was entered (`StartReturns`, `DestructorEndsLoop`)? |
| `timer` | 3 nodes, time outs 1 and 3, a clock of 5 ticks, 12 ticks of time | Is a connection closed before its time out has really passed (`NoEarlyExpiry`)? Does a sweep leave a node that is due (`SweepComplete`, wraps excepted)? |
| `async_logging` | buffers of two lines, drops beyond 2, a flush every 3, 5 lines, 2 failures of `fwrite` or `fflush` | Do the asserts of `threadFunc` hold (`BackendAsserts`)? Is a buffer ever in two hands (`NoSharing`)? Do lines reach the disk in order, once each, and are those that do not given up in blocks (`Pipeline`, refinement)? Does each get there or is given up, and does `stop` return (`LinesReachDisk`, `StopReturns`)? |
| `reactor` | 2 connections on one loop, 2 descriptors and a third that is refused, 3 moves of the clients and wraps of the clock, 1 failure of `epoll_ctl` or `fcntl` | Are callbacks, tables and timers ever stale (`CallbackTargetAlive`, `TablesCoherent`)? Is an edge missed, for a connection (`NothingMissed`) or for the backlog (`NoneLeftWaiting`)? Does every silent or lost connection have one timer, and only one (`TimerHeld`)? Does anything ever come back to a half-closed connection whose output did not fit (`StrandedForGood`: nothing does)? Is every other connection closed in the end (`Reaped`, wraps of the clock excepted)? |
| `http` | 2 requests of 8 kinds, any cuts, any overlap | Is what is answered always a request that was made, in order (`AnswersRequests`)? Does each start with a fresh parser (`FreshStart`)? Are requests that come whole and one by one answered as a reference says, whatever the socket takes at a time (`WireInOrder`)? |
| `thread_pool` | 3 tasks, 2 workers, 2 adders, 2 destroyers, a ring of 2 | Is the ring coherent across its wraps (`RingCoherent`)? Is a task lost, doubled, or left to sleeping workers (`NoLostSignal`, refinement of `WorkQueue`)? Is it freed last (`FreedLast`)? Are accepted tasks run, does `threadpool_destroy` return (`TasksRun`, `DestroyReturns`, for a pool destroyed once)? |
| `socket_buffer` | messages and reads of 1 to 3 bytes, 10 bytes in all | Is every byte read once and in order, and is `size` what is left (`BytesInOrder`)? Does the pool lose a node (`BrokenOnlyWhenFull`)? |
| `fastcgi` | at most one parameter of 2 shapes, bodies of 0, 4 and 6 for a largest record of 3, answers of up to 2 records of 7 contents with and without padding and an end | Does php-fpm find each header where the last one announces it (`RequestFramed`), and the body it was sent (`StdinArrives`)? Is the client answered exactly when the answer is complete, and with its text (`AnswerHandedOver`, `AnswerFaithful`)? Does `RecvRecord` return wherever php-fpm stops (`RecvReturns`)? All three unless a body came that it does not skip. |

Runs in which the code does not do what its documentation says; the
counterexample is the point:

| Run | Statement | What happens |
|---|---|---|
| `reactor_idle` | `src/README.md:16`, a timer closes inactive connections | `poll` does not return on its time out, so on a loop without other traffic timers are never looked at |
| `http_pipeline` | `src/README.md:9`, pipelined requests are supported | The end of the headers is noticed one character late: the second request in a read loses its first character and is refused |
| `event_loop_thread_quit` | `EventLoopThread.cpp:26`, the destructor ends the loop | `loop()` stores FALSE into `quit_` when it is entered; a `quit()` before that is lost, and the join waits for ever |

Met while modelling, with no run of their own: `threadFunc` tests `running_`
before it collects the buffers, so lines appended before `stop()` may never be
written (`base/AsyncLogging.cpp:67`); a `SocketBuffer` with seven unread messages
asks its pool for no nodes and uses what is not there (`core/Buffer.cpp:44-49`),
which is all `BrokenOnlyWhenFull` allows; a request whose request line
arrives in two reads is refused with 400 (`HttpData.cpp:266` compares a
`size_t` with 0); a request without a header line is never complete; a POST with
a body gets no answer; a `Content-length` that is not a number makes `stoi` throw
(`HttpData.cpp:162`), which nobody catches, and the server ends (in the model it is a
number); the echo test and `handleError` lose or overtake what is left of an earlier
response (`HttpData.cpp:480`); a second
`threadpool_destroy` keeps the mutex (`ThreadPool.cpp:103`), and so does
`threadpool_free`.

- *Half-closed connections.* A client that finishes sending while its response does not
  fit into the send buffer never gets the rest of it. `handleConn` keeps the connection
  (`HttpData.cpp:252-253`) and sets EPOLLOUT in `events_`, but does not pass it to the
  poller; the timer has been cleared at `:223`; and the only event the kernel still
  reports, the end of the connection, is swallowed (`Channel.h:97-110`). The connection and
  its descriptor stay for ever. This is `Stranded`, the exception in
  `NothingMissed` and `Reaped` (in `TimerHeld` it is `HalfClosed`, which has no timer
  while it is kept); that there is no way out of it is `StrandedForGood`.
- *Timer.* When the clock falls back to 0, nodes made before it are not due until
  the next cycle (`Timer.cpp:22`): the exception `SameCycle` in `SweepComplete`. One made within
  its time out of that moment is never due, and its connection, if silent, never closed:
  the exception `endless` in `Reaped`.
- *Accepting.* After `accept` has failed with EMFILE the others in the backlog
  wait for the next client (`Server.cpp:50`, `starved` in `NoneLeftWaiting`).
  After `fcntl` has failed (`Server.cpp:72`) the descriptor is never closed,
  and `acceptChannel_` is left without events: nobody is accepted any more.
- *Requests to php-fpm.* `SendParamRecord` adds the length bytes to nothing
  (`core/FastCgi.cpp:57-58`), so the last bytes of each value are cut off, and the
  text runs over the buffer it is put into. The last of several STDIN records is
  as long as a full one and reads beyond the data (`:135`). A pair of more than
  65535 bytes is announced modulo 2^16. These are the exceptions of `RequestFramed`
  and `StdinArrives`.
- *Answers of php-fpm.* A second STDOUT record is read over the first one, as
  `realloc` adds room at the end and the read goes to the start (`:219`), so
  `AnswerFaithful` speaks of one record of each kind. At the end of the connection
  without END_REQUEST `RecvRecord` returns 0 and the client gets nothing.
  `Content-Length` counts the head of php's output, which is then not sent; an
  output without a CR follows a null pointer (`HttpData.cpp:596-600`). Only the first line
  of that head is cut off, with three bytes from its CR on, so of the usual head with several
  lines the others are sent as the beginning of the page, and of one with a single line the
  last LF of the blank line:
  `AnswerFaithful` gives the page for an output with one line of head. If webd's own head
  cannot be written, the page is sent without it (`:593`). What
  `sendPhpToCli` returns is dropped. A php-fpm that never answers blocks the thread.
- *Records nobody handles.* `RecvRecord` never skips the body or the padding of a record of
  another type or request (`core/FastCgi.cpp:204-281`): their bytes are read as the next
  headers. Output may be lost, END_REQUEST missed so that an answer which ended is not handed
  over, or the read blocks behind it while php-fpm keeps the connection. This is `lost`,
  the exception in `AnswerFaithful`, `AnswerHandedOver` and `RecvReturns`.
- *Read errors.* `rio_readn` returns -1 as a `size_t`, which the loop of `:204` takes for
  more bytes. If every read fails while the header holds a record without a body, it
  spins for ever, though the comment at `core/FastCgi.cpp:188-192` says that
  `RecvRecord` returns -1 on an error; so `RecvReturns` does not speak of `failing`.

### Bounds

- *Clients, functors, lines, tasks.* Each is used once or a few times; the bound
  (`MaxMoves`, `MaxQuitCalls`, `MaxLines`, `MaxRequests`, the size of `Task`)
  limits how much the environment does, never what the code does. Three moves are
  enough for a client to send, fill the buffer and drain it, or to send, finish
  and reset, or for the clock to wrap between two of them (a wrap counts as a move); two
  requests for one to meet what the other left; three tasks for a
  ring of two to wrap; five lines in buffers of two for a missing spare and a drop.
- *Failures.* One of `epoll_ctl` or `fcntl` (`MaxFaults`), as each has its whole
  effect at once and is then repaired by nobody; two of `fwrite` and `fflush`
  (`MaxFailures`), so that one meets what the other left.
- *Two of each actor* gives every pairwise race; the theorems below remove the
  bound for the loop, its thread, the timers, the ring and the life of connections.
  `reactor` has one loop, as loops share nothing but the numbers of descriptors, for
  which two connections on one loop compete as well; that tables, callbacks and
  timers stay right with several loops is proved (`ReactorProofs`).
- *FastCgi.* `MaxLength` = 3 stands for 65535, `Align` = 2 for 8 and `Short` = 3
  for 128, with lengths below, at and above each; two records before the last let
  one be read over another of its kind, and a stale header be taken for a new one. The
  contents are an empty one, text without CR, a first line that does not end the head and
  one that does, and for a record nobody handles a byte that looks like END_REQUEST.
- `Wrap` = 5 stands for 10^7 ms, with a time out shorter and one longer than what is
  left of a cycle. `SizeT` only has to exceed any buffer, so that `npos` is no position.
- `MAXFDS` and the descriptors are chosen so that a connection can be refused.

### Fairness

`Spec` of each module has weak fairness of the threads' own steps: a thread that
can run does (the scheduler), a mutex holder leaves its section, a timed wait
ends. No fairness is given to clients, to callers that might queue or quit, or to
sockets, and none to php-fpm, which may take for ever: `FastCgi` only schedules the
thread inside `RecvRecord`. `Reactor` adds that time passes (`TimeOut`: a node becomes due
unless a wrap of the clock has made it `endless`; the clock need not wrap) and that the accepting
thread is scheduled (`AcceptStep`). `Traffic` says whether other connections keep a loop's `poll`
returning; with it `Reaped` holds, without it `reactor_idle` refutes it.
`SafeSpec` is a specification without its fairness, which the theorems are about
(`LifeSafeSpec` for `EventLoopThread`).

## 4. Theorems

Each is proved for every value of the constants, from the named assumptions of
the module. `SafeSpec` or `Spec` is as the module defines it.

**EventLoopProofs.** `TypeCorrect`: `TypeOK` is inductive by itself; it carries the
fact that the two flags mark `loop()` and `doPendingFunctors` exactly.
`NoLostWakeup`: `WakeupPending` is inductive together with `TypeOK`. The step that
matters is `LoopQueues` inside a functor: it wakes because
`callingPendingFunctors_` is set, and the wakeup is consumed only by a handler
that runs before the next swap. `NoLostQuit`: a loop that goes from its check to
`poll` has seen `quit_` false, so the store comes later and its wakeup is either on the
ready list or still to come. `ImplementsTaskQueue`: each step maps to a step of
`TaskQueue` or a stutter, the queue being `functors \o pendingFunctors`.

Its second part is about `EventLoopThread`. `LoopInItsThread`: every step of the thread and of its
owner is a step of `EventLoop` or leaves it alone, so the theorems above hold of a
loop in its thread; `NoLostWakeupInThread` draws one of them. `LoopOutlivesItsUse`
(`Lifetimes`) needs to know where the thread is (`ThreadInv`: `loop_` is set exactly
while the thread is in `loop()`, the `EventLoop` exists until it has left
`threadFunc`) and where the owner is (`LifeInv`: until its destructor has called
`quit()` nobody has, and the loop has not ended). `LifeTypeCorrect` adds that the
latch counts down once.

**TimerProofs.** `TypeCorrect`, `ClockInvCorrect` and from it `ExpiryNotEarly`
(no connection is closed before its time out has really passed, for any time
outs and any period) and `SweepIsComplete`. The invariant relates the two clocks: the
code's clock is never ahead of a node's age, and exact until it falls back.

**ReactorProofs.** `CallbacksAlive`, `TablesAreCoherent` and `TimersAreHeld`, for any
number of loops, connections, descriptors and failures. They are inductive only
together (`IInv`): an `HttpData` is destroyed when its loop drops it because its
tables are exact and no second timer node holds it; the tables stay exact because the
kernel gives a descriptor away only then (`Descriptors`); a loop drops a connection only
while it handles it or after it has handled all (`Rounds`). That a half-closed connection
kept without a timer still has output needs that no mask asks for input and output
at once (`Masks`, from `NextEvents`). `Follows` says what `handleRead` and `handleWrite` leave.

`NothingIsMissed` follows one connection through a round (`Watched`): where it is in
its loop's round (`Stage`), the mask the kernel has is the one `lastEvents_` says, an
entry that is not `EPOLLONESHOT` is armed, a waiting connection asks for output exactly
when it has some or is stranded, and what arrived since its handler ran is on the ready
list already (`Fits`). The step that matters is `epoll_mod` in `handleConn`, which looks at the state
of the socket again. `NobodyLeftWaiting` does the same for the listening
socket (`Listening`). `StrandedStays` is an action property: nothing ends the
state `handleConn` leaves a half-closed connection with output in. Each step is one of the
connection's own or leaves it alone (`OwnOrSame`: `Own`, `Same`). Of its own steps, no timer
refers to it and no mask asks for output, so an event can only be the end of the connection,
and `handleEvents` swallows that (`OwnStranded`); what makes that exhaustive is the state
such a connection is in through all its rounds (`Closing`, `AlwaysClosing`).

**ThreadPoolProofs.** `TypeCorrect` and `RingIsCoherent`: for any number of
threads and any `queue_size`, the tasks in the ring are the `count` slots from
`head` on. The inductive invariant is the shape of the state, `RingCoherent`,
and that a running worker has a task: that the slot a worker takes from is
filled is `RingCoherent`, and that `done` holds only tasks needs it. The lemmas
`ModBelowTwice` and `AtIs` reduce `%` to one subtraction. `NoSignalIsLost` counts the
workers on their way to the mutex (`AtDoor`): a task adds one of them or nobody
sleeps, and the worker that comes and sleeps again found the ring empty.
`FreedAfterLastWorker`: `started` is the number of workers that have not ended
(`StartedCounts`), and a joined worker stays ended. `PoolImplementsWorkQueue`: a task
is in one place, with its adder, in one slot, with one worker, or done (`OnePlace`), so
that each step on the ring is one on the queue `Line`, and what a worker takes is its head.

**AsyncLoggingProofs.** `TypeCorrect`, `AssertsHold` and `OneHolder`, from the invariant
`IInv`: the places a buffer can be are `Apart`; what may become a current or a spare
buffer is `Empty`; which spares the logging thread has depends on where it is
(`Spares`): a second one is only missing when two buffers were collected, which is why
the asserts hold and why `AfterFirst` and `AfterResize` are different buffers; and every
buffer in use was filled by a line, so there are no more than lines (`Room`), which is
what the assumption on `Buffer` (memory for `new`) needs. `LinesAccounted` and
`LoggerImplementsPipe` are about the `Stream`: the file, then the lines of the
buffers in the order they will be written. Each step either appends a line at its end or
moves it along (`Moved`: one stretch, possibly empty, is cut out and counted as dropped,
while more of what is before it reaches the disk), and those are the steps of `LogPipe`
(`MovedIsAdvance`, `AppendIsAppendLine`). With that the safety half of `Pipeline` holds
for any number of lines, drops and failures; its fairness stays with TLC. The lines of a
sequence of buffers are a fold (`FlattenSeq`), so what it does to a concatenation is proved
first, by induction over the set of lengths for which it holds (`SetInduction`).

**SocketBufferProofs.** `TypeCorrect`, `BytesComeInOrder` and `NodesAreKept`: for
messages and reads of any sizes, what is read is what was pushed, each byte once
and in order. The invariant `IInv` says that the nodes hold adjacent stretches
of the stream (`Adjacent`), from the next byte to be read to the last one pushed
(`Ends`), that what was read is numbered so far (`Numbered`), what `size` and
`want` account for at each place of a read (`Account`), and that the seven nodes
are in the chain or in the pool (`Nodes`). It shows that the test for the end of
the chain in `BufferReadSpec` (`Buffer.cpp:131-134`) never succeeds (`NextNode`).

**HttpDataProofs.** `TypeCorrect`, `ParserStartsFresh`, `AnswersAreToRequests` and
`AnsweredInOrder`, for any requests that
`HttpDataAssumption` calls well-formed (words that are none of the parser's tokens, no
stream as long as `npos`), cut and overlapping in any way. Each phase of
`handleRead` is a lemma about the record it leaves: `ParseURIType` needs that a
`size_t` is never negative and that `find` returns a place or `npos`;
`HeaderStepType` that the four positions of `parseHeaders` stay within what it has
read, by induction over its turns (`TurnOK`). `FreshStart` is inductive with the
fact that an error closes the connection (`Fresh`): only `reset` and `handleError`
lead back to the request line, and both leave nothing behind.

`AnswersRequests` is about every way to cut the stream, and what it needs is where
the parser is in the text of a request when a read ends. `Grid` says what one can tell of
the stream from the start of a request: the request line, then six tokens for each
header, then the blank line. `Place` gives the places `parseHeaders` can have come
to in each of its states, and `Marks` what its four positions then hold, so that a
line it takes is a header of the request and not parts of two; both are
preserved by a turn of the loop, for any place the data ends at. `parseURI` either
takes the whole request line or leaves all of it for the next read. The invariant
(`Conversing`) is that each answer so far is to the request of its
number and that the parser has come to a place in the next one (`Reading`).

`WireInOrder` is about requests that come whole and one by one, of which a reference
(`Expected`) says what the responses are. Here the argument goes forward through
each phase: `WholeURI` for the request line; for the headers an induction over them
(`EnteredAt`): after six turns for each, `headers_` holds of every name the last
header (`Entered`), and the state is the one the next line begins in; then the body and
the response. The invariant (`InOrder`) is that between two reads the parser
waits for a request and all responses so far are on the wire or in `outBuffer_`
(`WaitsFor`), or it has read all of a request and waits for more of it that will not
come (`AwaitsRest`: a request without a header line, or a POST whose body was
announced as longer than it is). A request is thus never split between two reads, and a
write leaves a prefix of what is expected. That the ends of requests rise, so that the
number of requests read is one number, is `EndsRise`.

**FastCgiProofs.** Two inductive invariants, for the two directions. `RequestIsFramed`
and `StdinHasArrived`: what is sent is a row of records, each a header and as many
units as it announces, the last of which a failed write may cut (`FramedInv`, `Framed`);
the units inside STDIN records are numbered from 1 without a gap, and there are
`stdin - left` of them (`StdinInv`, `Numbered`). That the wrong length
`SendParamRecord` computes never exceeds the text and the padding buffer behind it is
`PairFits`. `AnswerIsFaithful` and `AnswerIsHandedOver`: what has not been read
is the rest of the last record php-fpm sent, and perhaps the beginning of one more
(`Running`), or the connection broke before the answer ended and what is left does
not suffice for the part `RecvRecord` waits for (`Broken`). From the latter it can
only give up, which is the point of `AnswerFaithful`: a header made of old and new
bytes may be taken for END_REQUEST, but then there is nothing left to read of one. `Account` relates the buffers
to the records read so far. All this holds until php-fpm sends a body that is not skipped
(`RecvInv` is `lost \/ Follows`); a record nobody handles is `Harmless` before. What the client
gets of an output with one line of head is `PageIs`. The contents of the records of an answer are a function over its length,
and what one more record adds is proved by induction (`TotalAppend`).

Out of the prover's reach and left to TLC: everything under fairness
(`QuitTakesEffect`, `LinesReachDisk`, `StopReturns`, `Reaped`, `TasksRun`,
`DestroyReturns`, `StartReturns`, `DestructorEndsLoop`, `RecvReturns`, the fairness of
`LogPipe` and `TaskQueue`). The type invariants that are theorems are checked by a run
only where they are cheap.

Every safety invariant of a passing run is a theorem.
`HttpDataProofs` takes the prover about a quarter of an hour from nothing, the other
modules a few minutes each.

## 5. Not modelled

- `HTTP.cc`: a test program of its own (a scanner of request lines and its `main`),
  which the Makefile does not compile; `Http.h` and `DataBase`: types nobody uses.
- `LogStream`'s formatting of numbers; the contents of files and pages; dates.
- Cuts inside a word of a request; the exception `stoi` throws at a `Content-length` that
  is not a number (`HttpData.cpp:162`), which ends the process.
- Socket options (`setSocketNodelay`, `setSocketNoLinger`) and failures of `malloc`,
  `socket`, `bind` and `listen`, which end the program or are not looked at.
- The buffered `rio` functions of `Util.cpp`, which nothing calls.
- The memory of the process: buffers of the front end of the logger are not bounded
  by the code (`base/AsyncLogging.cpp:46`).

## 6. Plan

Done in this order: `EventLoop` with its proofs, `Timer` with its proofs,
`AsyncLogging`, `Reactor`, `HttpData`, `ThreadPool` with its proofs,
`EventLoopThread`, `SocketBuffer` with its proofs; then the accepting thread and the
failures of the kernel in `Reactor`, `AppendFile` in `AsyncLogging`, `FastCgi`, and
the proofs of `EventLoopThread` and `Reactor`; then the signals and the refinement of
`ThreadPool`, what `Reactor` never misses, all of `AsyncLogging` and of `FastCgi`, and
the types and the fresh parser of `HttpData`; at last what `HttpData` answers, for any
cut of the stream (`AnswersAreToRequests`) and for whole requests (`AnsweredInOrder`).

What is left: two loops in the run `reactor`, if a smaller state allows it.
