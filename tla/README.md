# TinyWebLib in TLA+

TinyWebLib is a small C++11 network library after muduo: event loops on epoll, one
loop per thread, TCP servers and connections with buffers, timers, an asynchronous
logger, a thread pool, a MySQL connection pool and an HTTP server on top. This directory
models it in TLA+, checks the models with TLC and proves their safety with TLAPS,
but for the text that `Logger` makes of a single line.
Paths below are relative to `src/src/`; the headers under `src/include/tiny_network/` are
copies of those there and are not mentioned again.
The build keeps `assert()` active, so a failing assertion is a crash.

## The system

**EventLoop** (`net/EventLoop.*`) keeps `quit_`, `pendingFunctors_` (under `mutex_`),
`callingPendingFunctors_`, an eventfd and the channels active in this pass. `loop()`
goes round: test `quit_`, poll, handle the active channels, `doPendingFunctors()`. Any
thread may call `queueInLoop()`, `runInLoop()` and `quit()`. *Hard*: the flag and
`quit_` are read and written by several threads without the lock; the wakeup through
the eventfd is a separate step from what it announces. *Correct if* the loop never
sleeps on functors or on a `quit()`, and functors run once and in order.

**Channel, Poller, EPollPoller** (`net/Channel.*`, `net/poller/*`): the events a
descriptor is watched for, the poller's map from descriptors to raw `Channel*` and the
channel's place in it (`kNew`, `kAdded`, `kDeleted`). *Hard*: the raw pointers in the
map, in the kernel and in `activeChannels_`; descriptors that are closed and used again;
a list of events that is too short. *Correct if* map, kernel and channel agree, no pointer
of a pass is stale when it is used, and no ready channel is passed over for ever.

**TcpConnection** (`net/TcpConnection.*`): the state of a connection, its output buffer
and its Channel, used in an IO loop. Other threads call `send()` and `shutdown()`; the
peer sends, closes and resets. *Hard*: `state_` is read and set without a lock;
half-closes; partial writes; the lifetime of the connection while functors are bound to
the raw `this`. *Correct if* the callbacks report one rise and then one fall, bytes leave
in order and before the FIN, and no assertion fails.

**TcpServer, Acceptor, EventLoopThread, EventLoopThreadPool** (`net/`): the base loop
accepts connections, keeps them in `connections_` by name and hands them to IO loops in
turn; each IO loop is a local of a thread's function and is published to the owner under a
mutex. Server and connections talk through functors: `newConnection()` →
`connectEstablished()`; `handleClose()` → `removeConnectionInLoop()` →
`connectDestroyed()`. *Hard*: construction and destruction across threads, with functors
on their way; descriptors at their limit. *Correct if* a loop exists until it is told to quit, each
connection is established and destroyed once, in this order, clients get in and closed
connections go, and the destructor returns.

**Buffer** (`net/Buffer.*`): bytes with a read and a write index, compacted or grown.
One thread. *Correct if* it is a queue of bytes and its capacity stays in bounds.

**TimerQueue, Timer** (`time/*`): a set of timers ordered by expiration and one timerfd.
*Hard*: callbacks that add timers while expired ones are out of the set; two clocks.
*Correct if* the timerfd is armed for the earliest timer, nothing runs early and
everything runs.

**Logger, LogStream** (`log/Logging.*`, `log/LogStream.*`): a statement streams a line into
a buffer of its own and passes it to an output function. *Hard*: what does not fit is
dropped piece by piece. *Correct if* each piece of a line, its newline included, is whole and
right or missing for want of room.

**AsyncLogging** (`log/AsyncLogging.*`, `base/FixedBuffer.h`): threads append lines to a
current buffer with one spare; a backend thread swaps the full ones out, writes them to a
LogFile and recycles two. *Hard*: moved-from buffers, assertions about their number,
`stop()` against a starting or a sleeping backend. *Correct if* lines reach the file once
and in order and the assertions hold.

**LogFile, FileUtil** (`log/*`): a file rolled by size and by day, flushed every few
seconds; the clock is looked at with every `checkEveryN_`-th append only. *Hard*: the
bookkeeping of three times and a count over rolls, the stdio buffer. *Correct if* files stay
within size and day as far as the code can see, and what was taken reaches the disk.

**ThreadPool, Thread** (`base/*`): threads that take tasks from one queue with a
condition variable. *Hard*: lost notifications, stopping while some thread is between
its test and its wait. *Correct if* each task is taken once and in order and the
destructor returns.

**ConnectionPool, MysqlConn** (`mysql/*`): MySQL connections lent to users, opened by a
producer thread and closed by a recycler thread; a connection carries its result, its
autocommit mode and its open transaction from one user to the next. *Hard*: a count that
is kept by four places; state that outlives its user. *Correct if* no connection is lent
twice, the number open stays within its limits, room for another one is used and nobody
sees what is another's.

**HttpServer, HttpContext, HttpRequest, HttpResponse** (`http/*`): a request parser over
the input buffer of a connection, and the callback that answers. *Hard*: requests cut by
reads anywhere, several in one read, answers that close. *Correct if* answers are to the
requests sent, in their order, the peer can tell where each ends, and parsing ends.

## The modules

| module | models | state and actions |
|---|---|---|
| `TaskQueue` | what an EventLoop promises (abstract) | one queue, one running functor |
| `EventLoop` | `net/EventLoop.cpp` | members under their names; `pc` is the loop thread, `tpc` the others. One action per access to shared state |
| `EPollPoller` | `Channel`, `Poller`, `EPollPoller`, and of `EventLoop::loop()` its pass over `activeChannels_` | `channels_`, the kernel's table and `index_` of several channels; one action per callback, as `TcpConnection` makes them; an assertion that fails, or a `LOG_FATAL`, sets `aborted` |
| `TcpConnection` | `TcpConnection` with its one `Channel`, its entry in `TcpServer`, the peer, user threads | members under their names; a handler is one step up to its user callback, and goes on after it (`CallbackReturns`, `RemoveChannel`). Assertions are properties |
| `EventLoopThreadPool` | `EventLoopThread`, `EventLoopThreadPool`, and of `EventLoop` what they need | one `pc` per thread in `threadFunc()`, one for the owner |
| `TcpServer` | `TcpServer`, `Acceptor`; extends `EventLoopThreadPool`, whose owner it is | `connections_`, functors in the base loop and in the IO loops, what has been called for each connection; one action per handler or functor |
| `ByteQueue` | what a Buffer promises (abstract) | the bytes in it |
| `Buffer` | `net/Buffer.*` | the three members as a record; one operator per method |
| `TimerQueue` | `time/TimerQueue.*`, `Timer` | where each timer is and how far ahead; the timerfd; the wall clock |
| `AsyncLogging` | `log/AsyncLogging.*`, `FixedBuffer` | members and the locals of `threadFunc()`; a block under the mutex is one step |
| `LogFile` | `log/LogFile.*`, `log/FileUtil.*` | operators on a record of the members |
| `AsyncLogFile` | `AsyncLogging` with its `LogFile` and a clock | the steps of `AsyncLogging`, each with its calls of `LogFile`, and `Tick` |
| `LogStream` | `log/LogStream.*` | operators on a sequence of characters |
| `Logging` | `log/Logging.*` on top of `AsyncLogFile` | the text of a line; the statement is the step `AppendLine` |
| `ThreadPool` | `base/ThreadPool.*` | where each thread is in `runInThread()`; a critical section is one step, a wait separates two |
| `ConnectionPool` | `mysql/ConnectionPool.*` | the queue, the count, what each user has; one step per critical section |
| `MysqlConn` | `mysql/MysqlConn.*`; extends `ConnectionPool` | what a connection keeps, what its user is doing; one action per use |
| `HttpServer` | `http/*`, one connection | the input buffer as words, the HttpContext, the answers; one action per pass of the parser's loop |
| `TcpConnection_proofs`, `ThreadPool_proofs` | | theorems about the module they are named after |
| `EventLoop_proofs` | | theorems about `EventLoop` and what it drives, `TimerQueue` and `EPollPoller` |
| `TcpServer_proofs` | | theorems about `EventLoopThreadPool` and `TcpServer` |
| `Logging_proofs` | | theorems about `AsyncLogging`, `AsyncLogFile` and `Logging` |
| `MysqlConn_proofs` | | theorems about `ConnectionPool` and `MysqlConn` |
| `HttpServer_proofs` | | theorems about `Buffer` and `HttpServer`, which parses what is in one |
| `SequenceLemmas` | | induction over numbers, and facts about `FlattenSeq` that two of the others use |
| `MC*` | | values and symmetries for TLC; the others are run as they are |

`EventLoop` implements `TaskQueue`, and `Buffer` implements `ByteQueue`, by `INSTANCE ...
WITH`; `AsyncLogFile` implements `AsyncLogging` by conjunction. The modules compose what
interacts and take the rest at its abstract word: `TcpConnection` uses a loop whose functors
run in order and whose poll returns when a functor was queued (what `EventLoop` is checked
for), a byte sequence for its output buffer (what `Buffer` is checked for); `TimerQueue` a
queue of functors that runs; `TcpServer` connections of which only the life matters;
`HttpServer` a connection that reads, sends and shuts down as `TcpConnection` does when it
is used from its callbacks.

In the modules "Faulty variant of X" marks an operator that takes the place of X to show
that a property can fail: a dropped guard, a missing reset, a swapped order. No
specification uses them.

### What is abstracted

- *EventLoop*: the eventfd is readable or not (a write to a full counter still leaves it
  readable); a functor is a name and waits at most once in `pendingFunctors_` (bound).
  `loop()` is called once per object, which the code never says but every use keeps.
- *EPollPoller*: the channels belong to connections: made and removed by functors, disabled
  from their own callbacks, as `TcpConnection` does. `EPOLLERR` only logs and is left out.
  `epoll_ctl()` fails where the kernel refuses: an entry that is there, or is not.
- *TcpConnection*: one connection. A message is two bytes, so that a write may split it;
  incoming data is there or not. Descriptors and addresses are left out. SIGPIPE is taken
  to be ignored, which the library leaves to its user. A user thread drops its
  `TcpConnectionPtr` only when none of its calls waits in the loop (their functors are
  bound to the raw `this`). Two rigid variables are chosen once: `baseIsIo` (a server
  without IO threads or with them) and `userCalls` (what the user threads call).
- *TcpServer*: names of connections differ in `nextConnId_` only, as in the code. The limit
  of descriptors counts connections that are not yet destroyed. `start()` is called before
  the base loop runs and the server is destroyed after it.
- *Buffer*: `size_t` does not overflow; a user leaves at most `MaxReadable` bytes (bound).
- *TimerQueue*: times are ticks from now; how long ago a time came is forgotten. A tick is
  at least the 100 microseconds below which `resetTimerfd()` does not go.
- *AsyncLogging*: a buffer is the sequence of the lines in it; `start()` and `stop()` are
  called once. Nothing bounds the backlog of full buffers, in the code or in the model.
- *LogFile*: `fopen()` and `fwrite()` succeed. Of a file: when it was opened and last
  appended to, its bytes, and how many appends came after its day.
- *Logging*: a fixed text is one character. The date and the text of a double come from
  libc. Numbers of statements are neither 0, for which `formatInteger()` writes nothing, nor
  the least of their type, whose negation is undefined. `g_logLevel` and the functions that
  set it or the outputs are left out: a statement below the level does nothing. `abort()`
  after a FATAL line is the end of a behaviour, which may come at any step.
- *ConnectionPool*: users look for a connection at any moment, since `wait_for()` may time
  out at any moment; a spin of the producer is no step. *MysqlConn*: users are tidy: they
  read results to the end and finish their transactions.
- *HttpServer*: text is a sequence of words; the characters that the parser looks for are
  words. A response is composed and given to `send()`; `wire` has what `send()` takes instead. `receiveTime_` and `body_` are used by nobody.

## The runs

Passing runs, with the bounds and why they suffice:

| run | shows | bounds |
|---|---|---|
| `EventLoopRun` | no wakeup and no quit is lost; functors run once, in order and eventually; `quit()` ends the loop. Only what is queued before `loop()` needs the poll timeout | 2 threads, so that one may overtake another's wakeup; 2 functors, which may queue each other and themselves again and again, one possibly before `loop()` |
| `PollerRun` | `channels_`, the kernel and `index_` agree; no channel in `activeChannels_` is stale; data is read in the end | 3 channels over 2 descriptors, so that one is used again while the other's event waits; a list of events that starts with room for one and grows |
| `ConnCallbacks` | a connection used from its callbacks: the peer ends it, a shutdown gets its FIN | both deployments; 2 messages of 2 bytes, by either `send()`: a second send on a partly written first one; high-water mark at one message |
| `ConnForeign` | the end of the channel, order of callbacks, watching for writability, the FIN ahead of nothing but sends still queued, while a thread calls from outside and the server may be destroyed | both deployments; 1 thread that sends, shuts down, or both; 2 messages; callbacks send and shut down, too. With 2 threads (7.4 million states, three minutes) the same properties hold |
| `ServerRun` | loops exist until `quit()`; a connection is established and destroyed once; clients get in and closed connections go; the destructor returns | 2 IO loops, so that one is destroyed while the other starts, loops and ends; 3 clients and room for 2, so that the third waits for a descriptor; destruction at any moment |
| `BufferSafe` | queue of bytes, indices, assertions, growth | capacity 3, at most 4 bytes kept, up to 3 at a time: moving, growing and extrabuf all happen |
| `TimerRun` | the timerfd is armed for the earliest, nobody runs early, everybody runs even if the wall clock is set, the loop sleeps again | 3 timers, one repeating every 2 ticks, added up to 2 ahead; one jump of the clock |
| `AsyncRun` | assertions; the pieces of the lines whole or without room, and in order; files within size and day; everything on disk before the backend waits, and in the end without a full buffer | 4 lines of 15, 31, 33 and 36 characters, buffers and files of 36, streams of 34: the spare is used, buffers beyond two are allocated, one line has just room for its newline, one just not and drops a number as well, and a third fits in no buffer; a day of 2 seconds, 3 seconds, the clock looked at with every second append: files roll by size, by day and within their first second not at all |
| `ThreadPoolRun` | tasks once and in order, no lost notification, tasks run, the destructor returns | 3 threads and 4 tasks: two threads wait while one is told |
| `MysqlPoolRun` | nobody shares a connection; the maximum holds; users see what is theirs; who waits while the count leaves room does not wait for others to give back | 3 users, 1 to 3 connections, 4 identities, so that one would be left to open too many |
| `HttpRun` | answers given to `send()` are to the requests sent, in order and with an end; which of them the kernel gets; parsing returns | two requests of nine kinds, 81 pairs, bodies that hold a line or a request among them, cut by reads anywhere: the second may be read with the first, after it, or in its middle; both callbacks |

One run ends in a violation, a disagreement of the code with its own comment (quoted under
`findings` in `PROJECT.json`): in `ConnWrongBytes`, `handleWrite()` writes from
`beginWrite()` instead of the readable bytes.

Deadlock is checked where the program has no end. It is not where the modelled program may
stop: a loop that returned, a pool or a server that was destroyed, lines that are all
logged, a peer that has sent everything.

### What else the models have

Behaviours of the code that the models have, and because of which properties are stated
with a condition, or not at all:

- *EventLoop*: `loop()` clears a `quit_` set before it (`EventLoop.cpp:83`), and the `join()`
  of the owner never returns: `PoolDestroyed` is stated for a pool whose threads loop.
  `quit()` of an awake loop may write to the eventfd of a loop that is gone (line 109):
  `LoopsExistUntilQuit` ends where `quit_` is set.
- *TcpConnection*: `shutdown()` tests and sets `state_` in two steps (lines 158-160); with
  `handleClose()` in between, `kDisconnected` becomes `kDisconnecting` again, a late send
  registers the channel anew, the fall is reported twice and `Channel::remove()` asserts
  (`Channel.cpp:41`). This takes other threads that call both `send()` and `shutdown()`
  (`MixedUse`). `ConnForeign` has a thread that does; `CallbackOrder` and `ChannelLeaves` name
  the case. That the destroyed connection is still registered, too, takes two threads.
- `shutdown()` sets `kDisconnecting` ahead of the queue: a `handleWrite()` that empties earlier
  output sends the FIN in front of a `sendInLoop()` still queued, whose message is lost.
  `FinBehindOutput` says that nothing else is missing when the FIN is sent.
- `~TcpServer` on a connection in `kDisconnecting`: `connectDestroyed()` leaves its events
  set (line 186) and `remove()` asserts; with IO threads the loop may quit with
  `connectDestroyed()` still queued and the Channel dies registered. `ConnForeign` reaches both;
  they are the exceptions in `RemoveFindsNoEvent` and `DestroyedUnregistered`.
- `send(Buffer*)` in the IO thread passes `beginWrite()`, too (line 77): of all answers of an
  HttpServer only the 400, a string, leaves as it was composed (`AnswersRight`). Functors bound to
  the raw `this` (`TcpConnection.cpp:66`, `TcpServer.cpp:63` and `108`) outlive it unless
  the user sees to it.
- *TcpServer*: `kNoReusePort` still sets `SO_REUSEPORT` (`TcpServer.h:25`, `Acceptor.cpp:30`).
  At the limit of descriptors the base loop spins until a connection closes.
- *AsyncLogging*: `stop()` leaves lines appended after the last swap in the buffers, though
  `AsyncLogging.h:37` promises otherwise; before `threadFunc()` is entered it fails
  `assert(running_ == true)` (`AsyncLogging.cpp:53`, `Enter`). The LogFile gets `false` for
  its flush interval (line 54), which is 0 seconds.
- *FileUtil*: a short write drops the rest of the line (`FileUtil.cpp:25`), which the models
  leave out with the failures of `fwrite()`.
- *Logging*: a line that fills its stream to one character has no newline, and the next one
  follows on it (`FixedBuffer.h:23`); `0` is logged as nothing; FATAL lines stay in AsyncLogging's buffers, since
  `g_flush` flushes stdout and `abort()` follows (`Logging.cpp:129`).
- *TimerQueue*: the wall clock moves timers but not the armed timerfd: `ArmedForEarliest`
  and `NotEarly` are stated while it was not set.
- *ThreadPool*: `stop()` leaves tasks behind, nothing bounds the queue, and `start()` after
  `stop()` ends the process (`ThreadPool.cpp:34`).
- *ConnectionPool*: openings are counted twice: with 2 connections open of 4 it is full. With
  `minSize_` 0 the recycler may close the last connection while the producer sleeps, or while the
  count has drifted to `maxSize_`, and nobody is served any more: `RoomIsUsed` is stated for a
  minimum of one. A user is told of no connection given back (line 100). The
  result of `connect()` is ignored (line 77). *MysqlConn*: `query()` does not send its
  statement (line 63) but stores the result of the one before, and autocommit stays off
  after a transaction (line 104): `SessionIsOwn` holds of users that are tidy.
- *HttpServer*: a request cut inside its headers is answered with 400 when the rest comes,
  since the HttpContext is a local of `onMessage()` (`dropped` in the model, and
  `AnswersRight` says what it says up to there). A header line without a colon ends the
  request, a body stays in the buffer and is parsed as the next request, and answered if it
  begins like one, and of two requests in one read the second waits for the next read.

## Fairness

Weak fairness for the steps a thread takes by itself, since threads are scheduled and
user callbacks and tasks return. Beyond that:

- `EventLoop`: `epoll_wait()` returns when the eventfd is readable. Its timeout is
  assumed only while functors queued before `loop()` are pending. Nobody must queue or quit.
- `EPollPoller`: epoll is level-triggered and rotates its ready list, so a channel that is
  ready again and again is reported (strong fairness of `Reports`). No data need come.
- `TcpConnection`: the same (strong fairness of `PollActive`). `ShutdownSendsFin`
  assumes that the peer reads: its socket gets room again and again.
- `TcpServer`: the loops go on, `accept()` is reached while a client waits, the owner that
  has begun to destroy the server goes on. Clients need not come, connections need not
  close; a client is promised a place only when a descriptor is free.
- `AsyncLogFile`: `wait_for()` ends by its timeout. Time need not pass.
- `TimerQueue`: time passes; a functor that was queued is run although the loop is elsewhere
  in between (strong fairness of `AddQueued`, what `EventLoop` establishes as
  `RunsEventually`).
- `ThreadPool`: a thread that wants the mutex gets it. Spurious wakeups happen and are not
  relied on; that a wait ends needs a notification.
- `MysqlConn`, `ConnectionPool`: when there is a connection some waiting user finds it. Which
  one is not said: nothing in the code orders waiting users, so that one of them is served
  in the end cannot be promised. Users need not return connections.
- `HttpServer`: the parser goes on; the peer need not send.

## The proofs

TLC finds a formula right on a small instance; the theorems hold for any number of
threads, functors, lines, bytes, tasks, timers, channels, connections and requests. They assume only
what the named assumptions say of the constants, which TLC evaluates in the runs
(`EventLoopAssumption`, `AsyncLoggingAssumption`, `LogFileAssumption`, `BufferAssumption`,
`ThreadPoolAssumption`, `ConnectionPoolAssumption`, `TimerQueueAssumption`,
`EPollPollerAssumption`, `TcpConnectionAssumption`, `EventLoopThreadPoolAssumption`,
`TcpServerAssumption`, `HttpServerAssumption`). Mostly they say that a number is a
number and a mark such as `Null` or `"waiting"` is none of the values it is told from. They
restrict no more than that descriptors and the connections of the pool are finitely many,
and the latter more than the pool may open, and what a peer of `HttpServer` sends, below.
Two theorems, `CallbacksInOrder` and `ChannelIsLeft`, have a hypothesis of their own, below.
Each invariant was checked by TLC before it was proved.

*EventLoop.* `NoWakeupIsLost` and `NoQuitIsLost` rest on `LoopInv` (`LoopInvHolds`). They
are not inductive alone: that nothing is lost at the poll depends on
`callingPendingFunctors_` being set exactly from before the swap until the last functor is
done, and on a wakeup being due for whatever is pending from the swap on. The steps are
grouped into those of other threads, of callbacks, of a pass and of
`doPendingFunctors()`, one lemma each. `ImplementsTaskQueue` shows with the same invariant
that every step is a step of `TaskQueue` or leaves `functors \o pendingFunctors_` alone.

*AsyncLogging.* `AsyncInvHolds`: a spare is missing only if a full buffer waits, so that
every swap gives the backend two buffers for each it gave away; while it is not writing the
backend owns two empty ones. `AssertionsHold` follows: no assertion of the loop fails.
`NoLineIsLost` is about what is in the buffers: read from the file to the current buffer
they hold the lines that fit in a buffer, in the order of their `append()`. `LinesInvHolds`
adds what makes that inductive: the spare is empty when it becomes the current buffer, and
`written` is back at 0 before the next swap. Each step moves lines over the boundary between
two parts of `Held` or adds one at its end (`HeldIs`, `AppendLineKeepsLines`,
`SwapBuffersKeepsLines`, `WriteBufferKeepsLines`). Which text `Logger` makes of a line is
`TextInOrder`, which is model-checked only.

The lemmas below these (`SequenceLemmas`) are about recursive functions: `Induction` is induction over a set of
numbers, from the least element not in it; `RecursionExists` gives a function with a first
value and a step; with both, `FlattenSeq` of a sequence with one more at either end
(`FlattenAppend`, `FlattenCons`) and the length of a buffer (`LengthHolds`) are known.

*AsyncLogFile.* `FileImplements`: with a LogFile and a clock the backend is still the
backend, so that `AssertionsHold` carries over (`FileAssertionsHold`). `FileInvHolds` is the
invariant of the file: LogFile was given as many lines as the backend has written, its
`lastRoll_` and `startOfPeriod_` are those of the open file, `count_` is at least the number
of appends after the end of the file's day, and there are none of these as long as the clock
is in that day. This last part needs that days follow each other (`PeriodHolds`,
`PeriodBetween`). `AppendKeeps` has a case for each outcome of `appendInLock()`; the others
follow from `FlushKeeps` and `RolledInv`. `FlushedWhenItWaits` and `FilesAreBounded` are
consequences: neither would be inductive without the rest.

*Buffer.* `BufferInvHolds` (indices in order and in bounds), `AssertionsNeverFail`,
`GrowthIsBounded` and `BufferImplementsByteQueue`. The lemmas say what each method
does to the readable bytes (`RetrieveDrops`, `MoveToFrontKeeps`, `WriteAppends`,
`EnsureMakesRoom`, `ReadFdAppends`) for any well-formed buffer; the step of the
specification is then a step of `ByteQueue`. Growth is inductive as it stands: a buffer
grows only if what is readable and what comes exceed what is there.

*ThreadPool.* `TasksTakenInOrder`, `NoNotifyLost` and `TasksNotForgotten` follow from
`PoolInv` (`PoolInvariant`). The order in which tasks are taken is inductive only with the
order in which they wait in `queue_`; that no notification is lost needs that no thread is
gone while `running_` is set, and that nothing is queued in a pool without threads.
`AppendInOrder` and `TailInOrder` are what `addTask()` and `take()` do to a queue in order.

*ConnectionPool and MysqlConn.* `ConnectionInOnePlace` and `OpenAtMostMaxSize` are proved of
the pool alone (`PoolInvariant`) and carried over to the pool with its users by
`SessionImplementsPool`. `currentSize_` counts a connection twice when it is opened and once
when it is closed; that it never falls below the number open (`OpenCounted`) is what makes
the maximum inductive. Most lemmas are about the queue as a sequence without repetitions:
taking the first, appending one, dropping the first n, as `recycleConnection()` does.
`SessionsAreOwn` needs to know whose result a connection keeps at any moment: an unfetched
one belongs to the holder, who is about to call `query()` (`Unfetched`), from which
`CallsStayInSync` follows as well.

*TimerQueue.* `TimerfdArmed` and `TimersNotEarly` together are inductive (`TimerInvariant`):
a timer runs in time since it is armed for, and only timers that are due are taken. Two
lemmas carry the proof: a nonempty set of times has a least one, and `resetTimerfd()` is
monotone, so that arming for the least arms for nobody too late (`RearmForLeast`).

*EPollPoller.* `RegistrationsAlwaysAgree` and `ActiveChannelsStayLive` follow from
`PollerInv` (`PollerInvariant`), which says more than either: where a channel stands in its
life fixes its `index_`, whether `channels_` has it and whether epoll has it, under its
descriptor, which no other open channel has; and a channel whose report is still to be
handled is registered, appears in one report only, and is still up if the report can close
it. The last is why no callback of a round destroys a channel reported in it, and why a
descriptor that is closed and used again never leads to the channel before.

*TcpConnection.* `CallbacksInOrder` and `ChannelIsLeft` rest on `ConnInv`, which goes through the life of a connection:
before the rise there is nothing but a functor to establish it (`BeforeUp`); between rise and
fall the channel is registered and reads, and writability is watched for exactly while there
is output (`WhileUp`); after the fall no event is left, none is still to be handled that
could close it again, and a `sendInLoop()` that comes late gives up (`AfterDown`). Every step
has a lemma. `CallbacksInOrder` is read off it. The hypothesis `UsersDoNotMix`, no thread both sends and shuts down, is what `AfterDown` needs, since
`shutdown()` may bring a closed connection back to `kDisconnecting` (lines 158-160): with
threads that do both, TLC finds the fall reported twice and a channel removed with events.

`WatchesWhileOutput` has no hypothesis. A connection that came back may be registered a second
time, by a `sendInLoop()` that was queued, and counts of rises and falls say nothing of it;
`WatchInv` looks at the channel alone. Whatever has events is registered; an event that may
close the connection finds it registered, so that disabling takes the channel out of epoll and
never puts it in with nothing to watch for (`updateChannel()` adds a `kDeleted` channel
whatever its events); and `connectEstablished()` runs once, before anything is sent
(`EstablishedOnce`, `UntouchedBefore`).

`ChannelIsLeft` has the hypothesis `UsersDoNotMix`, too, but lets the server be destroyed at any
moment. It adds `Leaving`: as long as the loop runs and the channel is not removed,
`connections_`, a callback, the base loop or a queued functor has `connectDestroyed()` still to
do; and while the server is up `connectDestroyed()` comes after the fall only. Thus a channel
is removed with events left only by `~TcpServer`, from `kDisconnecting`, and a connection dies
registered only if its loop quit with `connectDestroyed()` still queued.

`FinComesBehindOutput` has no hypothesis, so that shutdowns and sends of callbacks and of other
threads cross as they like. It rests on `WatchInv` and `Balance`: until a FIN, a reset, the
fall or the end of the loop, the bytes that `send()` accepted are those on the wire, in
`outputBuffer_`, and two for each `send()` whose functor has not run (`SendsOnTheWay`), which
takes counting the functors in both queues (`SendsInQueue`) and the threads between their two
steps (`UsersSendingCount`). Both places that send the FIN find the buffer empty (`FinStep`),
so that nothing but those messages can be missing.

*EventLoopThreadPool and TcpServer.* `LoopsExistUntilQuitHolds` and `EachConnectionOnceHolds` are
read off `ServerInv` (`ServerInvHolds`). Of the pool it says what each thread does between the
owner's calls: a thread that `startLoop()` returned from has its loop until `quit()`, which
only `~EventLoopThread` calls (`ThreadInv`), and `loops_` lists those in order. Of the
server: a connection has its number as its name, so that `connections_` mixes up none
(`RegistryInv`); its calls are in the queue of its own loop or have run, once and in order
(`QueueInv`); one that is in `connections_` was not asked to be destroyed, by whom ever
(`MapInv`). That no loop is given two connections more than another needs more than it says:
the loops before `next_` were given k + 1 and the others k (`TurnsInv`).

*HttpServer.* `AnswersRightHolds` and `EveryAnswerEndsHolds` follow from `HttpInv`
(`HttpInvHolds`), which reads the buffer and what is still on the way as one text (`Left`), on
which reads have no effect. While the connection is up, that text is what comes from the next
request on (`AtRequest`), or what is behind the first j header lines of a request of which
the parser has read just as much (`InHeaders`), or behind all of them (`AtEnd`), or, once a
context was dropped or a body left over, text whose first line is refused (`AtJunk`). The
exception is `Astray`: an earlier body begins like a request and is answered as one, and then
only the 400s and `wire` are known. The lemmas are about text: the first line end of a prefix
is that of the whole (`CutLine`), a request line and a header line are parsed into what was sent
(`RequestLineParsed`, `HeaderAdded`), and neither header lines nor a body that does not look
like a request make a request line (`HeadersAreJunk`, `BodyIsJunk`). `HttpServerAssumption` says
what requests these are: a body may be anything, no other part has a space or a line end,
names of fields differ; method and version need not be known ones. The values of headers are single words, with a space
before and after each for `addHeader()` to trim.

Only model-checked: all liveness and what depends on fairness; the text that `Logger` makes of
a line (`TextInOrder`). Liveness under
fairness and `ENABLED` are beyond the prover. So are the library's induction theorems, which
take the formula as a parameter that no installed prover can instantiate; induction over a
set is proved from well-foundedness instead, in `SequenceLemmas` and `EventLoop_proofs`.

## What is not modelled

Left out for good: the date and the layout of log lines and responses, `TimeStamp` as text,
log levels and output functions; wrappers around system and library calls without state of
their own (`InetAddress`, most of `Socket`, `FileUtil` with its failures); `Thread` names and
ids; the example and the tests; `~Acceptor` and the constructor of its channel, which are
those of `EPollPoller`; the end of the process, when static objects such as the
ConnectionPool are destroyed under detached threads. `hazards` in `PROJECT.json` lists, line
by line, what can go wrong and which property would show it.

## Plan

Modelled, in this order: `EventLoop` with `TaskQueue`; `TcpConnection`; `AsyncLogging`;
`EventLoopThreadPool`; `Buffer` with `ByteQueue`; `TimerQueue`; `ThreadPool`;
`ConnectionPool`; `EPollPoller`; `TcpServer`; `LogFile` and `AsyncLogFile`; `HttpServer`;
`MysqlConn`; `LogStream` and `Logging`. Proved: `EventLoop`, `AsyncLogging`, `Buffer`,
`AsyncLogFile`, `Logging`, `ThreadPool`, `ConnectionPool`, `MysqlConn`, `TimerQueue`,
`EPollPoller`, `TcpConnection`, `EventLoopThreadPool`, `TcpServer`, `HttpServer`.

Left: `TextInOrder`, from lemmas about the digits that `formatInteger()` writes.
