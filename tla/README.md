# Stealify: specifications of the runtime

Stealify is a JavaScript runtime for Linux: V8, a thin layer of system call
bindings in C++ (`src/src/modules/`), and a standard library in JavaScript
(`src/src/lib/`) whose centre is an event loop written in JavaScript over
epoll (`src/src/lib/loop.js`). Beside the runtime the repository carries a
port of the @most stream library (`src/modules/streams/es/`) and parts of a
second runtime, zero, with an implementation of the WHATWG streams
(`src/packages/zero/lib/whatwg/streams/`).

Everything in the runtime that takes time goes through one loop object and one
resource, the descriptor. A descriptor is a small number that the kernel hands
out again as soon as it is closed, and the code uses it as the name of
everything: the loop's callbacks are keyed by it, a timer *is* one,
`clearTimeout` takes one, the servers' socket tables are keyed by one. What is
hard about this code is therefore not parallelism (an isolate has one thread)
but **order**: events that were reported before a handler ran and are
dispatched after it, callbacks that call back, names that mean something else
by the time they are used, and counters that must agree with a kernel that is
not asked.

## Inventory

| component | state | operations | interacts with |
|---|---|---|---|
| event loop, `lib/loop.js` | epoll list, `handles` by descriptor, `count`; `factory.paused`, `empty`, `total` | `add`, `remove`, `update`, `poll`; `factory.create`, `run`, `stop` | everything: calls back; the kernel's descriptor table and interest list; the microtask queue |
| timers, `stealify.js:193-214`, `sys.cc:615-646` | a timerfd per timer, closures | `setTimeout`, `setInterval`, `clearTimeout` | the loop, under a reusable name |
| DNS, `lib/dns/dns.js` | per lookup a UDP socket and a timer | `lookup` | loop, timers, caller's `onRecord` |
| TCP and unix sockets, `lib/tcp`, `lib/unix` | per socket `closing`, `connected`, `buffer`; the server's `sockets` | `createServer`/`listen`/`close`, `createClient`/`connect`/`write`/`close` | loop, user's `onConnect`, `onData`, `onClose` |
| child processes, `lib/process.js` | three pipes, `closed`, the watch interval | `launch`, `watch` | loop, timers, microtasks, `waitpid` |
| cache, `lib/cache/cache.js` | entries with times, `now`, `clock` | `get`, `getAsync`, `delete`, `start`, `stop` | timers, user's `refresh` |
| PostgreSQL, `lib/pg` | FIFO of callbacks, parser position | `compile`, `call`, `append`/`send`, `execQuery`, `authenticate`, `terminate` | DNS, TCP, the server's protocol |
| HTTP, `lib/http` | parser state across reads, free list | `parse`, `free` | TCP users, `fetch` |
| fetch, `lib/fetch` | per download TLS state, parser | `download`, `fetch` | DNS, loop, HTTP, OpenSSL |
| WebSocket, `lib/websocket.js` | frame parser state | `parse` | TCP users |
| stream scheduler, `streams/es/scheduler.mjs` | timeline of slots, the timer and its arrival | `scheduleTask`, `cancel`, `cancelAll`, timer callback | the platform's `setTimeout` and promises |
| WHATWG streams, `zero/lib/whatwg/streams` | stream, controller queue, in-flight requests, the promises of readers and writers | `getWriter`, `write`, `close`, `abort`, `getReader`, `read`, `cancel`, `enqueue`, `error` | user code's sink and source, which answer with promises |
| streams, `streams/es/core.mjs`, `hold.mjs`, `subject.mjs` | sinks of a multicast, held event, subject state | `run`, `event`, `end`, `error`, `dispose` | scheduler |
| inspector, `lib/inspector.js` | HTTP/WebSocket sessions, paused flag | | loop, V8 |
| module loader, `stealify.js:99-191` | module cache | `require`, `library` | files, vm |
| process start, `stealify.cc` | | creates the isolate, runs `stealify.js` | |
| bindings, `src/src/modules/*` | none | one system call each | kernel |

What makes each correct:

* **Loop**: `count` accounts for the registrations, since `run()` polls and
  ends by it; what the kernel can report has its own callback; an event reaches
  the callback of the file it was reported for; `run()` ends when it is stopped
  or has nothing to do, not before; microtasks are drained.
* **Timers**: a one-shot timer fires once, a cleared one never again, whatever
  happens to their descriptors.
* **DNS**: every lookup reports once, closes only its own descriptors and holds
  none afterwards.
* **Sockets**: `onConnect` once, then data, then `onClose` once; the table of
  sockets is the set of open ones; close releases everything.
* **Child processes**: exit reported once, pipes closed once, output complete.
* **Cache**: bounded staleness; a refresh never replaces a newer value.
* **PostgreSQL**: each reply goes to the callback of its request.
* **Scheduler**: no task before its time, none lost, none after it was
  cancelled, a timer is pending whenever a task is.
* **WHATWG streams**: chunks in order, one call of the sink or source at a
  time, backpressure told to whoever holds the writer, errors and ends told to
  everybody who waits.

`PROJECT.json` lists what is hard to test in each, line by line, as hazards.

## Modules

| module | what it is |
|---|---|
| `Loop` | the loop object and the descriptor table it sits on, as a record and pure operators; no variables. Used by every module that has handlers |
| `EventLoop` | one thread: `factory.run`, timers, microtasks and arbitrary user code |
| `TimerPromise` | what timers promise, without descriptors or events; refined by `EventLoop` |
| `Dns` | `lookup()` over `Loop`: answers, timers and nested lookups |
| `Tcp` | the clients and the server of `tcp.js` and `unix.js` over `Loop`: callbacks, closes from inside them, reused descriptors |
| `TaskPool` | what a scheduler promises: tasks with a due time and a state; refined by `Scheduler` |
| `Scheduler` | `scheduler.mjs`: timeline, timer, turns, and tasks that schedule and cancel |
| `WritableStream`, `ReadableStream` | `writable.js` and `readable.js` with their default controllers, between arbitrary users and arbitrary sinks and sources |
| `PgPipeline` | the PostgreSQL client's callbacks and row counters against the server's messages |
| `ChildProcess` | `launch()` and `watch()` over `Loop`: pipes, exits, waitpid, reused descriptors |
| `MCEventLoop`, `MCDns`, `MCTcp`, `MCScheduler`, `MCChildProcess` | constants for TLC (the other modules need only numbers) |
| `EventLoopProofs`, `DnsProofs`, `TcpProofs`, `SchedulerProofs`, `WritableStreamProofs`, `ReadableStreamProofs`, `PgPipelineProofs`, `ChildProcessProofs` | theorems about the module they are named for |

### Loop

A loop is a record `lp`. `lp.file` is the kernel's descriptor table: the *open
file* behind each descriptor, numbered in order of opening, 0 when closed. That
number is what the code does not have and the properties need: it tells two
users of one descriptor apart. `lp.interest` is the epoll list, `lp.handles`
and `lp.count` are the fields of the JavaScript object. `Open` (socket,
timerfd) takes the lowest free descriptor, as POSIX says; `Close` takes the
descriptor out of the epoll list without telling the loop, as close(2) does
(`lp.leaked` counts these, `lp.dropped` remembers the descriptors that left the
list since the last wait; both are history). `Add` and `Remove` are `add` and
`remove`: JavaScript state changes only if `epoll_ctl` says 0. `Batches` is
every answer `epoll_wait` may give: distinct members of the list in any order,
at most `MaxEvents`.

A callback is a pair: which function literal it is (`kind`) and the object its
closure captured (`owner`).

### EventLoop

`pc` is where the thread is: in user code (`script` before `run()`, `callback`
inside `poll()`, `task` inside `runMicroTasks()`), at the `while` (`turn`), in
the dispatch loop (`dispatch`), in the drain (`micro`), or at an end (`broke`,
`stopped`, `crashed` on an undefined callback, `threw`).

User code is arbitrary: in each of its three places it may make any call of
`socket`, `loop.add`, `loop.remove`, `close`, `setTimeout`, `setInterval`,
`clearTimeout`, `nextTick` and `factory.stop`, with any descriptor it was ever
given that kind of name for, also a timer's that has fired. `DropContexts` says
where it removes, closes and clears. The two library handlers of timers run in
full: after user code returns, the one-shot epilogue removes and closes the
descriptor *it was called with* (`AfterCallback`). `total` is taken before the
microtasks and `empty` is never reset, as in the code.

### Dns

The thread is reduced to batches (`EventLoop` has the rest); what is detailed is
the stack of `onRecord` calls: a handler calls `onRecord`, which may call
`lookup` again before it returns to what the handler still has to do
(`stack`, with the continuation of each frame). Descriptors are constants of
the closures, so a handler closes the *number* it remembers; `foreign` records
when that is a file of somebody else.

### Tcp

`tcp.js` and `unix.js` are one program for two address families. A socket
object is a record of `socks`: `fd`, `closing` and `connected` are the code's,
`out` is the mask it is registered with (`loop.update` takes `EPOLLOUT` away),
`buffer` is there exactly when `connected` is. `link` is the connection as the
network sees it, and `heard` folds the callbacks so far into what a user may
conclude from them. `table` is the server's `sockets`; `sockets[-1]`, which a
failed `accept` writes, is in it.

Callbacks are calls of arbitrary user code, so `stack` holds what each handler
has left to do when its callback returns: nothing, `buffer = ...; connected =
true` (after `onConnect`), `closeSocket()` (after `onConnect(err)`), or the
second half of `closeSocket` (after `onClose`). Inside any of them user code
may connect, listen, close the server or close any socket, the one that is
being announced included. An event carries a mask, because the handlers look at
the error bits first, then at IN, then at OUT. `strayed` is history: some
handler dropped a descriptor other than that of its own event, which is what it
takes to make another event of the batch stale. `server.lost` is history too: a
stale hang-up has closed the listener while the server object says it listens.
`Usurped` is what may follow: `server.close()` then closes by number what has got
the listener's descriptor, a client's file, and leaves the client's callback in
`loop.handles`.

### Scheduler and TaskPool

Times are ticks, `Grain` of them to a millisecond, so that `Math.floor` shows:
a slot holds the tasks of one millisecond in the order of their exact times,
and the slots are found by `BinarySearch`, written as a recursive function of
the code's `lo` and `hi`. `IndexOf` and `Without` are `findIndex` and
`removeAll` of `prelude.mjs`. `timer` is `_timer` and `_nextArrival` together with
the moment the platform will call back, which is cut to whole milliseconds.

`_runReadyTasks` is not one step: `RunReadyTasks` takes the due slots out of
the timeline, and then each task is started (`StartTask`) and finished
(`FinishTask`) on its own, because `run()` is user code which may schedule,
dispose of itself or of others, and sweep. `ready` is what was taken out and
has not run. `Fail` is a task whose `error()` throws: the rest of `ready` and
the call of `_scheduleNextRun` are lost (`lost`, `stalled`).

`TaskPool` says what a caller may rely on, without slots or timers: a task is
started when it is due, one at a time, once for each time it is due, and leaves
the pool because it is over, was cancelled, or was dropped with `cancelAll` or
by an exception. `Pooled` is the refinement mapping; a task is due at its
*floored* time, which is as much as the code promises (it may run within the
millisecond, before its exact time).

### WritableStream and ReadableStream

A step of these files is a synchronous call that changes the stream and, last
of all, may call the sink or the source. So a function of the code is an
operator from a stream to a *result*: the stream it leaves, the method it has
called, and whether its `assert`s held. The handlers of the promises are
actions of their own, in any order a sink can answer. `calls`, `answer`,
`chunks` are histories the properties read.

A request, the pair of functions that settle a promise, is modelled with the
names it is stored under (`RequestKeys`, `AbortRequestKeys`), because they are
not the names it is looked up by (see Findings). What follows a failed look-up
is a TypeError: the step ends there, as the code's does.

In the code a writable stream therefore gets no further than the first call of
its sink, and most of `writable.js` is never put to the test. So
`WritableStream` has a constant `Mended`: `FALSE` is the code, and the value in
every run; with `TRUE` the two names are the same, all else being the code, and
the order of the sink's calls, backpressure that falls again, and errors that
wait for a write or a close that will answer have something to say. The theorems
cover both values. `ReadableStream` is modelled with the names of the code only.

### PgPipeline

`callbacks` is the client's queue, `wire` and `inbox` are the two directions of
the connection, in whole messages. A read of the socket ends between messages,
inside one with room left in the buffer, inside one without, or exactly at the
end (`Ends`): that is what decides whether the parser keeps, moves or abandons
the rows it has counted (`Keeps`). `parser.start` is whose row, or `BindComplete`,
`query.start` is at, `parser.fields` whose row description the fields are from;
`parser.torn` is history: whether rows from `query.start` on are lost. A message
that is cut where `parse` makes no room for its rest ends the connection
(`NoRoom`). The server answers or refuses any message, an empty statement with
`EmptyQueryResponse` and one that reaches its `maxRows` with `PortalSuspended`;
after an error it discards what comes before the next Sync; it may go away.
COPY is left out.

Connection and users are one level up: `call`, `append`/`send`, `compile`
(prepare, then describe from its callback), `close`, `exec`, and the
multi-statement `exec`. A callback runs inside `parse()`; the promise of
`exec()` is awaited, so its rows, and the fields that `bind()` copies, are read
when `parse()` is through (`awaited`); `call` and `append` read inside the
callback (`AtOnce`). `Misread` compares what is read, the count, the place of
the first row and the fields, with the request it is read for.

### ChildProcess

Each process has three numbers its closures remember and the files those were
(history). `held` are the other ends of its pipes that somebody still has: the
child, or children of the child after its exit; each pipe is let go on its own
(`LetGo`), or all with the exit. Hang-ups, exits and polls come
in any order; `HangUp` is the three handlers, `Ask` the interval of `watch()`
with its `waitpid`, `Tick` the microtask that closes everything by number.
`robbed` records a process whose file was under a number another process
cleaned up after its own was gone; `stolen` is a child whose status went to the
`waitpid(-1)` of a process that was never forked.

## Runs

| run | instance | shows |
|---|---|---|
| `event_loop` | 2 descriptors, batches of 2, 6 user calls, fair thread; 229 221 states | the five safety properties of `EventLoop`, that it refines `TimerPromise`, and that `run()` ends when stopped or empty |
| `deferred_drops` | 3 descriptors, batches of 3, 6 calls, drops outside callbacks only; 847 736 states | user code that follows the advice of `examples/misc/loop-bug.js` meets no stale event |
| `break_with_handles` | as `event_loop` | **violated**: `run()` breaks with a handle registered (see Findings) |
| `dns_lookup` | 3 lookups, 6 descriptors, 1 useless answer each, batches of 3; 32 971 states | `OneAnswer`, `OwnFilesOnly`, `NothingHeld`, `CrashIsLateEvent`, `EveryLookupReports` |
| `tcp_sockets` | 2 clients, a server that accepts 1, 3 descriptors, batches of 2; 1 999 253 states | the callbacks of a socket always make sense, the server's table and the descriptors are exact, only `server.close()` leaks a count, and every crash is a stale event or early data |
| `tcp_liveness` | 1 client, a server that accepts 1, 3 descriptors; 26 325 states | `ConnectAnswered`, `EndedIsReleased` |
| `scheduler` | 3 tasks, 2 ticks to a millisecond, delays -1 and 2, periods none and 1, clock to 2; 411 578 states | `TimelineInOrder`, `TimerCovers`, that it refines `TaskPool`, `EveryTaskRuns` |
| `writable_stream` | 4 writes, 3 writers, high-water mark 2; 1 198 states | of the code: `SinkHearsOneCall`, `AssertsHold`, `ReadyTellsBackpressure`, `ErroringWaitsForSink` |
| `writable_requests` | as `writable_stream` | **violated**: an answered close stays in flight (see Findings) |
| `readable_stream` | 4 chunks, 5 reads, 3 readers, high-water mark 2; 27 798 states | `ChunksInOrder`, `WaitingReadsPull`, `PullsOneAtATime`, `EndIsTold` |
| `pg_pipeline` | 3 requests of six kinds, results of up to 1 row; 923 708 states | `InStep`, `RowsAreOwn`, `RequestsAreAnswered` |
| `child_process` | 2 processes, 8 descriptors, batches of 1; 281 724 states | `NothingLeftOver`, `Listening`, `ExitIsReported` |

Bounds. Two descriptors are what it takes to close one that has an event
pending from the callback of the other and to reopen it; with three, a batch
holds two events behind the one being dispatched. Six calls are enough for the
longest interesting sequences (open, add, and again; close, reopen, add inside
a callback); the descriptors run out before the calls do. The theorems remove
these bounds for the safety properties. Three lookups hold six descriptors when
all wait; two leave two for the third to reuse, and the third can be started
from within either. In `tcp_sockets` three descriptors hold the listener and two
connections, so that two events are in a batch while a third descriptor, or
one just closed, is opened by a callback of the first; and since there are four
users for them, all run out and `accept` and `connect` fail. The batch of
`tcp_liveness` may hold the same, with one client: a second one makes the
temporal check ten times longer and finds nothing else. In `scheduler` three
tasks are one that runs, one behind it in the batch and one in the timeline;
the delays fall into the millisecond that runs and into the next, the period
into either, and the clock stops once both have begun. Four chunks overfill a queue of two while
one is in flight and one waits; three readers or writers hold it, release it
and are replaced, and the fifth read finds no chunk. Three
requests are what it takes for one to be refused, one to be discarded with it
and one to come after the Sync; one row is enough to be torn, lost or counted
for the next result, and `prepare` is a request of two callbacks already. Two
processes clean up after each other in `child_process`. Its eight descriptors
are two short of what both need at once, so the second child is launched into
numbers that pipes of the first have left, which is what its clean-up by number
can meet; with ten the run finds nothing else and takes three times as long.
No handler touches the descriptor of another, so one event at a time is enough.
In all runs the deadlock check is off because the program
may stop: it ends, dies, or waits in `epoll_wait` for nothing.

Fairness. The thread is weakly fair: JavaScript runs on until it blocks in
`epoll_wait`, and user code returns from every call the runtime makes (a
callback that never returns hangs the program, and says nothing of the
runtime). Nothing is assumed of the kernel in `EventLoop`. In `Dns` a
registered timer is assumed to be reported: timerfds expire, epoll is
level-triggered and moves what it reports to the end of its ready list, so a
timer is in one of the batches sooner or later; it is strong fairness because a
lookup in progress disables the poll again and again. Nothing is assumed of the
network. In `Tcp` the kernel is assumed to give up, in the end, an attempt to
connect that nobody answers, and to report a socket whose readiness lasts (it
is writable and asked for that, refused, or ended), again because epoll is
level-triggered and takes turns; nobody is assumed to connect, to send or to
close. In `Scheduler` user code returns, time passes and the platform's timer
calls back when it is due. In `PgPipeline` the loop hands the client what
arrived, and a server that stays serves; nothing is assumed of users, and
`RequestsAreAnswered` is void once the server goes. In `ChildProcess` the
thread is weakly fair and a timer that stays registered is reported in its turn
(an interval expires again and again), strongly fair because polls are disabled
while a batch is dispatched; nothing is assumed of the children, which need
not exit. `WritableStream` and `ReadableStream` assume nothing: their properties
are of safety, since a sink or a source may never answer. `EmptyLoopEnds` and `StopEnds` rest on `MaxOps` in one point: user code
that queues a microtask from every microtask keeps the drain, and so the
program, busy for ever, in the model as in V8.

### What the socket runs say of the code

Three properties have a way out in their statement, and each is something the
code does. `CrashIsEarlyDataOrStale`: a client whose first event says both
"connected" and "readable" dies in `handleRead`, because IN is handled before
the OUT that sets `buffer` (`tcp.js:150`); and an event of a descriptor that
was closed earlier in the batch finds no callback. `LeakIsTheServers`:
`server.close()` never calls `loop.remove`, so `count` stays up by one and
`run()` waits for ever. `KeepsItsFile`: once user code closes another socket
than the one it was called for, a late hang-up can close the listener
(`tcp.js:26`), and a later `server.close()` then closes the number, whoever has
it. That is always a client, and it has two consequences: the client's
descriptor is not its own any more, and since the callback stays registered for
an event that is still pending, its user can be called again after its
`close()`. So `KeepsItsFile` and `ConversationMakesSense` speak of clients only
until then (`Usurped`), and of accepted connections always; `ConnectAnswered`
has the same way out. The proof found this: with two clients, which is what the
run can afford, the callback that is left behind is never called, so the run
alone said that conversations always make sense; with a third client to reuse
the number they need not. No comment, document or test says otherwise of any of them, so they are
stated as what holds and not as findings.

### What the later runs say of the code

Where a property of `PgPipeline` or `ChildProcess` has a way out, it is a
history variable that names what the code did, and each of the names has been
seen to lead to the failure it excuses.

`QueueSlips` put the client's queue out of step with the server:
* `unsynced`: a `prepare`, `describe`, `append` or `close` that the
  server refuses consumes one callback, while the server discards what is
  behind it until somebody syncs;
* `statements`: `execute()` (`pg.js:97`) takes no `queries`, so `exec` of a
  script has one callback for several completions;
* `unasked`: an error that answers nothing, such as the server's shutdown, is
  given to whoever is first, or calls `undefined`;
* `overtaken`: a request is sent between `append` and `send`, so the callbacks
  are in another order than the messages;
* `empty` and `suspended`: `EmptyQueryResponse` and `PortalSuspended` take no
  callback (`transport.js:371`), so the request is never answered, or by the
  completion of the next one.

`RowSlips` lose the rows of a result before it is read:
* `split`: a read ends exactly behind a row, `parse` starts the buffer all over
  (`protocol.js:271`), and the rows that follow overwrite it;
* `unmoved`: the buffer is full in the middle of a result that no bind has set
  running, or behind one that is not read yet, and only the rest is moved;
* `cutShort`: an error does not reset `nextRow`, so the next result counts the
  rows of the failed one;
* `late`: `exec()` and `bind()` read after their await, when the next bind, row
  or completion has moved `query.start` or the counters, or the next row
  description has replaced the fields.

`noRoom` is neither: the connection ends because `parse` looks for 1024 bytes
(`protocol.js:228`, `250`), not for the length of the message, and leaves no
room for the rest of a longer one or for a running result as long as the buffer.
`recv` of no bytes answers 0, which `tcp.js:119` takes for the end. What has
been heard and read until then is right, and what is waiting is never answered:
only `RequestsAreAnswered` has it as a way out.

In `ChildProcess`, a process is `robbed` when the clean-up of another closes,
by number, a descriptor that had been closed by its hang-up and opened since by
this one; and a child is `stolen` as said above. `NothingLeftOver` needs no way
out, since whatever is left of a reaped child is closed by its own numbers.

`EndIsTold` says in its statement whom the end is not told to: a read that met
a chunk, or an error, while it waited (see the second finding).
`WaitingReadsPull` promises one more `pull()` to the reads that come while one is
under way, and nothing to those that came before it: when it answers without a
chunk they wait with none under way, and a chunk that meets one of them ends in
the TypeError of the second finding before `CallPullIfNeeded` is reached.

### Findings

**The break.** `loop.js:77` says of the break "we should only break if loop is
empty after a number of cycles". The run `break_with_handles` shows what happens
instead: a program whose microtasks set three one-shot timers one after the
other, as `await sleep(..)` three times does, has an empty turn each time a
timer fires (the timer is closed before `total` is taken, the next one is set by
the microtasks after it). The third of them breaks, with a timer registered and
`count` 1: the program ends in the middle. `examples/misc/loop-bug.js` works
around it.

**The names of requests.** zero's streams store the functions of a request as
`_resolve` and `_reject` (`writable.js:220`, `readable.js:518`) and call them by
the private symbols `kResolve` and `kReject` (`symbols.js:16,19`), under which
there is nothing. So the handler of every write and every close of a writable
stream ends in a TypeError before it takes the request out of flight: the
promise the caller holds never settles and no further chunk reaches the sink. In
`readable.js` the look-up fails for a chunk that meets a waiting read, and for
an error that does; `ReadableStreamClose` uses the stored names and works. The
run `writable_requests` states the comments at `writable.js:137` and `145`: a
writer is acquired and asks for a close, `start()` answers, the sink is called
and answers, and the request is still in flight with no call under way (a write
goes the same way). `SinkHearsOneCall` is what it comes to: a sink is called
once in its life. With both names made the same the comments hold, and so does
the rest of the protocol (theorems `AnsweredLeavesFlight`, `SinkHearsInOrder`,
`ErrorsAreFinished`), but for one assert: a writer acquired while the sink's
`abort()` is under way has its closed promise rejected twice. (`Mended = TRUE`
in `WritableStream.cfg` shows it: TLC finds `AssertsHold` violated, and
`SinkProtocol`, `InFlightIsAtSink` and `ErrorHasHandler` true in 1 961 states.)

## What is proved

Every theorem holds for all values of the constants that the assumptions admit;
`PROJECT.json` lists them, each with the property that a run checks on a small
instance where there is one. The assumptions are named and stand in the module
that declares the constant: `FdsAssumption` (a finite set of naturals),
`MaxEventsAssumption` (an `epoll_wait` can report one event), and that bounds
(of calls, lookups, sockets, tasks, chunks, reads, requests, rows, of the
scheduler's clock) and high-water marks are naturals, `DropContexts` a set of
contexts, a millisecond a whole number of ticks (`GrainAssumption`), delays and
periods integers, negative ones included. None is about the behaviour of the
code.

Each proof has the same shape. An inductive invariant, a conjunction of named
parts, implies the properties; it holds initially; and each action preserves it,
one lemma per action or group of actions with one effect. The parts below are
what the properties need and do not say themselves.

### EventLoopProofs

* `TypeCorrect`: `TypeOK`, the invariant of the loop object (`LoopSound`), and
  that `empty` is 3 only where `run()` breaks (`EmptyBelowThree`).
* `CountIsRight`: `count = |interest| + leaked`.
* `HandlersMatch`: what is registered has the callback of its own file.
* `StaleEventsNeedDrops`: an event in the batch is current, and reaches its own
  callback, unless its descriptor was dropped since the wait.
* `DeferringDropsIsEnough`: with no drops in callbacks there are no stale
  events, in spite of the one-shot timers' epilogue.
* `TasksAreDrained`.
* `PromiseIsKept`: `EventLoop` implements `TimerPromise`.

The argument has two layers. The lower one knows no variables: `Sound(l, kinds)`
(typed, counted, matched) is preserved by each operator of `Loop`, one lemma
each. The proofs about the other modules over `Loop` begin with those of these
lemmas that they need, because they keep books of their own on the loop; each
module of proofs stands on its own. In the upper layer a call of
user code is a composition of these operators, and what the batch needs of it
is one relation, `Follows(l, m)`: registrations that were there are unchanged
or have been recorded in `dropped`. It is transitive, every operator is in it,
and so every user call is (`UserCallEffect`); `PendingInv` (pending events are
current or dropped) is inductive because of it. `DeferredInv` is stronger: when
only timers' epilogues drop, the dropped descriptor is that of the event being
finished, which is not in the rest of the batch because a batch names each
descriptor once (`BatchFacts`).

The refinement needs to know that a timer is the callback of one descriptor at
most, that no cleared timer is the callback of any, and that the timer that
runs is registered nowhere but under its own event's descriptor (`TimerInv`).
Timers are named by the file they were opened as, so that all of this rests on
`OwnersAreOld`: what is opened next is nobody's callback. With it, each step
maps to the step of `TimerPromise` that the mapping suggests, or to a stutter.

### DnsProofs

`TypeCorrect`, `ReportsOnce` (`OneAnswer`), `ClosesItsOwn` (`OwnFilesOnly`),
`HoldsNothing` (`NothingHeld`), `CrashesAreLateEvents` (`CrashIsLateEvent`).

A lookup closes numbers, so it closes its own files only if nobody else has
closed them before. The invariant says so of all lookups at once: the files of
different lookups differ (`Separate`); every open descriptor is registered, with
a callback of the lookup that knows it as its socket or its timer (`Tidy`,
`AllRegistered`); at most one `onRecord` call of a lookup is on the stack with
descriptors left to drop, and its lookup still has them (`FramesFit`); and, as
long as answers were usable, a lookup that has not reported back or is about to
drop has its files open under its numbers, and a pending event whose file is
gone is of a lookup that has reported (`Orderly`). `FramesFit` is what nesting
costs: without it a lookup started inside `onRecord` could be taken for the one
whose descriptors the outer call drops when it returns.

### TcpProofs

`TypeCorrect`, `SensibleTalk` (`ConversationMakesSense`), `ExactTable`
(`TableIsExact`), `OwnFile` (`KeepsItsFile`), `OneLeak` (`LeakIsTheServers`),
`CrashesAreExplained` (`CrashIsEarlyDataOrStale`) and the action property
`OwnEvents` (`OwnEventsOnly`).

* `Books`: open descriptors are registered (`LoopFits`), sockets and server have
  different files (`FilesDiffer`), each open descriptor has the callback of the
  listener or of the socket whose file it is, and a closed one has none but what
  `server.close()` left (`Handled`), and a socket that has not been given up
  still has its file (`Keeps`, `ServerKeeps`). The table and the leak are
  inductive together with these.
* `Talk`: what a socket has told its user agrees with `closing`, `connected` and
  what the handlers in progress have left to do (`Sensible`), a client waits for
  OUT until it has called `onConnect` (`Awaits`), and of the calls on the stack
  one at most will release a given socket (`OneRelease`), which is why closing
  from inside `onClose` does not close twice.
* `Turns`: a pending event is current or its descriptor was dropped by the
  handler of another one (`Fits`), its mask says of the connection what was true
  of it (`Told`), and a crash is explained by its event. `strayed` ties the
  turns to the talk: until a handler drops a foreign descriptor there is no
  stale event, so what a handler reads in the mask is about its own connection.

### SchedulerProofs

`BinarySearchFinds`, `TypeCorrect`, `SlotsInOrder` (`TimelineInOrder`),
`TimerIsAhead` (`TimerCovers`), `PoolIsKept` (`KeepsTaskPool`: `Scheduler`
implements `TaskPool`).

The code finds a slot by binary search when it inserts and when it removes, and
both are right only as long as every insertion and removal before them kept the
order; so the search and the order are proved together. The module goes from the
data up:

* `LeastNumber` and `AllNumbers` are induction, as statements about sets of
  numbers; `StepByStep` says that a function defined by recursion exists.
* `BinarySearchFinds`: in slots that are in order (`InOrder`) the search returns
  the index of the slot of that time, or where one belongs. The induction is on
  the length of the range that is left.
* `Tidy(slots, all)` says that slots are in order and each has tasks of its own
  millisecond, each once, in the order of their times in `all`. A task is
  therefore in the slot its time names and in no other (`HomeSlot`).
  `InsertByTimeFacts`, `TakeFacts`, `SweepFacts` and `CutFacts` say of
  `insertByTime`, `remove`, `removeAll` and the cut that `runTasks` makes that
  they keep `Tidy` and which tasks the timeline holds afterwards: exactly one
  more, at most one fewer, those not asked for, those not taken.
* `IInv`: `TypeOK`; `Tidy(timeline, tasks)`; a task that waits is active and is
  neither taken out nor running (`WaitingApart`); a task that was taken out is
  there once, is not running and is due (`ReadyApart`); outside a turn nothing is
  taken out (`TurnOK`); the timer goes off at once or no later than
  `_nextArrival` (`TimerOK`), and between turns that is no later than the first
  slot (`Rested`, `Covers`).

`WaitingApart` and `ReadyApart` are what `TimelineInOrder` does not say and
needs: a periodic task goes back into the timeline at a time that `Tidy` knows
nothing of, and this is sound because a running task is in no slot. They are
what the refinement needs too: `Pooled` looks for a task in three places, and a
step is a step of the pool because it moves one task from one place to the next.
That a task goes back with its time and not with the clock's makes its next due
time no earlier than the last (`FloorFacts`); that what waits is active makes
`Dispose` a cancellation exactly once.

`TimerIsAhead` is proved with `stalled` in it: when `error()` throws, the turn is
left without `_scheduleNextRun`, and nothing covers the first slot until
user code schedules a task or has one taken out of the timeline.

### WritableStreamProofs and ReadableStreamProofs

`TypeCorrect`, `ReadyIsBackpressure` (`ReadyTellsBackpressure`), `ErrorsWait`
(`ErroringWaitsForSink`) and `SinkHearsInOrder` (`SinkProtocol`) of a writable
stream for both values of `Mended`; of the code, `SinkIsCalledOnce`
(`SinkHearsOneCall`) and `NoAssertFails` (`AssertsHold`); with the names made
the same, `AnsweredLeavesFlight` (`InFlightIsAtSink`) and `ErrorsAreFinished`
(`ErrorHasHandler`). `SinkHearsInOrder` says something of the order of calls
only with `Mended`, since the code makes one call.

Of a readable stream: `TypeCorrect`, `ChunksAreInOrder` (`ChunksInOrder`),
`NewReadsArePulledFor` (`WaitingReadsPull`), `OnePullAtATime`
(`PullsOneAtATime`), `EndIsToldToAll` (`EndIsTold`).

A function of the code is an operator from streams to results, so the invariant
is a predicate of a stream and of what its sink has heard (`Good`, `Data`,
`Shape`), and the lemmas say what each function does to it wherever it is
called from. Of a writable stream: the controller's queue is the write in
flight, the write requests, and the close, in that order (`Paired`); one
operation is under way at a time and what has not answered is what is under way
(`OneOperation`, `AtSink`); the requests that may still be served come after
every chunk the sink has had (`Fresh`). `Paired` is what makes the `shift` of
two queues by two different handlers sound. Backpressure is proved for
`DesiredSize` as the code computes it, where a `close` in the queue has size 0.
Of a readable stream: requests and chunks do not wait for each other, reads
that have a chunk come before those that wait, and every chunk is in the queue,
with a read, or lost to a read that waits for ever; the number of such reads is
the number of lost chunks. `Demand` says that a read that came since the last
pull has set `pullAgain`.

The proofs split cases on `CanSettle` and know of the names only that whoever
can settle a write or a close can settle an abort (`SettlesAborts`). Where a
request cannot be settled, the call after which it stays in flight is the last
one (`OneCall`); where it can, what is in flight has not answered (`AtSink`).

### PgPipelineProofs

`TypeCorrect`, `RowsAreRead` (`RowsAreOwn`), `StaysInStep` (`InStep`).

The client has nothing but the order of its queue to tell which callback a
message is for. The invariant therefore reads the unread messages, the requests
on the wire and those that `append` holds back as one sequence (`Flow`). A
message in it is *due* if it takes a callback out of the queue, or if its
answer will; a row description is due only if it answers a `describe`, which
shows in what follows it (`Announces`). `Aligned` says that the due messages
and the queue correspond one to one and in order, each of the kind its callback
waits for (`Matched`). The one message that is due and never answered is the
request the server discards after an error (`Hole`): its error, already on its
way, is due in its place. What this needs besides: a request has one callback
in the queue at a time (`OneEach`), requests on their way are those that were
asked (`Known`), a `bind` is followed by its `execute` and a `sync` preceded by
one (`Shaped`), a description in front of rows belongs to an `exec`
(`Described`), and the server discards nothing but the rest of a call
(`Discards`), or nothing at all because it has gone (`Shut`). Replying to a
request replaces a message by others in the middle of that sequence; `SpliceDue`
and `RepliedTo` say what of it stays due, and `Remapped` that the queue still
matches.

A connection that ended for want of room is `Lost`: nothing comes in any more.

`RowsAreRead` needs the queue in step. Rows come in runs that their completion
counts, those counted already included, with the first of them where
`query.start` is (`Follows`, `Run`, `Counts`). The rows of a raw query come
behind their row description, or the parser has its fields (`Headed`); that
takes that a raw query has sent nothing but itself (`Raw`), so that the answer
to it is the one with a description. With these the parser holds what is waited
for (`Held`).

Both say what their properties say, up to the slips: as long as none of the
named ways out was taken.

### ChildProcessProofs

`TypeCorrect`, `LeavesNothing` (`NothingLeftOver`), `StaysListening`
(`Listening`).

A process has four *parts* with a descriptor, its three pipes and the interval
of `watch()`, and each part has a number the closures remember and the file it
was opened as. No two parts of any processes have the same file (`Separate`),
and every open descriptor is registered with the callback of the part whose
file it is (`TidyBut`, `Registered`). So the two who close by number, the
handler of a hang-up and the microtask of `watch()`, can be told apart by what
is open under the number: what the microtask of a reaped process has swept up
stays closed for that process, because it is launched and watched once each
(`InOrder`, `Swept`); and of a child that runs, a pipe it still has is not
among those that had hung up when the batch was reported (`Current`), and is
closed by another's microtask only as `robbed` records (`Heard`). `launch()`
opens six files and registers three of them afterwards; between the two the
books are right but for the descriptors that are being set up (`TidyBut`).
That `createPipe` gets three different numbers at all is `NthNumber`, by way of
the least number that is missing.

### Only model-checked

* Liveness: `EmptyLoopEnds`, `StopEnds`, `EveryLookupReports`,
  `ConnectAnswered`, `EndedIsReleased`, `EveryTaskRuns`, `RequestsAreAnswered`,
  `ExitIsReported`. Fairness and ENABLED are out of the prover's reach.
* The two violated properties, which are findings.

## Not modelled

* `loop.update` but for what `Tcp` makes of it, several loops in one factory,
  signal masks.
* Of the sockets: `write` and `writeString`, whose answer goes to the caller and
  changes nothing here; failures of `bind`, `listen` and `setsockopt`; an
  `onConnect` that throws or returns no buffer; a client closed before it
  connects (the bindings take its `undefined` for descriptor 0), a client
  connected twice and a server closed twice.
* Failures of `timerfd_create` and `timerfd_settime`; `setTimeout(f, 0)`, which
  disarms the timer (listed as a hazard).
* Of the scheduler: `RelativeScheduler`, which keeps nothing and adds an offset to
  the times tasks are told; `newAsap`, which nothing calls; clocks that go back.
* Of zero's streams: byte streams and BYOB readers, `pipeTo`, `tee`, transform
  streams, chunk sizes other than 1, calls refused because of the receiver's
  type or state.
* Of the PostgreSQL client: `terminate()`, short writes, a `fun.buffer` that
  overflows (4096 bytes), other authentication than MD5, the contents of
  messages.
* Of child processes: the data in the pipes (a hang-up drops what has not been
  read, `process.js:47`), `onClose`, `pause()`, `watch()` called twice.
* Threads, each of which has an isolate and a loop of its own.
* Contents of messages, formatting, parsing of bytes, build tools, bindings
  that are one system call each, vendored and generated code, examples.
* The components that `PROJECT.json` marks `not_modelled`; those the plan
  takes up are below.

## Plan

1. `Loop`, `EventLoop`, `TimerPromise` and their proofs (done).
2. `Dns` and the proofs of its safety (done).
3. `Tcp` and the proofs of its safety (done).
4. `Scheduler` over `TaskPool` and the proof that it implements it (done).
5. `WritableStream` and `ReadableStream` and their proofs (done); pipes between
   them.
6. `PgPipeline` and its proofs (done).
7. `ChildProcess` and the proofs of its safety (done).
8. `Cache`: overlapping refreshes, the clock that cannot be restarted.
9. Parsers over all splits of bounded inputs; the module loaders; multicast and
   hold; fetch over `Dns` and `Tcp`.
