------------------------------ MODULE EventLoop ------------------------------
(***************************************************************************)
(* One thread of the runtime: factory.run of lib/loop.js turning the one   *)
(* loop main() creates, the timers of stealify.js that live on it, and the *)
(* user's code, which runs on the same stack in three places: the main     *)
(* script before run() (startup), the callbacks poll() calls, and the      *)
(* microtasks runMicroTasks() drains.                                      *)
(*                                                                         *)
(* User code is arbitrary: in each of the three places it makes any of the *)
(* calls below, in any order, at most MaxOps of them in a behaviour.       *)
(***************************************************************************)
EXTENDS Loop

CONSTANTS MaxOps,        \* bound: calls user code makes in a behaviour
          DropContexts   \* where user code removes, closes and clears

UserContexts == {"script", "callback", "task"}

ASSUME MaxOpsAssumption == MaxOps \in Nat
ASSUME DropContextsAssumption == DropContexts \subseteq UserContexts

VARIABLES
    lp,        \* the loop and the descriptors (module Loop)
    pc,        \* where the thread is
    batch,     \* events of the current epoll_wait not dispatched yet
    cur,       \* the event being dispatched and the callback it got
    total,     \* run: handles counted in this turn
    empty,     \* run: empty turns so far
    paused,    \* factory.paused
    tasks,     \* microtasks queued in the isolate
    ops,       \* calls user code made (bounded by MaxOps)
    timers,    \* descriptors setTimeout and setInterval have returned
    sockets,   \* descriptors user code opened and has not closed
    cancelled, \* history: timers cleared while they were registered
    waited     \* history: a turn has been completed

vars == <<lp, pc, batch, cur, total, empty, paused, tasks, ops, timers,
          sockets, cancelled, waited>>

InUserCode == pc \in UserContexts
Ended == pc \in {"broke", "stopped", "crashed", "threw"}

Kinds == {"io", "timeout", "interval"}
Callbacks == CallbacksOf(Kinds)
IsTimer(callback) == callback.kind \in {"timeout", "interval"}
NoCall == [fd |-> -1, file |-> 0, callback |-> NoCallback]

TypeOK ==
    /\ lp \in LoopsOf(Kinds)
    /\ pc \in UserContexts \cup {"turn", "dispatch", "micro"}
                           \cup {"broke", "stopped", "crashed", "threw"}
    /\ batch \in Seq(Events)
    /\ cur \in [fd : Fds, file : Nat, callback : Callbacks] \cup {NoCall}
    /\ total \in Int
    /\ empty \in 0..3
    /\ paused \in BOOLEAN
    /\ tasks \in Nat
    /\ ops \in Nat
    /\ timers \subseteq Fds
    /\ sockets \subseteq Fds
    /\ cancelled \subseteq Nat
    /\ waited \in BOOLEAN

Init ==
    /\ lp = NewLoop
    /\ pc = "script"
    /\ batch = <<>>
    /\ cur = NoCall
    /\ total = 0
    /\ empty = 0
    /\ paused = TRUE
    /\ tasks = 0
    /\ ops = 0
    /\ timers = {}
    /\ sockets = {}
    /\ cancelled = {}
    /\ waited = FALSE
-----------------------------------------------------------------------------
(* Calls of user code.                                                     *)

Call == InUserCode /\ ops < MaxOps /\ ops' = ops + 1
Drop == pc \in DropContexts /\ Call

\* What no call of user code touches.
Control == <<pc, batch, cur, total, empty, waited>>

\* net.socket()
OpenSocket ==
    /\ Call
    /\ \E fd \in Fds :
         /\ IsLowestFree(lp, fd)
         /\ lp' = Open(lp, fd)
         /\ sockets' = sockets \cup {fd}
    /\ UNCHANGED <<Control, paused, tasks, timers, cancelled>>

\* loop.add(fd, callback): the callback belongs to the file fd names now.
AddHandle(fd) ==
    /\ Call
    /\ fd \in sockets
    /\ lp' = Add(lp, fd, [kind |-> "io", owner |-> lp.file[fd]])
    /\ UNCHANGED <<Control, paused, tasks, timers, sockets, cancelled>>

\* loop.remove(fd)
RemoveHandle(fd) ==
    /\ Drop
    /\ fd \in sockets
    /\ lp' = Remove(lp, fd)
    /\ UNCHANGED <<Control, paused, tasks, timers, sockets, cancelled>>

\* net.close(fd), with or without a loop.remove(fd) before it.
CloseSocket(fd) ==
    /\ Drop
    /\ fd \in sockets
    /\ lp' = Close(lp, fd)
    /\ sockets' = sockets \ {fd}
    /\ UNCHANGED <<Control, paused, tasks, timers, cancelled>>

\* setTimeout and setInterval: a timerfd, added to the loop.
SetTimer(kind) ==
    /\ Call
    /\ \E fd \in Fds :
         /\ IsLowestFree(lp, fd)
         /\ lp' = Add(Open(lp, fd), fd,
                      [kind |-> kind, owner |-> lp.opened + 1])
         /\ timers' = timers \cup {fd}
    /\ UNCHANGED <<Control, paused, tasks, sockets, cancelled>>

\* clearTimeout(fd), of any descriptor setTimeout ever returned: user code
\* cannot see that its timer has fired, nor that the number was reused.
ClearTimer(fd) ==
    /\ Drop
    /\ fd \in timers
    /\ lp' = Close(Remove(lp, fd), fd)
    /\ cancelled' = IF CanDel(lp, fd) /\ IsTimer(lp.handles[fd])
                    THEN cancelled \cup {lp.handles[fd].owner}
                    ELSE cancelled
    /\ UNCHANGED <<Control, paused, tasks, timers, sockets>>

\* sys.nextTick(f), or a promise that settles.
QueueMicrotask ==
    /\ Call
    /\ tasks' = tasks + 1
    /\ UNCHANGED <<Control, lp, paused, timers, sockets, cancelled>>

\* factory.stop()
Stop ==
    /\ Call
    /\ paused' = TRUE
    /\ UNCHANGED <<Control, lp, tasks, timers, sockets, cancelled>>

UserCall ==
    \/ OpenSocket
    \/ \E fd \in Fds : AddHandle(fd)
    \/ \E fd \in Fds : RemoveHandle(fd)
    \/ \E fd \in Fds : CloseSocket(fd)
    \/ \E kind \in {"timeout", "interval"} : SetTimer(kind)
    \/ \E fd \in Fds : ClearTimer(fd)
    \/ QueueMicrotask
    \/ Stop
-----------------------------------------------------------------------------
(* The thread.                                                             *)

UserState == <<tasks, ops, timers, sockets, cancelled>>

\* startup() returns and main() calls factory.run().
StartRun ==
    /\ pc = "script"
    /\ pc' = "turn"
    /\ paused' = FALSE
    /\ empty' = 0
    /\ UNCHANGED <<lp, batch, cur, total, waited, UserState>>

\* An exception no callback catches unwinds poll() and run().  One that a
\* microtask throws is reported by V8 and the drain goes on: see FinishTask.
Throw ==
    /\ pc \in {"script", "callback"}
    /\ pc' = "threw"
    /\ UNCHANGED <<lp, batch, cur, total, empty, paused, waited, UserState>>

\* Mutant of LeaveRun: run() is left only when the loop has no handle.
LeaveRunWhenEmpty ==
    /\ pc = "turn"
    /\ paused
    /\ lp.count = 0
    /\ pc' = "stopped"
    /\ UNCHANGED <<lp, batch, cur, total, empty, paused, waited, UserState>>

\* while (!factory.paused)
LeaveRun ==
    /\ pc = "turn"
    /\ paused
    /\ pc' = "stopped"
    /\ UNCHANGED <<lp, batch, cur, total, empty, paused, waited, UserState>>

\* A turn whose loop has a handle: loop.poll(ms) returns with a batch.  While
\* nothing is ready the thread stays here.
Poll ==
    /\ pc = "turn"
    /\ ~paused
    /\ lp.count > 0
    /\ batch' \in Batches(lp)
    /\ lp' = Waited(lp)
    /\ pc' = "dispatch"
    /\ UNCHANGED <<cur, total, empty, paused, waited, UserState>>

\* A turn with nothing to poll.
SkipPoll ==
    /\ pc = "turn"
    /\ ~paused
    /\ lp.count <= 0
    /\ total' = lp.count
    /\ pc' = "micro"
    /\ UNCHANGED <<lp, batch, cur, empty, paused, waited, UserState>>

\* handles[fd](fd, mask), when handles[fd] is a function.
Dispatch ==
    /\ pc = "dispatch"
    /\ batch # <<>>
    /\ lp.handles[Head(batch).fd] # NoCallback
    /\ cur' = [fd       |-> Head(batch).fd,
               file     |-> Head(batch).file,
               callback |-> lp.handles[Head(batch).fd]]
    /\ batch' = Tail(batch)
    /\ pc' = "callback"
    /\ UNCHANGED <<lp, total, empty, paused, waited, UserState>>

\* ... and when it is undefined: a TypeError nothing catches.
DispatchToNothing ==
    /\ pc = "dispatch"
    /\ batch # <<>>
    /\ lp.handles[Head(batch).fd] = NoCallback
    /\ cur' = [fd       |-> Head(batch).fd,
               file     |-> Head(batch).file,
               callback |-> NoCallback]
    /\ batch' = Tail(batch)
    /\ pc' = "crashed"
    /\ UNCHANGED <<lp, total, empty, paused, waited, UserState>>

\* What the handler setTimeout registered does after callback(): a one-shot
\* timer takes its descriptor out of the loop and closes it.
AfterCallback(l, callback, fd) ==
    IF callback.kind = "timeout" THEN Close(Remove(l, fd), fd) ELSE l

FinishCallback ==
    /\ pc = "callback"
    /\ lp' = AfterCallback(lp, cur.callback, cur.fd)
    /\ cur' = NoCall
    /\ pc' = "dispatch"
    /\ UNCHANGED <<batch, total, empty, paused, waited, UserState>>

\* poll() is done: total += loop.count, then the microtasks.
FinishPoll ==
    /\ pc = "dispatch"
    /\ batch = <<>>
    /\ total' = lp.count
    /\ pc' = "micro"
    /\ UNCHANGED <<lp, batch, cur, empty, paused, waited, UserState>>

\* runMicroTasks(): until the queue is empty, tasks that tasks queue included.
StartTask ==
    /\ pc = "micro"
    /\ tasks > 0
    /\ tasks' = tasks - 1
    /\ pc' = "task"
    /\ UNCHANGED <<lp, batch, cur, total, empty, paused, waited, ops, timers,
                   sockets, cancelled>>

FinishTask ==
    /\ pc = "task"
    /\ pc' = "micro"
    /\ UNCHANGED <<lp, batch, cur, total, empty, paused, waited, UserState>>

\* Mutant of Drained: runMicroTasks() may leave tasks in the queue.
PartlyDrained == pc = "micro"

\* The queue is drained.
Drained == pc = "micro" /\ tasks = 0

\* Mutant of EmptyTurns: an empty turn counts twice.
EmptyTurnsTwice(n) == n + 2

\* Mutant of EmptyTurns: empty starts from 0 in every turn.
EmptyTurnsForgotten(n) == 1

\* if (total === 0) ... empty++
EmptyTurns(n) == n + 1

NextTurn ==
    /\ Drained
    /\ \/ total # 0 /\ empty' = empty
       \/ total = 0 /\ empty' = EmptyTurns(empty) /\ empty' # 3
    /\ pc' = "turn"
    /\ waited' = TRUE
    /\ UNCHANGED <<lp, batch, cur, total, paused, UserState>>

\* if (empty === 3) { factory.paused = true; break }
Break ==
    /\ Drained
    /\ total = 0
    /\ empty' = EmptyTurns(empty)
    /\ empty' = 3
    /\ paused' = TRUE
    /\ pc' = "broke"
    /\ UNCHANGED <<lp, batch, cur, total, waited, UserState>>

\* The steps the thread takes by itself, without waiting for the kernel.
Thread ==
    \/ StartRun
    \/ LeaveRun
    \/ SkipPoll
    \/ Dispatch
    \/ DispatchToNothing
    \/ FinishCallback
    \/ FinishPoll
    \/ StartTask
    \/ FinishTask
    \/ NextTurn
    \/ Break

Next == UserCall \/ Throw \/ Thread \/ Poll

Spec == Init /\ [][Next]_vars

\* The thread never rests between two steps of its own, and user code returns
\* from every call the runtime makes into it.  Nothing is assumed of the
\* kernel: epoll_wait may block for ever.
FairSpec == Spec /\ WF_vars(Thread)
-----------------------------------------------------------------------------
(* Safety.                                                                 *)

\* loop.count, by which run() decides whether to poll and when to end, is the
\* number of registered descriptors plus one for every descriptor that was
\* closed without loop.remove: close(2) takes it out of the epoll list behind
\* the loop's back, and no later remove can succeed for it.
CountAccounts == lp.count = Cardinality(lp.interest) + lp.leaked

\* Whatever was added, removed, closed and reopened in between, a descriptor
\* the kernel can report has a callback, and that callback was registered for
\* the file the descriptor names now.
HandlerMatchesFile ==
    \A fd \in lp.interest :
        /\ lp.handles[fd].kind \in Kinds
        /\ lp.handles[fd].owner = lp.file[fd]
        /\ lp.file[fd] # 0

\* poll() does not look at what happened since epoll_wait returned.  An event
\* still in the batch is for the file it was reported for, and its callback is
\* the one registered for that file, unless the descriptor left the interest
\* list while the batch was being dispatched.
PendingAreCurrent ==
    pc \in {"dispatch", "callback"} =>
        \A i \in 1..Len(batch) :
            \/ batch[i].fd \in lp.dropped
            \/ /\ batch[i].fd \in lp.interest
               /\ lp.file[batch[i].fd] = batch[i].file

\* So a callback that gets the event of another file, and the TypeError of an
\* event nobody handles, both need a descriptor that an earlier callback of
\* the same batch dropped.
StaleOnlyAfterDrop ==
    /\ pc = "callback" /\ cur.file # cur.callback.owner => cur.fd \in lp.dropped
    /\ pc = "crashed" => cur.fd \in lp.dropped

\* The advice of examples/misc/loop-bug.js, to leave removing and closing to a
\* microtask, is enough: when user code drops descriptors outside poll()
\* callbacks only, every event reaches the callback registered for its file
\* and no batch ends in a TypeError, although one-shot timers close their
\* descriptors, and callbacks reopen them, in the middle of a batch.
DeferredDropsAreSafe ==
    "callback" \notin DropContexts =>
        /\ pc # "crashed"
        /\ pc = "callback" => cur.file = cur.callback.owner

\* No microtask is left behind when run() ends, and none waits for the kernel
\* but those the main script queued: run() polls before it drains the queue
\* for the first time.
TasksDrained ==
    (pc = "turn" /\ waited) \/ pc \in {"broke", "stopped"} => tasks = 0
-----------------------------------------------------------------------------
(* The promise a timer makes (module TimerPromise): cleared timers are     *)
(* silent, one-shot timers fire once.                                      *)

\* The callbacks poll() can still reach: those of the descriptors epoll will
\* report, and of the events it has reported.
Callable ==
    {lp.handles[fd] : fd \in lp.interest \cup {batch[i].fd : i \in 1..Len(batch)}}

Promise == INSTANCE TimerPromise WITH
    armed     <- {callback \in Callable : IsTimer(callback)},
    last      <- lp.opened,
    running   <- IF IsTimer(cur.callback) THEN cur.callback ELSE NoCallback,
    cleared   <- cancelled

\* Timers set, cleared and fired through descriptors that are reused keep the
\* promise of TimerPromise, also when user code clears a timer that has fired
\* or closes a descriptor that is no longer its own.
KeepsTimerPromise == Promise!Spec
-----------------------------------------------------------------------------
(* Liveness.                                                               *)

\* run() gets out of a loop without handles: by the third empty turn it ends,
\* unless a microtask gives it a handle again.
EmptyLoopEnds == (pc = "turn" /\ lp.count = 0) ~> (Ended \/ lp.count > 0)

\* factory.stop(), called while run() runs, ends it without another wait,
\* however many handles, events and microtasks there are.
StopEnds == (paused /\ pc # "script") ~> Ended

\* loop.js:77 says of the break: "we should only break if loop is empty after
\* a number of cycles".
BreaksOnlyWhenLoopEmpty == pc = "broke" => lp.count = 0
=============================================================================
