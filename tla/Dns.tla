--------------------------------- MODULE Dns ---------------------------------
(***************************************************************************)
(* lookup() of lib/dns/dns.js: lookups that share one loop, each with a    *)
(* UDP socket, a one second timer and the caller's onRecord.  The answer   *)
(* and the timer race, answers repeat, descriptors are reused, and         *)
(* onRecord may start another lookup from inside any of the handlers.      *)
(*                                                                         *)
(* The thread is reduced to what the handlers see of it: it polls when no  *)
(* user code runs, and dispatches a batch event by event (EventLoop has    *)
(* the rest).  The network decides what recvmsg returns.                   *)
(***************************************************************************)
EXTENDS Loop

CONSTANTS MaxLookups,  \* bound: calls of lookup()
          MaxUseless   \* bound: useless answers read per lookup

ASSUME MaxLookupsAssumption == MaxLookups \in Nat
ASSUME MaxUselessAssumption == MaxUseless \in Nat

VARIABLES
    lp,       \* the loop and the descriptors (module Loop)
    pc,       \* "idle" between turns, "dispatch" inside poll(), "crashed"
    batch,    \* events not dispatched yet
    cur,      \* the last event dispatched
    stack,    \* onRecord calls in progress, innermost first
    lookups,  \* per lookup: its descriptors, and what became of it
    foreign   \* history: lookups that closed a file that was not theirs

vars == <<lp, pc, batch, cur, stack, lookups, foreign>>

Ids == 1..MaxLookups
Kinds == {"answer", "timer"}

\* What is left to do when an onRecord call returns.
Continuations == {"nothing", "dropSocket", "dropSocketAndTimer"}
Frames == [after : Continuations, lookup : Ids, fd : Fds \cup {-1}]

\* "sock" and "timer" are the fd and timer constants of the closure, "files"
\* the files they were when lookup() opened them (history).  "calls" counts
\* the calls of onRecord and "useless" those the answer handler made without
\* giving the socket up.
Lookups == [started : BOOLEAN, sock : Fds \cup {-1}, timer : Fds \cup {-1},
            files : SUBSET (Nat \ {0}), calls : Nat, useless : 0..MaxUseless]
Unused == [started |-> FALSE, sock |-> -1, timer |-> -1,
           files |-> {}, calls |-> 0, useless |-> 0]
NoEvent == [fd |-> -1, file |-> 0]

TypeOK ==
    /\ lp \in LoopsOf(Kinds)
    /\ pc \in {"idle", "dispatch", "crashed"}
    /\ batch \in Seq(Events)
    /\ cur \in Events \cup {NoEvent}
    /\ stack \in Seq(Frames)
    /\ lookups \in [Ids -> Lookups]
    /\ foreign \subseteq Ids

Init ==
    /\ lp = NewLoop
    /\ pc = "idle"
    /\ batch = <<>>
    /\ cur = NoEvent
    /\ stack = <<>>
    /\ lookups = [id \in Ids |-> Unused]
    /\ foreign = {}

\* loop.remove(fd); net.close(fd), also what clearTimeout(fd) does.
Discard(l, fd) == Close(Remove(l, fd), fd)

\* {id} if one of these closes, <<loop, descriptor>>, is of an open file that
\* lookup id did not open.
Strangers(id, closes) ==
    {k \in {id} : \E c \in closes : /\ c[1].file[c[2]] # 0
                                    /\ c[1].file[c[2]] \notin lookups[id].files}

\* onRecord is called, with this much of the handler left to do.
Calling(after, id, fd) ==
    stack' = <<[after |-> after, lookup |-> id, fd |-> fd]>> \o stack

UserRuns == stack # <<>> \/ pc = "idle"
-----------------------------------------------------------------------------
(* lookup(), called by the main script, a microtask or an onRecord.        *)

\* Lookups are started in the order of their numbers.
InOrder(id) == ~lookups[id].started /\ \A k \in 1..(id - 1) : lookups[k].started

\* The name is in /etc/hosts: onRecord(null, ip) at once.
LookupInHosts(id) ==
    /\ UserRuns
    /\ InOrder(id)
    /\ lookups' = [lookups EXCEPT ![id].started = TRUE, ![id].calls = 1]
    /\ Calling("nothing", id, -1)
    /\ UNCHANGED <<lp, pc, batch, cur, foreign>>

\* The socket lookup() opens and adds to the loop.
WithSocket(fd, id) ==
    Add(Open(lp, fd), fd, [kind |-> "answer", owner |-> id])

\* sendmsg fails: onRecord(err), and the socket is given up afterwards.
LookupUnsent(id) ==
    /\ UserRuns
    /\ InOrder(id)
    /\ \E fd \in Fds :
         /\ IsLowestFree(lp, fd)
         /\ lp' = WithSocket(fd, id)
         /\ lookups' = [lookups EXCEPT ![id].started = TRUE, ![id].sock = fd,
                                       ![id].files = {lp.opened + 1},
                                       ![id].calls = 1]
         /\ Calling("dropSocket", id, -1)
    /\ UNCHANGED <<pc, batch, cur, foreign>>

\* The request is sent and the timer set.
LookupSent(id) ==
    /\ UserRuns
    /\ InOrder(id)
    /\ \E fd, timer \in Fds :
         /\ IsLowestFree(lp, fd)
         /\ IsLowestFree(WithSocket(fd, id), timer)
         /\ lp' = Add(Open(WithSocket(fd, id), timer), timer,
                      [kind |-> "timer", owner |-> id])
         /\ lookups' = [lookups EXCEPT ![id].started = TRUE, ![id].sock = fd,
                                       ![id].timer = timer,
                                       ![id].files = {lp.opened + 1,
                                                      lp.opened + 2}]
    /\ UNCHANGED <<pc, batch, cur, stack, foreign>>

Lookup(id) == LookupInHosts(id) \/ LookupUnsent(id) \/ LookupSent(id)

\* onRecord returns to the handler that called it, which ...
Return(after) ==
    /\ stack # <<>>
    /\ Head(stack).after = after
    /\ stack' = Tail(stack)
    /\ UNCHANGED <<pc, batch, cur, lookups>>

\* ... returns too,
ReturnToNothing ==
    /\ Return("nothing")
    /\ UNCHANGED <<lp, foreign>>

\* ... gives up the socket (sendmsg had failed),
ReturnToDropSocket ==
    /\ Return("dropSocket")
    /\ LET id == Head(stack).lookup
       IN /\ lp' = Discard(lp, lookups[id].sock)
          /\ foreign' = foreign \cup Strangers(id, {<<lp, lookups[id].sock>>})

\* ... or gives up the socket and, in the handler setTimeout registered, the
\* timer.
ReturnToDropSocketAndTimer ==
    /\ Return("dropSocketAndTimer")
    /\ LET id == Head(stack).lookup
           l  == Discard(lp, lookups[id].sock)
       IN /\ lp' = Discard(l, Head(stack).fd)
          /\ foreign' = foreign \cup
               Strangers(id, {<<lp, lookups[id].sock>>, <<l, Head(stack).fd>>})
-----------------------------------------------------------------------------
(* poll().                                                                 *)

PollBatch(b) ==
    /\ pc = "idle"
    /\ stack = <<>>
    /\ lp.count > 0
    /\ b # <<>>
    /\ batch' = b
    /\ lp' = Waited(lp)
    /\ pc' = "dispatch"
    /\ UNCHANGED <<cur, stack, lookups, foreign>>

Poll == \E b \in Batches(lp) : PollBatch(b)

FinishPoll ==
    /\ pc = "dispatch"
    /\ stack = <<>>
    /\ batch = <<>>
    /\ pc' = "idle"
    /\ UNCHANGED <<lp, batch, cur, stack, lookups, foreign>>

Dispatching == pc = "dispatch" /\ stack = <<>> /\ batch # <<>>
Event == Head(batch)
Handler == lp.handles[Event.fd]

\* handles[fd] is undefined: a TypeError nothing catches.
DispatchToNothing ==
    /\ Dispatching
    /\ Handler = NoCallback
    /\ pc' = "crashed"
    /\ cur' = Event
    /\ batch' = Tail(batch)
    /\ UNCHANGED <<lp, stack, lookups, foreign>>

\* Mutant of TimerCleared: the timer is left running.
TimerKept(id) == lp

\* The answer handler begins with stealify.clearTimeout(timer).
TimerCleared(id) == Discard(lp, lookups[id].timer)

\* Mutant of AfterUsable: the socket is given up a second time.
AfterUsableAgain == "dropSocket"

\* What is left to do once a usable answer has been handed to onRecord.
AfterUsable == "nothing"

\* Mutant of Reported: onRecord is not called.
ReportedNever(calls) == calls

\* onRecord(null, result)
Reported(calls) == calls + 1

\* recvmsg returns an answer with an address: the socket is given up, then
\* onRecord(null, result).
AnswerUsable ==
    /\ Dispatching
    /\ Handler.kind = "answer"
    /\ LET id == Handler.owner
           l  == TimerCleared(id)
       IN /\ lp' = Discard(l, Event.fd)
          /\ foreign' = foreign \cup
               Strangers(id, {<<lp, lookups[id].timer>>, <<l, Event.fd>>})
          /\ lookups' = [lookups EXCEPT ![id].calls = Reported(@)]
          /\ Calling(AfterUsable, id, -1)
    /\ cur' = Event
    /\ batch' = Tail(batch)
    /\ UNCHANGED pc

\* recvmsg fails, or the answer holds no address: onRecord(err) and return.
\* The socket stays open and registered.
AnswerUseless ==
    /\ Dispatching
    /\ Handler.kind = "answer"
    /\ LET id == Handler.owner
       IN /\ lookups[id].useless < MaxUseless
          /\ lp' = TimerCleared(id)
          /\ foreign' = foreign \cup
               Strangers(id, {<<lp, lookups[id].timer>>})
          /\ lookups' = [lookups EXCEPT ![id].calls = @ + 1,
                                        ![id].useless = @ + 1]
          /\ Calling("nothing", id, -1)
    /\ cur' = Event
    /\ batch' = Tail(batch)
    /\ UNCHANGED pc

\* The timer: onRecord(err), then the socket is given up and, by the handler
\* setTimeout registered, the timer.
TimeOut ==
    /\ Dispatching
    /\ Handler.kind = "timer"
    /\ lookups' = [lookups EXCEPT ![Handler.owner].calls = @ + 1]
    /\ Calling("dropSocketAndTimer", Handler.owner, Event.fd)
    /\ cur' = Event
    /\ batch' = Tail(batch)
    /\ UNCHANGED <<lp, pc, foreign>>

Thread ==
    \/ ReturnToNothing
    \/ ReturnToDropSocket
    \/ ReturnToDropSocketAndTimer
    \/ FinishPoll
    \/ DispatchToNothing
    \/ AnswerUsable
    \/ AnswerUseless
    \/ TimeOut

Next == (\E id \in Ids : Lookup(id)) \/ Thread \/ Poll

Spec == Init /\ [][Next]_vars

\* What is assumed of the thread and of the kernel: the thread goes on until it
\* blocks in epoll_wait, and a timer that stays registered expires after its
\* second and is then reported, since epoll is level-triggered and hands its
\* ready list out in turn.  Nothing is assumed of the network.
ReportTimer(id) ==
    \E b \in Batches(lp) :
        /\ \E i \in 1..Len(b) : b[i].fd = lookups[id].timer
        /\ PollBatch(b)

FairSpec ==
    /\ Spec
    /\ WF_vars(Thread)
    /\ \A id \in Ids : SF_vars(ReportTimer(id))
-----------------------------------------------------------------------------
Useless == \E id \in Ids : lookups[id].useless > 0

\* onRecord is called at most once per lookup, timer and answer racing or not,
\* plus once for every useless answer, after which the socket keeps listening.
OneAnswer == \A id \in Ids : lookups[id].calls <= lookups[id].useless + 1

\* Descriptors are closed by number, some of them twice (clearTimeout of a
\* timer that is gone).  As long as every answer was usable, no lookup closes
\* a file that another one got under the same number.
OwnFilesOnly == ~Useless => foreign = {}

\* A lookup that has reported back holds no descriptor: as long as every
\* answer was usable, every open file is of a lookup that still waits, or
\* whose onRecord has not returned yet.  Nor does it hold the loop: whatever is
\* answered, the count is that of the registrations, and run() can end.
NothingHeld ==
    /\ lp.count = Cardinality(lp.interest)
    /\ ~Useless =>
         \A fd \in Fds : lp.file[fd] # 0 =>
            \E id \in Ids :
                /\ lp.file[fd] \in lookups[id].files
                /\ \/ lookups[id].calls = 0
                   \/ \E i \in 1..Len(stack) : stack[i].lookup = id

\* The thread dies of a lookup only when the answer and the timeout of that
\* lookup were in one batch: the first took the other's callback away.
CrashIsLateEvent ==
    pc = "crashed" /\ ~Useless =>
        \E id \in Ids : cur.file \in lookups[id].files /\ lookups[id].calls = 1

\* Every lookup reports back, whatever the network does, unless the thread
\* dies or a useless answer left descriptors in disorder.
EveryLookupReports ==
    \A id \in Ids :
        lookups[id].started ~> (lookups[id].calls > 0 \/ pc = "crashed" \/ Useless)
=============================================================================
