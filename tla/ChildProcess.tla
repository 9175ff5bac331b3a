---------------------------- MODULE ChildProcess ----------------------------
(***************************************************************************)
(* launch() and watch() of lib/process.js: child processes that share one  *)
(* loop, each with three pipes and, when it is watched, an interval that   *)
(* asks waitpid().  Whoever closes an end of a pipe closes it by number,   *)
(* and there are two of them: the handler of the hang-up and, when the     *)
(* child has been reaped, a microtask of watch().                          *)
(*                                                                         *)
(* The thread is reduced to what the handlers see of it: it polls,         *)
(* dispatches the batch event by event, and drains the microtasks.  The    *)
(* children, and the children they leave their pipes to, do what they      *)
(* like.  What flows through the pipes, and onClose, are left out.         *)
(***************************************************************************)
EXTENDS Loop

CONSTANT MaxProcesses  \* bound: calls of launch()

ASSUME MaxProcessesAssumption == MaxProcesses \in Nat

VARIABLES
    lp,        \* the loop and the descriptors (module Loop)
    batch,     \* events not dispatched yet: the thread is inside poll() or not
    hung,      \* the files that had hung up when the batch was reported
    ticks,     \* the nextTick callbacks of watch(), by process
    procs,     \* per process: what launch() and watch() keep, and the child
    robbed     \* history: processes whose file was touched by its number for
               \* another one, whose own file under that number was gone

vars == <<lp, batch, hung, ticks, procs, robbed>>

Ids == 1..MaxProcesses
Pipes == {"stdin", "stdout", "stderr"}

\* "fds" are the descriptors the closures captured, "files" what they were when
\* they were opened (history).  "held" are the pipes someone has the other end of,
\* "stolen" is a child whose status went to the watch of another.
States == {"none", "unforked", "running", "zombie", "reaped", "stolen"}
Processes == [state : States, fds : [Pipes -> Fds \cup {-1}], files : [Pipes -> Nat],
              held : SUBSET Pipes,
              timer : Fds \cup {-1}, timerFile : Nat, ended : BOOLEAN]

TypeOK ==
    /\ lp \in LoopsOf(Pipes \cup {"timer"})
    /\ batch \in Seq(Events)
    /\ hung \subseteq Nat
    /\ ticks \in Seq(Ids)
    /\ procs \in [Ids -> Processes]
    /\ robbed \subseteq Ids

Init ==
    /\ lp = NewLoop
    /\ batch = <<>>
    /\ hung = {}
    /\ ticks = <<>>
    /\ procs = [id \in Ids |->
                  [state |-> "none", fds |-> [pipe \in Pipes |-> -1],
                   files |-> [pipe \in Pipes |-> 0], held |-> {},
                   timer |-> -1, timerFile |-> 0, ended |-> FALSE]]
    /\ robbed = {}

FilesOf(id) == {procs[id].files[pipe] : pipe \in Pipes} \cup {procs[id].timerFile}

\* Whose file it is that is known by this number.
OwnersOf(fd) == {id \in Ids : lp.file[fd] # 0 /\ lp.file[fd] \in FilesOf(id)}

\* loop.remove(fd); close(fd), of each of these, as clearInterval(fd) does too.
\* They are distinct or done, so it is the same in any order.
Discard(l, fds) ==
    [l EXCEPT !.file = [fd \in Fds |-> IF fd \in fds THEN 0 ELSE @[fd]],
              !.interest = @ \ fds,
              !.handles = [fd \in Fds |-> IF fd \in fds \cap l.interest THEN NoCallback
                                          ELSE @[fd]],
              !.count = @ - Cardinality(fds \cap l.interest)]

-----------------------------------------------------------------------------
(* Calls of user code.                                                     *)
(*                                                                         *)
(* They are made by the main script and by microtasks, in between the      *)
(* nextTick callbacks of watch() too.  A call from inside a handler is one *)
(* at the end of its turn: no handler touches the descriptors of another.  *)

\* The nth descriptor the kernel hands out next.
NthFree(n) ==
    CHOOSE fd \in Free(lp) : Cardinality({other \in Free(lp) : other < fd}) = n - 1

\* createPipe three times, and this process's ends of the six: the child's are closed
\* when it has been forked.
Own == [stdin |-> 2, stdout |-> 3, stderr |-> 5]

\* The pipes are made, and added to the loop.
Launch(id) ==
    /\ procs[id].state = "none" /\ \A k \in 1..(id - 1) : procs[k].state # "none"
    /\ Cardinality(Free(lp)) >= 6
    /\ \E fds \in {[pipe \in Pipes |-> NthFree(Own[pipe])]} :
         LET file(fd) == lp.opened + Own[CHOOSE pipe \in Pipes : fds[pipe] = fd]
             added(l, pipe) == Add(l, fds[pipe], [kind |-> pipe, owner |-> id])
             piped == [lp EXCEPT !.opened = @ + 6,
                                 !.file = [fd \in Fds |-> IF fd \in {fds[p] : p \in Pipes}
                                                          THEN file(fd) ELSE @[fd]]]
         IN
         /\ lp' = added(added(added(piped, "stdin"), "stdout"), "stderr")
         /\ \E state \in {"running", "unforked"} :
              procs' = [procs EXCEPT
                          ![id].state = state,
                          ![id].held = IF state = "running" THEN Pipes ELSE {},
                          ![id].fds = fds,
                          ![id].files = [pipe \in Pipes |-> file(fds[pipe])]]
    /\ UNCHANGED <<batch, hung, ticks, robbed>>

\* watch(): setInterval.
Watch(id) ==
    /\ procs[id].state # "none" /\ procs[id].timer = -1
    /\ \E fd \in Fds :
         /\ IsLowestFree(lp, fd)
         /\ lp' = Add(Open(lp, fd), fd, [kind |-> "timer", owner |-> id])
         /\ procs' = [procs EXCEPT ![id].timer = fd, ![id].timerFile = lp.opened + 1]
    /\ UNCHANGED <<batch, hung, ticks, robbed>>

User == batch = <<>> /\ \E id \in Ids : Launch(id) \/ Watch(id)
-----------------------------------------------------------------------------
(* The children.                                                           *)
(*                                                                         *)
(* They act outside poll(): a batch may leave out what is ready, so a step *)
(* of theirs during a turn is one that was taken before it, or after.      *)

\* Whoever has the other end of a pipe closes it: each of the three at its own time.
LetGo(id, pipe) ==
    /\ batch = <<>>
    /\ pipe \in procs[id].held
    /\ procs' = [procs EXCEPT ![id].held = @ \ {pipe}]
    /\ UNCHANGED <<lp, batch, hung, ticks, robbed>>

\* The child exits.  Children of its own may have the pipes still.
Exit(id) ==
    /\ batch = <<>>
    /\ procs[id].state = "running"
    /\ \E held \in {{}, procs[id].held} :
         procs' = [procs EXCEPT ![id].state = "zombie", ![id].held = held]
    /\ UNCHANGED <<lp, batch, hung, ticks, robbed>>

Children == \E id \in Ids : Exit(id) \/ \E pipe \in Pipes : LetGo(id, pipe)
-----------------------------------------------------------------------------
(* poll().                                                                 *)

HungUp == UNION {{procs[id].files[pipe] : pipe \in Pipes \ procs[id].held} : id \in Ids}

\* A timer is due, or a pipe has hung up.  That it can be read or written is left
\* out: the handlers of that change nothing here.
Ready ==
    LET gone == HungUp IN
    {fd \in lp.interest : lp.handles[fd].kind = "timer" \/ lp.file[fd] \in gone}

BatchesOfReady == Batches([lp EXCEPT !.interest = Ready])

PollBatch(b) ==
    /\ batch = <<>> /\ ticks = <<>> /\ b # <<>>
    /\ batch' = b
    /\ hung' = HungUp \cap {b[i].file : i \in 1..Len(b)}
    /\ UNCHANGED <<lp, ticks, procs, robbed>>

Poll == \E b \in BatchesOfReady : PollBatch(b)

Event == Head(batch)
Handler == lp.handles[Event.fd]
Dispatch(kinds) ==
    /\ batch # <<>>
    /\ Handler.kind \in kinds
    /\ batch' = Tail(batch)
    /\ hung' = hung \ {Event.file}

\* Mutant of HangUpCloses: the first pipe that hangs up takes the others along.
HangUpClosesAll(id, fd) == {procs[id].fds[pipe] : pipe \in Pipes}

\* What a handler closes when its pipe has hung up.
HangUpCloses(id, fd) == {fd}

\* EPOLLERR or EPOLLHUP comes first: what is in the pipe is not read.
HangUp ==
    LET id == Handler.owner IN
    /\ Dispatch(Pipes) /\ Event.file \in hung
    /\ lp' = Discard(lp, HangUpCloses(id, Event.fd))
    /\ UNCHANGED <<ticks, procs, robbed>>

\* Mutant of Again: watch() asks once.
AgainNever(l, fd) == Discard(l, {fd})

\* What the handler of setInterval leaves of its timer.
Again(l, fd) == l

\* waitpid(pid, WNOHANG) says nothing, or answers for this child.
AskOwn(id) ==
    IF procs[id].state = "zombie"
    THEN /\ procs' = [procs EXCEPT ![id].state = "reaped", ![id].ended = TRUE]
         /\ ticks' = Append(ticks, id)
    ELSE UNCHANGED <<procs, ticks>>

\* The pid of a child that was not forked is -1: waitpid takes any child, and its
\* pid is not that of this process.
AskAny ==
    /\ ticks' = ticks
    /\ \/ \E other \in Ids :
            /\ procs[other].state = "zombie"
            /\ procs' = [procs EXCEPT ![other].state = "stolen"]
       \/ /\ \A other \in Ids : procs[other].state # "zombie"
          /\ procs' = procs

\* The interval of watch().
Ask ==
    LET id == Handler.owner IN
    /\ Dispatch({"timer"})
    /\ IF procs[id].state = "unforked" THEN AskAny ELSE AskOwn(id)
    /\ lp' = Again(lp, Event.fd)
    /\ UNCHANGED robbed
-----------------------------------------------------------------------------
(* The microtasks.                                                         *)

Numbers(id) == {procs[id].timer} \cup {procs[id].fds[pipe] : pipe \in Pipes}

\* Mutant of TickCloses: stderr is forgotten.
TickClosesTwo(id) == Numbers(id) \ {procs[id].fds["stderr"]}

\* What the nextTick callback of watch() clears, removes and closes.
TickCloses(id) == Numbers(id)

Tick ==
    LET id == Head(ticks) IN
    /\ batch = <<>> /\ ticks # <<>>
    /\ ticks' = Tail(ticks)
    /\ lp' = Discard(lp, TickCloses(id))
    /\ robbed' = robbed \cup ((UNION {OwnersOf(fd) : fd \in Numbers(id)}) \ {id})
    /\ UNCHANGED <<batch, hung, procs>>

Thread == HangUp \/ Ask \/ Tick

Next == User \/ Children \/ Poll \/ Thread

\* The thread goes on until it blocks; a timer that stays registered expires again
\* and again and is reported in its turn.  Nothing is assumed of the children.
ReportTimer(id) ==
    /\ batch = <<>> /\ procs[id].timer \in Ready
    /\ \E b \in BatchesOfReady :
         /\ \E i \in 1..Len(b) : b[i].file = procs[id].timerFile
         /\ PollBatch(b)

Spec == Init /\ [][Next]_vars /\ WF_vars(Thread)
             /\ \A id \in Ids : SF_vars(ReportTimer(id))
-----------------------------------------------------------------------------
(* Properties.                                                             *)

\* watch() reports the exit of its child, whatever becomes of the pipes before,
\* unless a watch without a child took the answer or its timer was touched by the
\* number of a pipe that was gone.
ExitIsReported ==
    \A id \in Ids :
        (procs[id].state = "zombie" /\ procs[id].timer # -1)
            ~> (procs[id].ended \/ procs[id].state = "stolen" \/ id \in robbed)

\* Once the microtask of watch() has run, no file of that process is open, whoever
\* closed which of them first, and the loop counts exactly what is registered: run()
\* can end when the children have.
NothingLeftOver ==
    /\ \A id \in Ids, fd \in Fds :
         procs[id].ended /\ (\A i \in 1..Len(ticks) : ticks[i] # id) => id \notin OwnersOf(fd)
    /\ lp.count = Cardinality(lp.interest)

\* A child that runs is listened to: as long as it has the other end of its output,
\* this end is open and registered with its own handler, whatever became of its
\* other pipes and of other children, unless its number was taken for another's.
Listening ==
    \A id \in Ids, pipe \in {"stdout", "stderr"} :
        procs[id].state = "running" /\ pipe \in procs[id].held /\ id \notin robbed =>
            LET fd == procs[id].fds[pipe] IN
            /\ lp.file[fd] = procs[id].files[pipe]
            /\ fd \in lp.interest
            /\ lp.handles[fd] = [kind |-> pipe, owner |-> id]
=============================================================================
