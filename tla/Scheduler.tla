------------------------------ MODULE Scheduler ------------------------------
(***************************************************************************)
(* The scheduler of streams/es/scheduler.mjs: SchedulerImpl over a         *)
(* TimelineImpl and a ClockTimer.  Tasks wait in slots of a millisecond,   *)
(* sorted by time; one timer is kept for the first slot.  Task.run, and    *)
(* whatever else the program does between turns, is user code, which may   *)
(* schedule and cancel.                                                    *)
(*                                                                         *)
(* Times are fractions of a millisecond (performance.now), in ticks.       *)
(***************************************************************************)
EXTENDS Integers, FiniteSets, Sequences, SequencesExt, FiniteSetsExt

CONSTANTS NumTasks,  \* bound: calls of scheduleTask
          Grain,     \* ticks in a millisecond
          Delays,    \* the delays tasks are scheduled with
          Periods,   \* their periods, -1 for none
          MaxNow     \* bound: how far the clock goes

ASSUME NumTasksAssumption == NumTasks \in Nat
ASSUME GrainAssumption == Grain \in Nat \ {0}
ASSUME DelaysAssumption == Delays \subseteq Int
ASSUME PeriodsAssumption == Periods \subseteq Int
ASSUME MaxNowAssumption == MaxNow \in Nat

VARIABLES
    now,       \* currentTime()
    tasks,     \* the ScheduledTasks
    timeline,  \* timeline.tasks, the slots
    timer,     \* _timer, _nextArrival and when the platform's timer is due
    ready,     \* tasks of the slots runTasks() took out of the timeline
    running,   \* the task whose run() is on the stack, or NoTask
    pc,        \* "idle" between turns, "turn" inside _runReadyTasks
    lost,      \* history: tasks that cancelAll or an exception dropped
    stalled    \* history: an exception left the turn, and _scheduleNextRun
               \* has not been called since

vars == <<now, tasks, timeline, timer, ready, running, pc, lost, stalled>>

Tasks == 1..NumTasks
NoTask == 0

ScheduledTasks == [time : Nat, period : Periods \cup {-1},
                   scheduled : BOOLEAN, active : BOOLEAN]
Slots == [time : Nat, events : Seq(Tasks)]
Timers == [set : BOOLEAN, arrival : Nat, due : Nat]

TypeOK ==
    /\ now \in 0..MaxNow
    /\ tasks \in [Tasks -> ScheduledTasks]
    /\ timeline \in Seq(Slots)
    /\ timer \in Timers
    /\ ready \in Seq(Tasks)
    /\ running \in Tasks \cup {NoTask}
    /\ pc \in {"idle", "turn"}
    /\ lost \subseteq Tasks
    /\ stalled \in BOOLEAN

Init ==
    /\ now = 0
    /\ tasks = [t \in Tasks |-> [time |-> 0, period |-> -1,
                                 scheduled |-> FALSE, active |-> TRUE]]
    /\ timeline = <<>>
    /\ timer = [set |-> FALSE, arrival |-> 0, due |-> 0]
    /\ ready = <<>>
    /\ running = NoTask
    /\ pc = "idle"
    /\ lost = {}
    /\ stalled = FALSE

\* Mutant of AtLeast0: a negative delay is taken as it comes.
Unclamped(n) == n

\* Math.max(0, n)
AtLeast0(n) == IF n < 0 THEN 0 ELSE n

\* Math.floor, of a time in milliseconds.
Floor(time) == (time \div Grain) * Grain
-----------------------------------------------------------------------------
(* The timeline.                                                           *)

\* binarySearch: the index of the slot of that time, or of the first later
\* one, or one past the end.
BinarySearch(time, slots) ==
    LET ends == 1..Len(slots) + 1
        search[range \in ends \X ends] ==
            LET lo  == range[1]
                hi  == range[2]
                mid == (lo + hi) \div 2
            IN
            IF lo >= hi THEN hi
            ELSE IF time = slots[mid].time THEN mid
            ELSE IF time < slots[mid].time THEN search[<<lo, mid>>]
            ELSE search[<<mid + 1, hi>>]
    IN  search[<<1, Len(slots) + 1>>]

HasSlot(time, slots, i) == i <= Len(slots) /\ slots[i].time = time

\* addEvent: before the first event that is later, which spliceEvent looks for.
AddEvent(t, time, events, all) ==
    LET later == {j \in 1..Len(events) : time < all[events[j]].time} IN
    IF later = {} THEN Append(events, t)
    ELSE InsertAt(events, Min(later), t)

\* Mutant of InsertByTime: the slot goes after the one the search found.
InsertByTimeOneOff(t, time, slots, all) ==
    LET i == BinarySearch(Floor(time), slots) IN
    IF HasSlot(Floor(time), slots, i)
    THEN [slots EXCEPT ![i].events = AddEvent(t, time, @, all)]
    ELSE InsertAt(slots, IF i <= Len(slots) THEN i + 1 ELSE i,
                  [time |-> Floor(time), events |-> <<t>>])

\* insertByTime: task t, due at "time"; the times of the others are in "all".
InsertByTime(t, time, slots, all) ==
    LET i == BinarySearch(Floor(time), slots) IN
    IF HasSlot(Floor(time), slots, i)
    THEN [slots EXCEPT ![i].events = AddEvent(t, time, @, all)]
    ELSE InsertAt(slots, i, [time |-> Floor(time), events |-> <<t>>])

\* findIndex
IndexOf(t, events) == Min({j \in 1..Len(events) : events[j] = t})

\* Mutant of Take: the slot is given up with the first task taken out of it.
TakeSlot(t, slots) ==
    LET i == BinarySearch(Floor(tasks[t].time), slots) IN
    IF HasSlot(Floor(tasks[t].time), slots, i) /\ Contains(slots[i].events, t)
    THEN RemoveAt(slots, i)
    ELSE slots

\* timeline.remove: the task is looked for in the slot of its time only, and a
\* slot it leaves empty goes with it.
Take(t, slots) ==
    LET i == BinarySearch(Floor(tasks[t].time), slots) IN
    IF ~HasSlot(Floor(tasks[t].time), slots, i) \/ ~Contains(slots[i].events, t)
    THEN slots
    ELSE IF Len(slots[i].events) = 1 THEN RemoveAt(slots, i)
    ELSE [slots EXCEPT ![i].events = RemoveAt(@, IndexOf(t, @))]

\* removeAll: the events that f is not true of, in their order.
Without(f, events) ==
    LET kept[n \in 0..Len(events)] ==
            IF n = 0 THEN <<>>
            ELSE IF events[n] \in f THEN kept[n - 1]
            ELSE Append(kept[n - 1], events[n])
    IN  kept[Len(events)]

\* timeline.removeAll: the slots stay, empty or not.
Sweep(f, slots) ==
    [i \in 1..Len(slots) |-> [slots[i] EXCEPT !.events = Without(f, @)]]

HoldsTask(slots, t) == \E i \in 1..Len(slots) : Contains(slots[i].events, t)

Waiting(t) == HoldsTask(timeline, t)
-----------------------------------------------------------------------------
(* The timer.                                                              *)

\* _scheduleNextArrival.  setTimeout takes whole milliseconds, and a delay of
\* none is a microtask (Asap).
Armed(arrival) ==
    [set |-> TRUE, arrival |-> arrival,
     due |-> now + Floor(AtLeast0(arrival - now))]

\* _unschedule
Unset(tm) == [tm EXCEPT !.set = FALSE]

\* Mutant of NextRun: a timer that is set is left alone.
NextRunKeeping(slots, tm) ==
    IF slots # <<>> /\ ~tm.set THEN Armed(slots[1].time) ELSE tm

\* _scheduleNextRun
NextRun(slots, tm) ==
    IF slots # <<>> /\ (~tm.set \/ slots[1].time < tm.arrival)
    THEN Armed(slots[1].time) ELSE tm

\* _reschedule
Reschedule(slots, tm) == IF slots = <<>> THEN Unset(tm) ELSE NextRun(slots, tm)
-----------------------------------------------------------------------------
(* User code.                                                              *)

UserRuns == pc = "idle" \/ running # NoTask

\* scheduleTask
ScheduleTask(t, delay, period) ==
    LET time == now + AtLeast0(delay)
        slots == InsertByTime(t, time, timeline, tasks)
    IN
    /\ UserRuns
    /\ ~tasks[t].scheduled /\ \A k \in Tasks : k < t => tasks[k].scheduled
    /\ time <= MaxNow
    /\ tasks' = [tasks EXCEPT ![t] = [time |-> time, period |-> period,
                                      scheduled |-> TRUE, active |-> TRUE]]
    /\ timeline' = slots
    /\ timer' = NextRun(slots, timer)
    /\ stalled' = FALSE
    /\ UNCHANGED <<now, ready, running, pc, lost>>

\* ScheduledTask.dispose: cancel, which reschedules if the task was found.  Of
\* a task that is over it changes nothing that is looked at again.
Dispose(t) ==
    LET slots == Take(t, timeline) IN
    /\ UserRuns
    /\ tasks[t].active /\ (Waiting(t) \/ Contains(ready, t) \/ running = t)
    /\ tasks' = [tasks EXCEPT ![t].active = FALSE]
    /\ timeline' = slots
    /\ \/ /\ slots # timeline
          /\ timer' = Reschedule(slots, timer)
          /\ stalled' = FALSE
       \/ /\ slots = timeline
          /\ UNCHANGED <<timer, stalled>>
    /\ UNCHANGED <<now, ready, running, pc, lost>>

\* cancelAll(f), where f is true of a set of tasks.
CancelAll(f) ==
    LET slots == Sweep(f, timeline) IN
    /\ UserRuns
    /\ \E t \in f : Waiting(t)
    /\ timeline' = slots
    /\ timer' = Reschedule(slots, timer)
    /\ stalled' = FALSE
    /\ lost' = lost \cup {t \in f : Waiting(t)}
    /\ UNCHANGED <<now, tasks, ready, running, pc>>

User ==
    \/ \E t \in Tasks, delay \in Delays, period \in Periods :
         ScheduleTask(t, delay, period)
    \/ \E t \in Tasks : Dispose(t)
    \/ \E f \in SUBSET Tasks : CancelAll(f)
-----------------------------------------------------------------------------
(* The timer's callback.                                                   *)

\* How many slots at the head of the timeline are due.
DueSlots(slots) ==
    Max({n \in 0..Len(slots) : \A i \in 1..n : slots[i].time <= now})

Events(slots) == FlattenSeq([i \in 1..Len(slots) |-> slots[i].events])

\* _runReadyTasks, up to the loop of runTasks.
RunReadyTasks ==
    LET n == DueSlots(timeline) IN
    /\ pc = "idle"
    /\ timer.set /\ timer.due <= now
    /\ timer' = Unset(timer)
    /\ ready' = Events(SubSeq(timeline, 1, n))
    /\ timeline' = SubSeq(timeline, n + 1, Len(timeline))
    /\ pc' = "turn"
    /\ UNCHANGED <<now, tasks, running, lost, stalled>>

InLoop == pc = "turn" /\ running = NoTask

\* Mutant of MayRun: the flag is not looked at again.
MayRunAnyway(t) == TRUE

\* if (task.active)
MayRun(t) == tasks[t].active

StartTask ==
    /\ InLoop /\ ready # <<>>
    /\ MayRun(Head(ready))
    /\ running' = Head(ready)
    /\ ready' = Tail(ready)
    /\ UNCHANGED <<now, tasks, timeline, timer, pc, lost, stalled>>

SkipTask ==
    /\ InLoop /\ ready # <<>>
    /\ ~MayRun(Head(ready))
    /\ ready' = Tail(ready)
    /\ UNCHANGED <<now, tasks, timeline, timer, running, pc, lost, stalled>>

\* run() has returned, or it threw and error() has: a periodic task that is
\* still active goes back, at its own time and not at the clock's.
FinishTask ==
    LET t == running
        time == tasks[t].time + tasks[t].period
        again == tasks[t].period >= 0 /\ tasks[t].active
    IN
    /\ t # NoTask
    /\ \/ /\ again
          /\ tasks' = [tasks EXCEPT ![t].time = time]
          /\ timeline' = InsertByTime(t, time, timeline, tasks)
       \/ /\ ~again
          /\ UNCHANGED <<tasks, timeline>>
    /\ running' = NoTask
    /\ UNCHANGED <<now, timer, ready, pc, lost, stalled>>

\* error() throws as well: the turn is over where it stands.
Fail ==
    /\ running # NoTask
    /\ lost' = lost \cup {running} \cup {t \in ToSet(ready) : tasks[t].active}
    /\ stalled' = TRUE
    /\ running' = NoTask
    /\ ready' = <<>>
    /\ pc' = "idle"
    /\ UNCHANGED <<now, tasks, timeline, timer>>

FinishTurn ==
    /\ InLoop /\ ready = <<>>
    /\ timer' = NextRun(timeline, timer)
    /\ stalled' = FALSE
    /\ pc' = "idle"
    /\ UNCHANGED <<now, tasks, timeline, ready, running, lost>>

Turn == StartTask \/ SkipTask \/ FinishTask \/ FinishTurn

Tick ==
    /\ now < MaxNow
    /\ now' = now + 1
    /\ UNCHANGED <<tasks, timeline, timer, ready, running, pc, lost, stalled>>

Next == User \/ RunReadyTasks \/ Turn \/ Fail \/ Tick

Spec == Init /\ [][Next]_vars

\* User code returns, time passes, and the platform calls back.
FairSpec == Spec /\ WF_vars(Turn) /\ WF_vars(RunReadyTasks) /\ WF_vars(Tick)
-----------------------------------------------------------------------------
\* The binary searches find what they look for: slots are strictly in order of
\* time, each holds tasks of its own millisecond in order of time, and no task
\* is twice in the timeline and among the tasks taken out of it.
TimelineInOrder ==
    /\ \A i, j \in 1..Len(timeline) : i < j => timeline[i].time < timeline[j].time
    /\ \A i \in 1..Len(timeline) :
         LET events == timeline[i].events IN
         \A j, k \in 1..Len(events) :
            /\ Floor(tasks[events[j]].time) = timeline[i].time
            /\ j < k => tasks[events[j]].time <= tasks[events[k]].time
    /\ \A t \in Tasks :
         Cardinality({j \in DOMAIN Events(timeline) : Events(timeline)[j] = t})
           + Cardinality({j \in DOMAIN ready : ready[j] = t})
           + (IF running = t THEN 1 ELSE 0) <= 1

\* Between turns a timer is set that comes no later than the first slot,
\* however slots came and went, unless an exception ended the last turn.
TimerCovers ==
    pc = "idle" /\ timeline # <<>> /\ ~stalled =>
        timer.set /\ (timer.due <= now \/ timer.due <= timeline[1].time)

\* A task that is scheduled for a time that comes runs, unless it is cancelled,
\* swept away or an exception stops the scheduler first.
Expected(t) == Waiting(t) /\ tasks[t].time <= MaxNow
EveryTaskRuns ==
    \A t \in Tasks :
        Expected(t) ~>
            \/ running = t
            \/ ~tasks[t].active
            \/ t \in lost
            \/ stalled

Pooled(t) ==
    [state |-> IF ~tasks[t].scheduled THEN "unborn"
               ELSE IF running = t
                    THEN IF tasks[t].active THEN "running" ELSE "leaving"
               ELSE IF ~tasks[t].active THEN "over"
               ELSE IF Waiting(t) \/ Contains(ready, t) THEN "waiting"
               ELSE "over",
     due   |-> IF tasks[t].scheduled THEN Floor(tasks[t].time) ELSE 0]

Pool == INSTANCE TaskPool WITH pool <- [t \in Tasks |-> Pooled(t)]

\* The timeline and its one timer keep what the pool promises: no task is lost,
\* run twice for one time, before its millisecond, or after it was cancelled.
KeepsTaskPool == Pool!Spec
=============================================================================
