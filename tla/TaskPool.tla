------------------------------ MODULE TaskPool ------------------------------
(***************************************************************************)
(* What the scheduler of streams/es promises, without a timeline and       *)
(* without a timer: every task has a due time and a state, it is started   *)
(* only when it is due, once for each time it is due, and it leaves the    *)
(* pool only because it is done or because somebody has it leave.          *)
(***************************************************************************)
EXTENDS Integers

CONSTANT Tasks

VARIABLES
    now,
    pool,  \* per task, a state and the time it is due
    lost   \* the tasks that were dropped, and not cancelled one by one

vars == <<now, pool, lost>>

\* "leaving" is a task that was cancelled while it runs.
States == {"unborn", "waiting", "running", "leaving", "over"}

TypeOK ==
    /\ now \in Nat
    /\ pool \in [Tasks -> [state : States, due : Nat]]
    /\ lost \subseteq Tasks

Init ==
    /\ now = 0
    /\ pool = [t \in Tasks |-> [state |-> "unborn", due |-> 0]]
    /\ lost = {}

In(t, state) == pool[t].state = state
Becomes(t, state) == pool' = [pool EXCEPT ![t].state = state]

Tick ==
    /\ now' = now + 1
    /\ UNCHANGED <<pool, lost>>

\* A task comes in, due at once or later.
Add(t) ==
    /\ In(t, "unborn")
    /\ pool' = [pool EXCEPT ![t] = [state |-> "waiting", due |-> pool'[t].due]]
    /\ pool'[t].due \in Nat
    /\ UNCHANGED <<now, lost>>

\* A task that is due is started, one at a time.
Start(t) ==
    /\ In(t, "waiting") /\ pool[t].due <= now
    /\ \A other \in Tasks : ~In(other, "running") /\ ~In(other, "leaving")
    /\ Becomes(t, "running")
    /\ UNCHANGED <<now, lost>>

Finish(t) ==
    /\ In(t, "running") \/ In(t, "leaving")
    /\ Becomes(t, "over")
    /\ UNCHANGED <<now, lost>>

\* A periodic task waits for its next time.
Repeat(t) ==
    /\ In(t, "running")
    /\ pool' = [pool EXCEPT ![t] = [state |-> "waiting", due |-> pool'[t].due]]
    /\ pool'[t].due >= pool[t].due
    /\ UNCHANGED <<now, lost>>

\* cancelTask: the task and no other is not started again.
Cancel(t) ==
    /\ \/ In(t, "waiting") /\ Becomes(t, "over")
       \/ In(t, "running") /\ Becomes(t, "leaving")
    /\ UNCHANGED <<now, lost>>

Drop(tasks) ==
    /\ pool' = [t \in Tasks |-> IF t \in tasks THEN [pool[t] EXCEPT !.state = "over"]
                                               ELSE pool[t]]
    /\ lost' = lost \cup tasks
    /\ UNCHANGED now

\* cancelAllTasks: of the tasks asked for, those that wait leave, or stay.
Sweep ==
    \E tasks \in SUBSET {t \in Tasks : In(t, "waiting")} : Drop(tasks)

\* A task fails and so does its error handler: it and what was due leave.
Abandon ==
    \E t \in Tasks :
      /\ In(t, "running") \/ In(t, "leaving")
      /\ \E due \in SUBSET {d \in Tasks : In(d, "waiting") /\ pool[d].due <= now} :
           Drop(due \cup {t})

Next ==
    \/ Tick
    \/ Sweep
    \/ Abandon
    \/ \E t \in Tasks :
         Add(t) \/ Start(t) \/ Finish(t) \/ Repeat(t) \/ Cancel(t)

Spec == Init /\ [][Next]_vars
=============================================================================
