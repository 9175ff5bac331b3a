---------------------------- MODULE TimerPromise -----------------------------
(***************************************************************************)
(* What setTimeout, setInterval and clearTimeout of stealify.js promise,   *)
(* without descriptors, files or events: a timer is a number never used    *)
(* before; a one-shot timer is called at most once; a timer that was       *)
(* cleared is not called again.  When a timer is called is left open, and  *)
(* so is whether: a timer may be lost when its descriptor is closed behind *)
(* it.                                                                     *)
(***************************************************************************)
EXTENDS Integers

VARIABLES
    armed,    \* timers that may still be called: [kind, owner]
    last,     \* the largest number a timer has been given
    running,  \* the timer whose callback runs
    cleared   \* the numbers of the timers cleared while armed

vars == <<armed, last, running, cleared>>

Nobody == [kind |-> "undefined", owner |-> 0]

\* No timer that is armed has been cleared.
Respects(timers, numbers) == \A t \in timers : t.owner \notin numbers

Init == armed = {} /\ last = 0 /\ running = Nobody /\ cleared = {}

\* Timers with new numbers are set, timers are cleared or lost.
Rearm ==
    /\ last' >= last
    /\ cleared \subseteq cleared'
    /\ \A t \in armed' : t \in armed \/ t.owner \in (last + 1)..last'
    /\ Respects(armed', cleared')
    /\ running' = running

\* The callback of an armed timer is called.
Fire ==
    /\ running = Nobody
    /\ running' \in armed
    /\ armed' \subseteq armed
    /\ UNCHANGED <<last, cleared>>

\* It returns, and a one-shot timer is done.
Return ==
    /\ running # Nobody
    /\ running' = Nobody
    /\ armed' \subseteq armed
    /\ running.kind = "timeout" => running \notin armed'
    /\ UNCHANGED <<last, cleared>>

Next == Rearm \/ Fire \/ Return

Spec == Init /\ [][Next]_vars
=============================================================================
