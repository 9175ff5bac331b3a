----------------------------- MODULE MCScheduler -----------------------------
(* Small instances of Scheduler for TLC.                                    *)
EXTENDS Scheduler

\* At once, as a delay below zero is taken, and in the next millisecond.
SomeDelays == {-1, 2}

\* Once, and twice in every millisecond.
SomePeriods == {-1, 1}
=============================================================================
