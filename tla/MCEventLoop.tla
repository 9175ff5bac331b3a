----------------------------- MODULE MCEventLoop -----------------------------
(* Small instances of EventLoop for TLC.                                   *)
EXTENDS EventLoop

\* Two descriptors are enough for one to be reused while an event of the other
\* is being dispatched; three let a batch hold two events behind that.
TwoFds == 3..4
ThreeFds == 3..5

Anywhere == UserContexts
NotInCallbacks == {"script", "task"}
=============================================================================
