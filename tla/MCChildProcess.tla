--------------------------- MODULE MCChildProcess ---------------------------
(* Small instances of ChildProcess for TLC.                                *)
EXTENDS ChildProcess

\* launch() takes six descriptors and keeps three; watch() takes one.  Two short of
\* what two children need: the second is launched into numbers that pipes of the
\* first have left, which is what its clean-up by number can meet.
EightFds == 3..10
=============================================================================
