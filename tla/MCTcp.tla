-------------------------------- MODULE MCTcp --------------------------------
(* Small instances of Tcp for TLC.                                         *)
EXTENDS Tcp

\* The listener and a connection, with a third to be reused.
TwoFds == 3..4
ThreeFds == 3..5
=============================================================================
