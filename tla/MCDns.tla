-------------------------------- MODULE MCDns --------------------------------
(* Small instances of Dns for TLC.                                         *)
EXTENDS Dns

\* Three lookups hold six descriptors when all of them wait; two of them leave
\* two for a third to reuse.
SixFds == 3..8
=============================================================================
