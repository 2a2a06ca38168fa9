----------------------------- MODULE MCTtyDaemon -----------------------------
(***************************************************************************)
(* Bounded instances of TtyDaemon.                                         *)
(***************************************************************************)
EXTENDS TtyDaemon

\* Output that outruns the channel and the ring, without input; and input of a
\* client that is preempted, without output.
LoadsForTLC == {[output |-> 3, stdin |-> 0], [output |-> 0, stdin |-> 2]}
=============================================================================
