--------------------------- MODULE MCResumeStream ---------------------------
(***************************************************************************)
(* Bounded instances of ResumeStream.  One direction at a time, with more  *)
(* bytes than a buffer holds or over three connections, or both at once.   *)
(* Of the APP_ACK tasks those may fail on which a direction depends.       *)
(***************************************************************************)
EXTENDS ResumeStream

Load(up, down, conns) == [stdin |-> up, target |-> down, conns |-> conns, frail |-> {}]
Frail(up, down, tasks) == [Load(up, down, 2) EXCEPT !.frail = tasks]
EachDirection == {Load(3, 0, 2), Load(2, 0, 3), Load(0, 3, 2), Load(0, 2, 3), Load(1, 1, 2)}
BothDirections == {Load(2, 2, 2), Frail(2, 0, {"ssend", "crecv"}),
                   Frail(0, 2, {"csend", "srecv", "crecv"})}
OneByte == {Load(0, 1, 2)}
=============================================================================
