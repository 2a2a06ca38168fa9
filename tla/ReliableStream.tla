--------------------------- MODULE ReliableStream ---------------------------
(***************************************************************************)
(* What the resumable transport promises of one direction (PLAN.md, Phase  *)
(* 8): the bytes one end takes in come out at the other end without loss,  *)
(* duplication or reordering, whatever happens to the connections below.   *)
(* The bytes are numbered in the order they are taken in.                  *)
(***************************************************************************)
EXTENDS Integers, Sequences

VARIABLES
  taken,   \* how many bytes have been taken in
  output   \* the bytes that came out

stream == <<taken, output>>

\* The first n bytes of the stream.
FirstBytes(n) == [i \in 1 .. n |-> i]

Init == taken = 0 /\ output = <<>>

\* One end takes in some more bytes; some of the bytes on their way come out.
TakeIn == taken' \in Nat /\ taken' > taken /\ UNCHANGED output
ComeOut ==
  /\ \E n \in Len(output) + 1 .. taken : output' = FirstBytes(n)
  /\ UNCHANGED taken

Next == TakeIn \/ ComeOut

Spec == Init /\ [][Next]_stream
=============================================================================
