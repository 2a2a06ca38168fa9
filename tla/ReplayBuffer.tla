---------------------------- MODULE ReplayBuffer ----------------------------
(***************************************************************************)
(* quicmux::ReplayBuffer: the bytes a peer has not confirmed yet, with the *)
(* absolute offset of the first.  `data` is a sequence of bytes; a byte is *)
(* whatever the caller appends.  The buffer refuses what does not fit and  *)
(* never evicts.                                                           *)
(***************************************************************************)
EXTENDS Integers, Sequences

NewBuffer == [start |-> 0, data |-> <<>>]
EndOffset(buf) == buf.start + Len(buf.data)
\* Faulty variant: what the buffer holds already is not subtracted.
RemainingCapacityOfEmpty(buf, cap) == cap

RemainingCapacity(buf, cap) == IF cap >= Len(buf.data) THEN cap - Len(buf.data) ELSE 0
IsFull(buf, cap) == RemainingCapacity(buf, cap) = 0

\* `append`: all of the bytes or, when they do not fit, none of them.
HasRoom(buf, cap, bytes) == Len(bytes) <= RemainingCapacity(buf, cap)
Appended(buf, cap, bytes) ==
  IF HasRoom(buf, cap, bytes) THEN [buf EXCEPT !.data = @ \o bytes] ELSE buf

\* `advance_start`: a stale offset discards nothing, one beyond the end is
\* clamped, so that what is appended later keeps its offset.
Discarded(buf, confirmed) ==
  LET ahead == IF confirmed >= buf.start THEN confirmed - buf.start ELSE 0 IN
  IF ahead <= Len(buf.data) THEN ahead ELSE Len(buf.data)
AdvanceStart(buf, confirmed) ==
  LET n == Discarded(buf, confirmed) IN
  [start |-> buf.start + n, data |-> SubSeq(buf.data, n + 1, Len(buf.data))]

\* `replay_from`: the bytes from an offset on, if that offset is in range.
InRange(buf, from) == buf.start <= from /\ from <= EndOffset(buf)
\* Faulty variant: the whole buffer is replayed.
ReplayFromStart(buf, from) == buf.data

ReplayFrom(buf, from) == SubSeq(buf.data, from - buf.start + 1, Len(buf.data))
=============================================================================
