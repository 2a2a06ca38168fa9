---------------------------- MODULE ResumeStream ----------------------------
(***************************************************************************)
(* One session of `isekai-pipe connect` and `isekai-pipe serve`, as the    *)
(* byte streams it carries: stdin to the target and the target to stdout,  *)
(* over a series of QUIC connections that are lost and resumed.            *)
(*   Client (resume_loop.rs): pump_c2h, pump_h2c, the APP_ACK tasks and    *)
(* the RESUME attempts.  Server (engine/mod.rs): relay_buffered, the       *)
(* APP_ACK tasks and handle_resume_stream.                                 *)
(*   The bytes of a direction are numbered from 1 as they are read.  A     *)
(* connection is a FIFO pair of streams; either end may find it dead at    *)
(* any time and what it has not read by then is lost.                      *)
(***************************************************************************)
EXTENDS ReplayBuffer

CONSTANTS
  Loads,        \* bound: what the two ends may have to say in one behaviour
  ClientCap,    \* C2H_REPLAY_BUFFER_CAPACITY
  ServerCap,    \* --resume-buffer-size
  MaxChunk      \* bound: the size of the relay buffers

\* The loops of the two spawn_app_ack_tasks: the client's, then the server's.
AckTasks == {"csend", "crecv", "ssend", "srecv"}

ASSUME SizesAssumption ==
  /\ Loads \subseteq [stdin : Nat, target : Nat, conns : Nat \ {0}, frail : SUBSET AckTasks]
  /\ ClientCap \in Nat \ {0} /\ ServerCap \in Nat \ {0} /\ MaxChunk \in Nat \ {0}

Fin == 0   \* the end of a stream, after its last byte

VARIABLES
  \* client
  cst,        \* "pump", "down", "asked", "replay" or "over"
  conn,       \* the connection it uses or last tried
  taken,      \* bytes read from stdin
  cbuf,       \* the C2H replay buffer
  cout,       \* bytes of the current write that the stream has not taken
  hin,        \* bytes read from the stream and not yet on stdout
  uncounted,  \* bytes on stdout that `delivered` does not count yet
  stdout,     \* the bytes stdout has received
  delivered,  \* h2c_client_delivered_offset
  acked,      \* c2h_helper_committed_offset
  eof,        \* c2h_already_done
  \* server
  sst,        \* "relay", "ack", "parked" or "gone"
  on,         \* the connection it relays or answers a RESUME on
  given,      \* bytes read from the target
  sbuf,       \* Session::output_buffer
  sout,       \* bytes of the current write that the stream has not taken
  sin,        \* bytes read from the stream and not yet written to the target
  target,     \* the bytes the target has received
  committed,  \* helper_committed_offset
  hole,       \* replay_disabled, and the incarnation is unresumable
  \* between them, per connection
  c2s, s2c,   \* the data stream
  ask,        \* the RESUME in flight: its client_delivered_offset, or -1
  reply,      \* the answer: "none", "ack", "unknown" or "gone", with its offset
  ctl,        \* the control stream: "pending", "open" or "unavailable"
  acking,     \* the APP_ACK tasks that are still at work on it
  ackUp, ackDown, \* the latest APP_ACK in flight
  load        \* what this behaviour carries: bytes of stdin, of the target, connections,
              \* and which APP_ACK tasks may fail on their own

client == <<cst, conn, taken, cbuf, cout, hin, uncounted, stdout, delivered, acked, eof>>
server == <<sst, on, given, sbuf, sout, sin, target, committed, hole>>
net == <<c2s, s2c, ask, reply, ctl, acking, ackUp, ackDown, load>>
vars == <<client, server, net>>

StdinBytes == load.stdin    \* how many bytes the local ssh writes before EOF
TargetBytes == load.target  \* how many bytes the target writes before EOF
MaxConns == load.conns      \* how many connections there are
ConnIds == 1 .. MaxConns

NoReply == [is |-> "none", committed |-> 0]

\* connect_via_relay_resumable has attached and opened the control stream.
Init ==
  /\ load \in Loads
  /\ cst = "pump" /\ conn = 1 /\ taken = 0 /\ cbuf = NewBuffer /\ cout = <<>>
  /\ hin = <<>> /\ uncounted = 0 /\ stdout = <<>> /\ delivered = 0 /\ acked = 0
  /\ eof = FALSE
  /\ sst = "relay" /\ on = 1 /\ given = 0 /\ sbuf = NewBuffer /\ sout = <<>>
  /\ sin = <<>> /\ target = <<>> /\ committed = 0 /\ hole = FALSE
  /\ c2s = [g \in ConnIds |-> <<>>] /\ s2c = [g \in ConnIds |-> <<>>]
  /\ ask = [g \in ConnIds |-> -1] /\ reply = [g \in ConnIds |-> NoReply]
  /\ ctl = [g \in ConnIds |-> IF g = 1 THEN "open" ELSE "pending"]
  /\ acking = [g \in ConnIds |-> IF g = 1 THEN AckTasks ELSE {}]
  /\ ackUp = [g \in ConnIds |-> 0] /\ ackDown = [g \in ConnIds |-> 0]

FirstN(s, n) == SubSeq(s, 1, n)
Without(s, n) == SubSeq(s, n + 1, Len(s))
\* The next n bytes of an input of which `read` have been read.
NextBytes(read, n) == [i \in 1 .. n |-> read + i]
\* How many bytes a read of the stream may return: never past a Fin.
Readable(s) == {n \in 1 .. MaxChunk : n <= Len(s) /\ \A i \in 1 .. n : s[i] # Fin}

(***************************************************************************)
(* Client: pump_c2h.                                                       *)
(***************************************************************************)
CanReadStdin == cst = "pump" /\ ~eof /\ cout = <<>>

\* The trim at the head of the loop; a full buffer polls it.
TrimsReplay ==
  /\ CanReadStdin
  /\ Discarded(cbuf, acked) > 0
  /\ cbuf' = AdvanceStart(cbuf, acked)
  /\ UNCHANGED <<cst, conn, taken, cout, hin, uncounted, stdout, delivered, acked, eof,
                 server, net>>

\* Faulty variant: the read is not bounded by the room in the replay buffer.
ReadsStdinUnbounded(n) ==
  LET bytes == NextBytes(taken, n) IN
  /\ CanReadStdin
  /\ taken + n <= StdinBytes
  /\ taken' = taken + n
  /\ cbuf' = Appended(cbuf, ClientCap, bytes)
  /\ cout' = bytes
  /\ UNCHANGED <<cst, conn, hin, uncounted, stdout, delivered, acked, eof, server, net>>

\* A read bounded by the room left, appended before it is sent.
ReadsStdin(n) ==
  LET bytes == NextBytes(taken, n) IN
  /\ CanReadStdin
  /\ taken + n <= StdinBytes
  /\ n <= RemainingCapacity(cbuf, ClientCap)
  /\ taken' = taken + n
  /\ cbuf' = Appended(cbuf, ClientCap, bytes)
  /\ cout' = bytes
  /\ UNCHANGED <<cst, conn, hin, uncounted, stdout, delivered, acked, eof, server, net>>

\* stdin ends: FIN to the server, and the EOF latch.
ReadsEof ==
  /\ CanReadStdin
  /\ taken = StdinBytes
  /\ ~IsFull(cbuf, ClientCap)
  /\ eof' = TRUE
  /\ c2s' = [c2s EXCEPT ![conn] = Append(@, Fin)]
  /\ UNCHANGED <<cst, conn, taken, cbuf, cout, hin, uncounted, stdout, delivered, acked,
                 server, s2c, ask, reply, ctl, acking, ackUp, ackDown, load>>

\* write_all, here and in replay_and_advance, hands over some bytes at a time.
SendsChunk(n) ==
  /\ cst \in {"pump", "replay"}
  /\ n <= Len(cout)
  /\ c2s' = [c2s EXCEPT ![conn] = @ \o FirstN(cout, n)]
  /\ cout' = Without(cout, n)
  /\ UNCHANGED <<cst, conn, taken, cbuf, hin, uncounted, stdout, delivered, acked, eof,
                 server, s2c, ask, reply, ctl, acking, ackUp, ackDown, load>>

(***************************************************************************)
(* Client: pump_h2c.  stdout is written, flushed, and only then counted.   *)
(***************************************************************************)
\* Faulty variant: bytes count as delivered once they have been read.
ReadsStreamCounting(n) ==
  /\ cst = "pump"
  /\ hin = <<>> /\ uncounted = 0
  /\ n \in Readable(s2c[conn])
  /\ hin' = FirstN(s2c[conn], n)
  /\ delivered' = delivered + n
  /\ s2c' = [s2c EXCEPT ![conn] = Without(@, n)]
  /\ UNCHANGED <<cst, conn, taken, cbuf, cout, uncounted, stdout, acked, eof,
                 server, c2s, ask, reply, ctl, acking, ackUp, ackDown, load>>

ReadsStream(n) ==
  /\ cst = "pump"
  /\ hin = <<>> /\ uncounted = 0
  /\ n \in Readable(s2c[conn])
  /\ hin' = FirstN(s2c[conn], n)
  /\ s2c' = [s2c EXCEPT ![conn] = Without(@, n)]
  /\ UNCHANGED <<cst, conn, taken, cbuf, cout, uncounted, stdout, delivered, acked, eof,
                 server, c2s, ask, reply, ctl, acking, ackUp, ackDown, load>>

WritesStdout(n) ==
  /\ cst = "pump"
  /\ n <= Len(hin)
  /\ stdout' = stdout \o FirstN(hin, n)
  /\ hin' = Without(hin, n)
  /\ uncounted' = uncounted + n
  /\ UNCHANGED <<cst, conn, taken, cbuf, cout, delivered, acked, eof, server, net>>

CountsDelivered ==
  /\ cst = "pump"
  /\ hin = <<>> /\ uncounted > 0
  /\ delivered' = delivered + uncounted
  /\ uncounted' = 0
  /\ UNCHANGED <<cst, conn, taken, cbuf, cout, hin, stdout, acked, eof, server, net>>

\* The server's FIN ends the session once stdin has ended too.
Finishes ==
  /\ cst = "pump"
  /\ eof
  /\ hin = <<>> /\ uncounted = 0
  /\ s2c[conn] # <<>> /\ Head(s2c[conn]) = Fin
  /\ cst' = "over"
  /\ UNCHANGED <<conn, taken, cbuf, cout, hin, uncounted, stdout, delivered, acked, eof,
                 server, net>>

(***************************************************************************)
(* Client: the loss of a connection and the RESUME attempts.               *)
(***************************************************************************)
\* A pump fails or the network changes: both pumps are dropped where they
\* await and the APP_ACK tasks aborted.  What stdout's writer had been handed
\* (k bytes of it) still lands.
\* After the EOF latch there is nothing to resume for.
Disconnects(k) ==
  /\ cst = "pump"
  /\ k <= Len(hin)
  /\ stdout' = stdout \o FirstN(hin, k)
  /\ cst' = IF eof THEN "over" ELSE "down"
  /\ hin' = <<>> /\ uncounted' = 0 /\ cout' = <<>>
  /\ acking' = [acking EXCEPT ![conn] = @ \ {"csend", "crecv"}]
  /\ UNCHANGED <<conn, taken, cbuf, delivered, acked, eof, server,
                 c2s, s2c, ask, reply, ctl, ackUp, ackDown, load>>

\* dial_and_replay or promote_warm_standby_once: a new connection and a RESUME
\* with the offsets of this moment.
SendsResume ==
  /\ cst = "down"
  /\ conn < MaxConns
  /\ cst' = "asked"
  /\ conn' = conn + 1
  /\ ask' = [ask EXCEPT ![conn + 1] = delivered]
  /\ UNCHANGED <<taken, cbuf, cout, hin, uncounted, stdout, delivered, acked, eof, server,
                 c2s, s2c, reply, ctl, acking, ackUp, ackDown, load>>

\* A reject, a dial error, a timeout, or a replay write that fails half-way.
AttemptFails ==
  /\ cst \in {"asked", "replay"}
  /\ reply[conn].is # "gone"
  /\ cst' = "down"
  /\ cout' = <<>>
  /\ UNCHANGED <<conn, taken, cbuf, hin, uncounted, stdout, delivered, acked, eof, server, net>>

\* RESUME_ACK: replay from the server's committed offset, if that is possible.
GetsResumeAck ==
  LET from == reply[conn].committed IN
  /\ cst = "asked"
  /\ reply[conn].is = "ack"
  /\ InRange(cbuf, from)
  /\ cst' = "replay"
  /\ cout' = ReplayFrom(cbuf, from)
  /\ UNCHANGED <<conn, taken, cbuf, hin, uncounted, stdout, delivered, acked, eof, server, net>>

\* The replay is written: trim, reopen the control stream or go on without.
ResumesPumping(opened) ==
  /\ cst = "replay"
  /\ cout = <<>>
  /\ cst' = "pump"
  /\ cbuf' = AdvanceStart(cbuf, reply[conn].committed)
  /\ ctl' = [ctl EXCEPT ![conn] = IF @ = "pending" /\ opened THEN "open" ELSE "unavailable"]
  /\ acking' = [acking EXCEPT ![conn] = IF ctl'[conn] = "open" THEN AckTasks ELSE {}]
  /\ UNCHANGED <<conn, taken, cout, hin, uncounted, stdout, delivered, acked, eof, server,
                 c2s, s2c, ask, reply, ackUp, ackDown, load>>

\* OffsetGone, or a committed offset this client cannot replay from
\* (AttemptFailure::Unrecoverable).
Unrecoverable ==
  /\ cst = "asked"
  /\ \/ reply[conn].is = "gone"
     \/ reply[conn].is = "ack" /\ ~InRange(cbuf, reply[conn].committed)

\* The planner gives up: the window is over, the session is unknown, or it is
\* unrecoverable.
GivesUp ==
  /\ \/ cst = "down"
     \/ Unrecoverable
  /\ cst' = "over"
  /\ UNCHANGED <<conn, taken, cbuf, cout, hin, uncounted, stdout, delivered, acked, eof,
                 server, net>>

(***************************************************************************)
(* Server: relay_buffered.  One loop serves both directions, so it awaits  *)
(* one write at a time.                                                    *)
(***************************************************************************)
AtSelect == sst = "relay" /\ sin = <<>> /\ sout = <<>>

RelayReadsStream(n) ==
  /\ AtSelect
  /\ n \in Readable(c2s[on])
  /\ sin' = FirstN(c2s[on], n)
  /\ c2s' = [c2s EXCEPT ![on] = Without(@, n)]
  /\ UNCHANGED <<client, sst, on, given, sbuf, sout, target, committed, hole,
                 s2c, ask, reply, ctl, acking, ackUp, ackDown, load>>

\* Faulty variant: only a chunk the target has taken to its end is committed.
WritesTargetCommittingLate(n) ==
  /\ sst = "relay"
  /\ n <= Len(sin)
  /\ target' = target \o FirstN(sin, n)
  /\ committed' = IF n = Len(sin) THEN Len(target) + n ELSE committed
  /\ sin' = Without(sin, n)
  /\ UNCHANGED <<client, sst, on, given, sbuf, sout, hole, net>>

\* Each write that the target takes is committed at once.
WritesTarget(n) ==
  /\ sst = "relay"
  /\ n <= Len(sin)
  /\ target' = target \o FirstN(sin, n)
  /\ committed' = committed + n
  /\ sin' = Without(sin, n)
  /\ UNCHANGED <<client, sst, on, given, sbuf, sout, hole, net>>

RelayReadsTarget(n) ==
  LET bytes == NextBytes(given, n) IN
  /\ AtSelect
  /\ given + n <= TargetBytes
  /\ hole \/ n <= RemainingCapacity(sbuf, ServerCap)
  /\ given' = given + n
  /\ sbuf' = IF hole THEN sbuf ELSE Appended(sbuf, ServerCap, bytes)
  /\ sout' = bytes
  /\ UNCHANGED <<client, sst, on, sin, target, committed, hole, net>>

SendsToClient(n) ==
  /\ sst \in {"relay", "ack"}
  /\ n <= Len(sout)
  /\ s2c' = [s2c EXCEPT ![on] = @ \o FirstN(sout, n)]
  /\ sout' = Without(sout, n)
  /\ UNCHANGED <<client, sst, on, given, sbuf, sin, target, committed, hole,
                 c2s, ask, reply, ctl, acking, ackUp, ackDown, load>>

\* Faulty variant: a control stream that never came up is waited for.
GivesUpReplayTooEarly ==
  /\ AtSelect
  /\ ~hole
  /\ ctl[on] = "pending"
  /\ IsFull(sbuf, ServerCap)
  /\ hole' = TRUE
  /\ UNCHANGED <<client, sst, on, given, sbuf, sout, sin, target, committed, net>>

\* The buffer is full and no control stream will ever trim it: the incarnation
\* is made unresumable before the first byte that is not in the buffer.
GivesUpReplay ==
  /\ AtSelect
  /\ ~hole
  /\ ctl[on] = "unavailable"
  /\ IsFull(sbuf, ServerCap)
  /\ hole' = TRUE
  /\ UNCHANGED <<client, sst, on, given, sbuf, sout, sin, target, committed, net>>

\* A handler that returns drops its send stream, which finishes it: the client
\* may see a FIN there before it sees the connection closed.
Drops(fin) == s2c' = IF fin THEN [s2c EXCEPT ![on] = Append(@, Fin)] ELSE s2c

\* The data stream dies (seen while it is read or written), or a RESUME
\* preempts the relay wherever it awaits.  An unresumable session is discarded.
RelayStops(fin) ==
  /\ sst = "relay"
  /\ \/ sin = <<>>
     \/ \E g \in ConnIds : ask[g] >= 0
  /\ sst' = IF hole THEN "gone" ELSE "parked"
  /\ sin' = <<>> /\ sout' = <<>>
  /\ Drops(fin)
  /\ UNCHANGED <<client, on, given, sbuf, target, committed, hole,
                 c2s, ask, reply, ctl, acking, ackUp, ackDown, load>>

\* The target closes (TcpDied): FIN to the client, the session is discarded.
TargetCloses ==
  /\ AtSelect
  /\ given = TargetBytes
  /\ hole \/ ~IsFull(sbuf, ServerCap)
  /\ sst' = "gone"
  /\ Drops(TRUE)
  /\ UNCHANGED <<client, on, given, sbuf, sout, sin, target, committed, hole,
                 c2s, ask, reply, ctl, acking, ackUp, ackDown, load>>

\* A read or a write of the target fails (TcpDied): discarded just the same.
TargetFails(fin) ==
  /\ sst = "relay"
  /\ sout = <<>>
  /\ sin # <<>> \/ hole \/ ~IsFull(sbuf, ServerCap)
  /\ sst' = "gone"
  /\ sin' = <<>>
  /\ Drops(fin)
  /\ UNCHANGED <<client, on, given, sbuf, sout, target, committed, hole,
                 c2s, ask, reply, ctl, acking, ackUp, ackDown, load>>

(***************************************************************************)
(* Server: handle_resume_stream, the sweep, the control-stream timeout.    *)
(***************************************************************************)
\* A grant: the socket and the buffer are this connection's.  The ACK and the
\* replay go out first; an offset that is gone parks the socket again.
GrantsResume(g) ==
  LET found == InRange(sbuf, ask[g]) IN
  /\ ask[g] >= 0
  /\ sst = "parked"
  /\ ask' = [ask EXCEPT ![g] = -1]
  /\ reply' = [reply EXCEPT ![g] = [is |-> IF found THEN "ack" ELSE "gone",
                                    committed |-> committed]]
  /\ sst' = IF found THEN "ack" ELSE "parked"
  /\ on' = IF found THEN g ELSE on
  /\ sout' = IF found THEN ReplayFrom(sbuf, ask[g]) ELSE <<>>
  /\ UNCHANGED <<client, given, sbuf, sin, target, committed, hole,
                 c2s, s2c, ctl, acking, ackUp, ackDown, load>>

\* Nothing parked, even after the bounded wait for a preempted relay.
RejectsResume(g) ==
  /\ ask[g] >= 0
  /\ sst # "parked"
  /\ ask' = [ask EXCEPT ![g] = -1]
  /\ reply' = [reply EXCEPT ![g] = [is |-> "unknown", committed |-> 0]]
  /\ UNCHANGED <<client, server, c2s, s2c, ctl, acking, ackUp, ackDown, load>>

AckWritten ==
  /\ sst = "ack"
  /\ sout = <<>>
  /\ sst' = "relay"
  /\ UNCHANGED <<client, on, given, sbuf, sout, sin, target, committed, hole, net>>

\* write_resume_ack_bounded fails or times out; it resets the stream, so that
\* no FIN follows the truncated replay.
AckFails ==
  /\ sst = "ack"
  /\ sst' = "parked"
  /\ sout' = <<>>
  /\ UNCHANGED <<client, on, given, sbuf, sin, target, committed, hole, net>>

\* The window passes, or the session is evicted.
Sweeps ==
  /\ sst = "parked"
  /\ sst' = "gone"
  /\ UNCHANGED <<client, on, given, sbuf, sout, sin, target, committed, hole, net>>

ControlTimesOut ==
  /\ sst = "relay"
  /\ ctl[on] = "pending"
  /\ ctl' = [ctl EXCEPT ![on] = "unavailable"]
  /\ UNCHANGED <<client, server, c2s, s2c, ask, reply, acking, ackUp, ackDown, load>>

(***************************************************************************)
(* APP_ACK, both ways.  The offsets are cumulative, so of the frames in    *)
(* flight the last one counts.  The server's tasks outlive the relay that  *)
(* started them: an old connection's APP_ACK may arrive late.              *)
(***************************************************************************)

\* A loop breaks on an error of the control stream, or on a frame it does not
\* know, although the data stream lives.  Nobody is told: ctl stays "open".
AckTaskFails(g, task) ==
  /\ task \in load.frail \cap acking[g]
  /\ acking' = [acking EXCEPT ![g] = @ \ {task}]
  /\ UNCHANGED <<client, server, c2s, s2c, ask, reply, ctl, ackUp, ackDown, load>>

\* recv_done_rx: the client's send loop ends with its receive loop.
AckSenderStops ==
  /\ cst = "pump"
  /\ "csend" \in acking[conn] /\ "crecv" \notin acking[conn]
  /\ acking' = [acking EXCEPT ![conn] = @ \ {"csend"}]
  /\ UNCHANGED <<client, server, c2s, s2c, ask, reply, ctl, ackUp, ackDown, load>>

SendsAppAck ==
  /\ cst = "pump"
  /\ "csend" \in acking[conn]
  /\ ackUp[conn] # delivered
  /\ ackUp' = [ackUp EXCEPT ![conn] = delivered]
  /\ UNCHANGED <<client, server, c2s, s2c, ask, reply, ctl, acking, ackDown, load>>

ServerGetsAppAck(g) ==
  /\ "srecv" \in acking[g]
  /\ Discarded(sbuf, ackUp[g]) > 0
  /\ sbuf' = AdvanceStart(sbuf, ackUp[g])
  /\ UNCHANGED <<client, sst, on, given, sout, sin, target, committed, hole, net>>

\* Faulty variant: bytes the target has not taken yet are acknowledged.
ServerSendsAppAckEarly(g) ==
  /\ "ssend" \in acking[g]
  /\ ackDown[g] # committed + Len(sin)
  /\ ackDown' = [ackDown EXCEPT ![g] = committed + Len(sin)]
  /\ UNCHANGED <<client, server, c2s, s2c, ask, reply, ctl, acking, ackUp, load>>

ServerSendsAppAck(g) ==
  /\ "ssend" \in acking[g]
  /\ ackDown[g] # committed
  /\ ackDown' = [ackDown EXCEPT ![g] = committed]
  /\ UNCHANGED <<client, server, c2s, s2c, ask, reply, ctl, acking, ackUp, load>>

\* Faulty variant: the monotonicity check is the wrong way round.
GetsAppAckStale ==
  /\ cst = "pump"
  /\ "crecv" \in acking[conn]
  /\ ackDown[conn] < acked
  /\ acked' = ackDown[conn]
  /\ UNCHANGED <<cst, conn, taken, cbuf, cout, hin, uncounted, stdout, delivered, eof,
                 server, net>>

GetsAppAck ==
  /\ cst = "pump"
  /\ "crecv" \in acking[conn]
  /\ ackDown[conn] > acked
  /\ acked' = ackDown[conn]
  /\ UNCHANGED <<cst, conn, taken, cbuf, cout, hin, uncounted, stdout, delivered, eof,
                 server, net>>

(***************************************************************************)
(* The specification.                                                      *)
(***************************************************************************)
Chunks == 1 .. MaxChunk
Writes == 1 .. (IF ClientCap > ServerCap THEN ClientCap ELSE ServerCap)

ClientPumps ==
  \/ TrimsReplay \/ ReadsEof \/ CountsDelivered \/ Finishes
  \/ \E n \in Chunks : ReadsStdin(n) \/ ReadsStream(n) \/ WritesStdout(n)
  \/ \E n \in Writes : SendsChunk(n)

ClientResumes ==
  \/ SendsResume \/ GetsResumeAck
  \/ \E opened \in BOOLEAN : ResumesPumping(opened)

ServerRelays ==
  \/ GivesUpReplay \/ AckWritten
  \/ \E n \in Chunks : RelayReadsStream(n) \/ WritesTarget(n) \/ RelayReadsTarget(n)
  \/ \E n \in Writes : SendsToClient(n)

AppAcks ==
  \/ SendsAppAck \/ GetsAppAck \/ AckSenderStops
  \/ \E g \in ConnIds : ServerGetsAppAck(g) \/ ServerSendsAppAck(g)

Failures ==
  \/ \E k \in 0 .. MaxChunk : Disconnects(k)
  \/ \E fin \in BOOLEAN : RelayStops(fin) \/ TargetFails(fin)
  \/ \E g \in ConnIds, task \in AckTasks : AckTaskFails(g, task)
  \/ AckFails \/ AttemptFails \/ GivesUp \/ Sweeps \/ ControlTimesOut \/ TargetCloses

Next ==
  \/ ClientPumps \/ ClientResumes \/ ServerRelays \/ AppAcks \/ Failures
  \/ \E g \in ConnIds : GrantsResume(g) \/ RejectsResume(g)

Spec == Init /\ [][Next]_vars

\* The runtime polls every runnable task.  A RESUME attempt ends by its timeouts
\* and the resume window ends an episode.  An end whose peer has left the
\* connection finds out (idle timeout, reset), except a client that has read the
\* FIN of the stream: it waits for a write to fail.
PeerLeft == ~(sst \in {"relay", "ack"} /\ on = conn) /\ Fin \notin {s2c[conn][i] : i \in DOMAIN s2c[conn]}
ClientLeft == conn # on \/ cst \in {"down", "over"}
FairSpec ==
  /\ Spec
  /\ WF_vars(ClientPumps) /\ WF_vars(ClientResumes)
  /\ WF_vars(ServerRelays) /\ WF_vars(AppAcks)
  /\ WF_vars(\E g \in ConnIds : GrantsResume(g) \/ RejectsResume(g))
  /\ WF_vars(AttemptFails) /\ WF_vars(GivesUp) /\ WF_vars(ControlTimesOut)
  /\ WF_vars(PeerLeft /\ Disconnects(0))
  /\ WF_vars(ClientLeft /\ RelayStops(FALSE))

(***************************************************************************)
(* Properties.                                                             *)
(***************************************************************************)
Runs(start, data) == \A i \in DOMAIN data : data[i] = start + i
IsBuffer(buf, cap) == buf.start \in Nat /\ Len(buf.data) <= cap

\* The variables have their types and the buffers keep within their capacity.
TypeOK ==
  /\ cst \in {"pump", "down", "asked", "replay", "over"}
  /\ sst \in {"relay", "ack", "parked", "gone"}
  /\ conn \in ConnIds /\ on \in ConnIds
  /\ taken \in 0 .. StdinBytes /\ given \in 0 .. TargetBytes
  /\ IsBuffer(cbuf, ClientCap) /\ IsBuffer(sbuf, ServerCap)
  /\ {uncounted, delivered, acked, committed} \subseteq Nat
  /\ eof \in BOOLEAN /\ hole \in BOOLEAN
  /\ ask \in [ConnIds -> -1 .. TargetBytes]
  /\ \A g \in ConnIds : reply[g].is \in {"none", "ack", "unknown", "gone"}
  /\ ctl \in [ConnIds -> {"pending", "open", "unavailable"}]
  /\ acking \in [ConnIds -> SUBSET AckTasks]
  /\ ackUp \in [ConnIds -> Nat] /\ ackDown \in [ConnIds -> Nat]

\* quicmux/src/resume.rs, advance_start: later appends stay "correctly
\* labelled".  Each end's buffer holds the bytes its offsets say, up to the last
\* byte it has read, so a replay never hands a peer bytes under wrong offsets.
ReplayIsLabelled ==
  /\ Runs(cbuf.start, cbuf.data) /\ EndOffset(cbuf) = taken
  /\ Runs(sbuf.start, sbuf.data) /\ (~hole => EndOffset(sbuf) = given)

\* What PLAN.md, Phase 8, promises of stdin to the target: whatever is lost,
\* preempted half-way through a write or replayed, the target receives the bytes
\* of stdin without loss, duplication or reordering.
Upstream == INSTANCE ReliableStream WITH output <- target
InputIsReliable == Upstream!Spec

\* The other way: no byte of the target is skipped on its way to stdout, over
\* all the connections together.
OutputHasNoGap ==
  \A i \in DOMAIN stdout : \A b \in 1 .. stdout[i] : \E j \in 1 .. i : stdout[j] = b

\* As long as the delivered offset accounts for every byte on stdout, stdout is
\* exactly what the target wrote so far.
OutputExactWhenCounted ==
  Len(stdout) = delivered + uncounted => Runs(0, stdout)

\* PLAN.md, Phase 8: bytes are delivered "without loss, duplication or
\* reordering".  stdout is exactly what the target wrote so far.
OutputIsExact == Runs(0, stdout)

\* A session is never given up because the two ends' offsets cannot be
\* reconciled: neither OffsetGone nor a committed offset outside the client's
\* replay buffer is ever met, however late an APP_ACK trims a buffer.
NeverUnrecoverable == ~Unrecoverable

\* Where a direction may stop for good.  The client has read the server's FIN and
\* waits for a write to fail; or a replay buffer is full and the loops that would
\* have it trimmed have ended.  Of the output that is what AppAckUnavailable's
\* comment calls a known limitation: the control stream died after it was up.
SeenFin == \E i \in DOMAIN s2c[conn] : s2c[conn][i] = Fin
OutputStalled ==
  /\ IsFull(sbuf, ServerCap) /\ ~hole
  /\ ctl[conn] = "open" /\ ~({"csend", "srecv"} \subseteq acking[conn])
InputStalled == IsFull(cbuf, ClientCap) /\ ~({"ssend", "crecv"} \subseteq acking[conn])

\* A control stream that never comes up does not wedge the output (PIPE-09), nor
\* does a full buffer: all of it reaches stdout or the session is over, unless
\* the behaviour ends in one of the two situations above.
OutputArrives ==
  <>(cst = "over" \/ delivered = TargetBytes) \/ <>[]SeenFin \/ <>[]OutputStalled

\* A full C2H buffer is trimmed and stdin flows again, however often the
\* connection is lost, unless the last one has no loops that acknowledge.
InputArrivesWhenAcked ==
  <>(cst = "over" \/ Len(target) = StdinBytes) \/ <>[]SeenFin \/ <>[]InputStalled

=============================================================================
