------------------------------ MODULE TtyDaemon ------------------------------
(***************************************************************************)
(* `isekai-pipe tty daemon` (isekai-pipe/src/tty/daemon.rs, attach_slot.rs *)
(* and ring_buffer.rs): one process that owns a shell behind a pty and     *)
(* relays it to whichever `tty attach` client came last.  The pty read     *)
(* loop, the task of run() and, for each client, a reader and a writer     *)
(* task run concurrently; they share the AttachSlot under one lock.        *)
(*                                                                         *)
(* The shell's output is a sequence of numbered chunks.  The ring buffer   *)
(* keeps the last RingCap of those broadcast, so the count of broadcast    *)
(* chunks stands for it.  Abstracted: the contents of frames, the soft     *)
(* reset, window sizes, peer credentials and the lock file of a name.      *)
(***************************************************************************)
EXTENDS Naturals, Sequences

CONSTANTS
  Clients,     \* connections to the daemon's socket
  NoClient,    \* the empty slot
  RingCap,     \* RING_BUFFER_CAPACITY, in chunks
  ChanCap,     \* OCCUPANT_CHANNEL_CAPACITY
  Attempts,    \* NOTIFY_EXIT_RETRY_ATTEMPTS
  Loads        \* bound: how much output, and how many Stdin frames, there may be

ASSUME TtyAssumption ==
  /\ NoClient \notin Clients
  /\ RingCap \in Nat \ {0} /\ ChanCap \in Nat \ {0} /\ Attempts \in Nat \ {0}
  /\ Loads \subseteq [output : Nat, stdin : Nat]

VARIABLES
  shell,     \* is the child process running?
  written,   \* chunks the shell has written to the pty
  out,       \* chunks broadcast: SlotState.ring is the last of them
  gen,       \* SlotState.generation
  occupant,  \* SlotState.occupant
  missed,    \* SlotState.missed
  chan,      \* the occupant channel made for each client
  reader,    \* where handle_client's own loop is, per client
  writer,    \* where its writer task is
  mine,      \* the generation a client was installed with
  frame,     \* the chunks of the Stdout frame being written to a client
  seen,      \* the chunks a client has been sent
  got,       \* the last word a client has been sent: Exit, Preempted
  stale,     \* frames of a client that reached the pty after its preemption
  main,      \* where run() is
  tries,     \* attempts notify_exit has made
  timedOut,  \* did READ_LOOP_DRAIN_TIMEOUT expire?
  left       \* what the shell and the clients may still write

slot == <<gen, occupant, missed>>
pty == <<shell, written, out>>
client == <<mine, frame, seen, got, stale>>
run == <<main, tries, timedOut>>
vars == <<pty, slot, chan, reader, writer, client, run, left>>

Exit == 0   \* RelayMsg::Exit; a positive number is RelayMsg::Data
Latest(n) == {k \in 1 .. n : k + RingCap > n}
Replay == Latest(out)   \* RingBuffer::replay

Init ==
  /\ shell = "running" /\ written = 0 /\ out = 0
  /\ gen = 0 /\ occupant = NoClient /\ missed = FALSE
  /\ chan = [c \in Clients |-> <<>>]
  /\ reader = [c \in Clients |-> "off"]
  /\ writer = [c \in Clients |-> "off"]
  /\ mine = [c \in Clients |-> 0]
  /\ frame = [c \in Clients |-> {}]
  /\ seen = [c \in Clients |-> {}]
  /\ got = [c \in Clients |-> "nothing"]
  /\ stale = [c \in Clients |-> 0]
  /\ main = "waiting" /\ tries = 0 /\ timedOut = FALSE
  /\ left \in Loads

IsCurrent(c) == gen = mine[c]
Goto(pc, c, where) == [pc EXCEPT ![c] = where]

\* try_send: the receiver lives in handle_client and then in its writer task.
Receiving(c) == reader[c] = "ack" \/ writer[c] \notin {"off", "end"}
CanSend(c) == Receiving(c) /\ Len(chan[c]) < ChanCap
Send(c, msg) == [chan EXCEPT ![c] = Append(@, msg)]
Closed(c) == [chan EXCEPT ![c] = <<>>]

-----------------------------------------------------------------------------
(* The shell and the pty read loop. *)

ShellWrites ==
  /\ shell = "running" /\ left.output > 0
  /\ left' = [left EXCEPT !.output = @ - 1]
  /\ written' = written + 1
  /\ UNCHANGED <<shell, out, slot, chan, reader, writer, client, run>>

ShellExits ==
  /\ shell = "running"
  /\ shell' = "exited"
  /\ UNCHANGED <<written, out, slot, chan, reader, writer, client, run, left>>

\* The chunk goes to the ring and, if there is room, to the occupant.
Broadcast ==
  /\ out < written
  /\ out' = out + 1
  /\ CASE occupant = NoClient -> UNCHANGED <<chan, missed>>
       [] occupant # NoClient /\ CanSend(occupant) ->
            chan' = Send(occupant, out') /\ UNCHANGED missed
       [] OTHER -> missed' = TRUE /\ UNCHANGED chan
  /\ UNCHANGED <<shell, written, gen, occupant, reader, writer, client, run, left>>

-----------------------------------------------------------------------------
(* handle_client: the handshake.  A connection without a Hello in time, or *)
(* whose resize fails, ends here and leaves no trace.                      *)

\* AttachSlot::install: the swap, which drops the sender of the previous
\* occupant, and the snapshot of the ring, under one lock.
Installs(c) ==
  /\ reader[c] = "off"
  /\ gen' = gen + 1 /\ occupant' = c /\ missed' = FALSE
  /\ mine' = [mine EXCEPT ![c] = gen']
  /\ frame' = [frame EXCEPT ![c] = Replay]
  /\ reader' = Goto(reader, c, "ack")
  /\ UNCHANGED <<pty, chan, writer, seen, got, stale, run, left>>

\* HelloAck and the replay are written and the writer task is spawned; if a write
\* fails, `?` returns at once, and the slot keeps the sender.
Acknowledges(c) ==
  /\ reader[c] = "ack"
  /\ \/ /\ seen' = [seen EXCEPT ![c] = frame[c]]
        /\ reader' = Goto(reader, c, "read") /\ writer' = Goto(writer, c, "check")
        /\ UNCHANGED chan
     \/ /\ reader' = Goto(reader, c, "end")
        /\ chan' = Closed(c)
        /\ UNCHANGED <<seen, writer>>
  /\ frame' = [frame EXCEPT ![c] = {}]
  /\ UNCHANGED <<pty, slot, mine, got, stale, run, left>>

-----------------------------------------------------------------------------
(* The writer task of a client. *)

\* take_missed
ChecksMissed(c) ==
  LET resync == IsCurrent(c) /\ missed IN
  /\ writer[c] = "check"
  /\ missed' = (missed /\ ~resync)
  /\ writer' = Goto(writer, c, IF resync THEN "snapshot" ELSE "recv")
  /\ UNCHANGED <<pty, gen, occupant, chan, reader, client, run, left>>

\* current_replay, after a drop or before an Exit.
TakesSnapshot(c) ==
  /\ writer[c] \in {"snapshot", "exitSnapshot"}
  /\ frame' = [frame EXCEPT ![c] = Replay]
  /\ writer' = Goto(writer, c, IF writer[c] = "snapshot" THEN "resync" ELSE "exitSync")
  /\ UNCHANGED <<pty, slot, chan, reader, mine, seen, got, stale, run, left>>

\* rx.recv(); None once the sender was dropped and the queue is empty.
Receives(c) ==
  /\ writer[c] = "recv"
  /\ \/ /\ chan[c] # <<>>
        /\ chan' = [chan EXCEPT ![c] = Tail(@)]
        /\ IF Head(chan[c]) = Exit
             THEN writer' = Goto(writer, c, "exitSnapshot") /\ UNCHANGED frame
             ELSE /\ writer' = Goto(writer, c, "forward")
                  /\ frame' = [frame EXCEPT ![c] = {Head(chan[c])}]
     \/ /\ chan[c] = <<>> /\ occupant # c
        /\ writer' = Goto(writer, c, "preempt")
        /\ UNCHANGED <<chan, frame>>
  /\ UNCHANGED <<pty, slot, reader, mine, seen, got, stale, run, left>>

\* The frame reaches the client's socket, however slow the client is to read it.
Writes(c) ==
  LET after == [resync |-> "recv", forward |-> "check", exitSync |-> "exit"] IN
  /\ writer[c] \in DOMAIN after
  /\ seen' = [seen EXCEPT ![c] = @ \cup frame[c]]
  /\ frame' = [frame EXCEPT ![c] = {}]
  /\ writer' = Goto(writer, c, after[writer[c]])
  /\ UNCHANGED <<pty, slot, chan, reader, mine, got, stale, run, left>>

WritesLastWord(c) ==
  LET words == [exit |-> "Exit", preempt |-> "Preempted"] IN
  /\ writer[c] \in DOMAIN words
  /\ got' = [got EXCEPT ![c] = words[writer[c]]]
  /\ writer' = Goto(writer, c, "end") /\ chan' = Closed(c)
  /\ UNCHANGED <<pty, slot, reader, mine, frame, seen, stale, run, left>>

\* The client is gone.
WriteFails(c) ==
  /\ writer[c] \in {"resync", "forward", "exitSync", "exit", "preempt"}
  /\ writer' = Goto(writer, c, "end") /\ chan' = Closed(c)
  /\ frame' = [frame EXCEPT ![c] = {}]
  /\ UNCHANGED <<pty, slot, reader, mine, seen, got, stale, run, left>>

-----------------------------------------------------------------------------
(* The reader loop of a client. *)

\* A Stdin frame arrives, or the connection ends.
ReadsFrame(c) ==
  /\ reader[c] = "read"
  /\ \/ /\ left.stdin > 0
        /\ left' = [left EXCEPT !.stdin = @ - 1]
        /\ reader' = Goto(reader, c, "frame")
     \/ /\ reader' = Goto(reader, c, "vacate")
        /\ UNCHANGED left
  /\ UNCHANGED <<pty, slot, chan, writer, mine, frame, seen, got, stale, run>>

\* Faulty variant: the generation is not checked again for each frame.
ChecksCurrentOnce(c) ==
  /\ reader[c] = "frame"
  /\ reader' = Goto(reader, c, "write")
  /\ UNCHANGED <<pty, slot, chan, writer, client, run, left>>

\* is_current, which takes the lock and gives it back.
ChecksCurrent(c) ==
  /\ reader[c] = "frame"
  /\ reader' = Goto(reader, c, IF IsCurrent(c) THEN "write" ELSE "vacate")
  /\ UNCHANGED <<pty, slot, chan, writer, client, run, left>>

\* write_all to the pty, without the lock, or its error.
WritesPty(c) ==
  /\ reader[c] = "write"
  /\ \/ /\ stale' = [stale EXCEPT ![c] = IF IsCurrent(c) THEN @ ELSE @ + 1]
        /\ reader' = Goto(reader, c, "read")
     \/ /\ reader' = Goto(reader, c, "vacate")
        /\ UNCHANGED stale
  /\ UNCHANGED <<pty, slot, chan, writer, mine, frame, seen, got, run, left>>

\* Faulty variant: whoever leaves clears the slot.
VacatesAlways(c) ==
  /\ reader[c] = "vacate"
  /\ occupant' = NoClient
  /\ reader' = Goto(reader, c, "abort")
  /\ UNCHANGED <<pty, gen, missed, chan, writer, client, run, left>>

Vacates(c) ==
  /\ reader[c] = "vacate"
  /\ occupant' = IF IsCurrent(c) THEN NoClient ELSE occupant
  /\ reader' = Goto(reader, c, "abort")
  /\ UNCHANGED <<pty, gen, missed, chan, writer, client, run, left>>

\* writer_task.abort()
Aborts(c) ==
  /\ reader[c] = "abort"
  /\ reader' = Goto(reader, c, "end") /\ writer' = Goto(writer, c, "end")
  /\ chan' = Closed(c) /\ frame' = [frame EXCEPT ![c] = {}]
  /\ UNCHANGED <<pty, slot, mine, seen, got, stale, run, left>>

-----------------------------------------------------------------------------
(* run(), after the shell has exited. *)

WaitReturns ==
  /\ main = "waiting" /\ shell = "exited"
  /\ main' = "draining"
  /\ UNCHANGED <<pty, slot, chan, reader, writer, client, tries, timedOut, left>>

\* Faulty variant: notify_exit does not wait for the read loop.
DrainsNothing ==
  /\ main = "draining"
  /\ main' = "notifying"
  /\ UNCHANGED <<pty, slot, chan, reader, writer, client, tries, timedOut, left>>

\* The read loop has met the end of the pty.
Drains ==
  /\ main = "draining" /\ out = written
  /\ main' = "notifying"
  /\ UNCHANGED <<pty, slot, chan, reader, writer, client, tries, timedOut, left>>

DrainTimesOut ==
  /\ main = "draining" /\ out < written
  /\ main' = "notifying" /\ timedOut' = TRUE
  /\ UNCHANGED <<pty, slot, chan, reader, writer, client, tries, left>>

\* Faulty variant: the exit is retried until the occupant takes it.
NotifiesUntilTaken ==
  /\ main = "notifying"
  /\ occupant # NoClient => CanSend(occupant)
  /\ main' = "grace"
  /\ chan' = IF occupant = NoClient THEN chan ELSE Send(occupant, Exit)
  /\ UNCHANGED <<pty, slot, reader, writer, client, tries, timedOut, left>>

\* One attempt of notify_exit.
NotifiesExit ==
  LET sends == occupant # NoClient /\ CanSend(occupant)
      over == occupant = NoClient \/ sends \/ tries + 1 = Attempts
  IN
  /\ main = "notifying"
  /\ main' = IF over THEN "grace" ELSE main
  /\ tries' = IF occupant = NoClient \/ sends THEN tries ELSE tries + 1
  /\ chan' = IF sends THEN Send(occupant, Exit) ELSE chan
  /\ UNCHANGED <<pty, slot, reader, writer, client, timedOut, left>>

\* EXIT_NOTIFY_GRACE is over; the process ends, and every task with it.
Ends ==
  /\ main = "grace"
  /\ main' = "over"
  /\ UNCHANGED <<pty, slot, chan, reader, writer, client, tries, timedOut, left>>

-----------------------------------------------------------------------------
RunStep == WaitReturns \/ Drains \/ DrainTimesOut \/ NotifiesExit \/ Ends

ClientStep(c) ==
  \/ Installs(c) \/ Acknowledges(c)
  \/ ChecksMissed(c) \/ TakesSnapshot(c) \/ Receives(c) \/ Writes(c)
  \/ WritesLastWord(c) \/ WriteFails(c)
  \/ ReadsFrame(c) \/ ChecksCurrent(c) \/ WritesPty(c) \/ Vacates(c) \/ Aborts(c)

Next ==
  /\ main # "over"
  /\ \/ ShellWrites \/ ShellExits \/ Broadcast \/ RunStep
     \/ \E c \in Clients : ClientStep(c)

Spec == Init /\ [][Next]_vars

(* Only the task of run() is assumed to go on: its waits are bounded by    *)
(* timers.  Nothing is assumed of the clients, of their tasks (which may   *)
(* be stuck in a write to a client that does not read) or of the read loop. *)
FairSpec == Spec /\ WF_vars(main # "over" /\ RunStep)

-----------------------------------------------------------------------------
\* The chunks the writer of c will still take from its channel before an Exit.
Queued(c) == {chan[c][i] : i \in DOMAIN chan[c]} \ {Exit}

\* The client came last and its handler and writer are still at work.
Attached(c) ==
  /\ IsCurrent(c) /\ reader[c] \in {"ack", "read", "frame", "write"}
  /\ Receiving(c) /\ writer[c] \notin {"exitSync", "exit"}

\* The writer of c is certain to send the ring again: the drop is flagged and it
\* will not fall asleep before it looks, or it has looked, or an Exit is coming.
ResyncIsComing(c) ==
  \/ missed /\ (writer[c] = "recv" => chan[c] # <<>>)
  \/ writer[c] \in {"snapshot", "exitSnapshot"}
  \/ \E i \in DOMAIN chan[c] : chan[c][i] = Exit

\* attach_slot.rs: "a dropped live chunk is recovered via take_missed's resync,
\* not lost".  Whatever the occupant's channel had no room for, each chunk of
\* the ring has been sent to the attached client, is on its way to it, or is
\* covered by a resync that will come without any further output; and no
\* preempted client that leaves late takes the slot from its successor.
NothingIsLost ==
  \A c \in Clients :
    Attached(c) => Replay \subseteq seen[c] \cup frame[c] \cup Queued(c) \/ ResyncIsComing(c)

\* daemon.rs: notify_exit "can no longer race ahead" of the output.  A client
\* that is told of the exit has been sent the shell's last chunks, as many as the
\* ring holds, unless the pty did not drain in time.
ExitComesLast ==
  \A c \in Clients : got[c] = "Exit" /\ ~timedOut => Latest(written) \subseteq seen[c]

\* Of a client that was preempted, one frame at most, the one whose check came
\* before the preemption, still reaches the shell of its successor.
StaleInputIsOneFrame == \A c \in Clients : stale[c] <= 1

\* Daemon lifetime = shell lifetime: after the shell has exited the daemon ends,
\* even while a client that does not read keeps its writer task stuck.
DaemonEnds == shell = "exited" ~> main = "over"
=============================================================================
