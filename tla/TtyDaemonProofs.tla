--------------------------- MODULE TtyDaemonProofs ---------------------------
(***************************************************************************)
(* What the tty daemon promises, for every number of clients, every ring   *)
(* and channel capacity, and any amount of output and input: the output    *)
(* reaches the client that came last (NothingIsLost), an Exit comes after  *)
(* it (ExitComesLast) and a preempted client's input is cut off after one  *)
(* frame (StaleInputIsOneFrame).                                           *)
(***************************************************************************)
EXTENDS TtyDaemon, TLAPS

Readers == {"off", "ack", "read", "frame", "write", "vacate", "abort", "end"}
Writers == {"off", "check", "snapshot", "resync", "recv", "forward", "exitSnapshot",
            "exitSync", "exit", "preempt", "end"}

TypeOK ==
  /\ shell \in {"running", "exited"} /\ written \in Nat /\ out \in Nat
  /\ gen \in Nat /\ occupant \in Clients \cup {NoClient} /\ missed \in BOOLEAN
  /\ chan \in [Clients -> Seq(Nat)]
  /\ reader \in [Clients -> Readers] /\ writer \in [Clients -> Writers]
  /\ mine \in [Clients -> Nat] /\ stale \in [Clients -> Nat]
  /\ frame \in [Clients -> SUBSET Nat] /\ seen \in [Clients -> SUBSET Nat]
  /\ got \in [Clients -> {"nothing", "Exit", "Preempted"}]
  /\ main \in {"waiting", "draining", "notifying", "grace", "over"}
  /\ tries \in Nat /\ timedOut \in BOOLEAN
  /\ left \in [output : Nat, stdin : Nat]

\* The message n is in the channel q.
Has(q, n) == \E i \in DOMAIN q : q[i] = n

\* No two clients were installed with one generation, so the client of the current
\* generation is the only one, and it is in the slot until it vacates it.
SlotInv ==
  /\ \A c \in Clients :
       /\ mine[c] <= gen
       /\ reader[c] \in {"off", "ack"} => writer[c] = "off" /\ seen[c] = {}
       /\ reader[c] \in {"ack", "read", "frame", "write", "vacate"} /\ mine[c] = gen => occupant = c
  /\ occupant # NoClient => mine[occupant] = gen /\ reader[occupant] # "off"
  /\ \A c, d \in Clients :
       reader[c] # "off" /\ reader[d] # "off" /\ mine[c] = mine[d] => c = d

\* A client whose frame reached the pty after its preemption does not pass the check again.
StaleInv ==
  \A c \in Clients :
    stale[c] # 0 => stale[c] = 1 /\ mine[c] < gen /\ reader[c] \notin {"off", "write"}

\* The writer of c is past the Exit in its channel.
Exiting(c) == writer[c] \in {"exitSnapshot", "exitSync", "exit"} \/ got[c] = "Exit"

\* The read loop has stopped before anyone hears of an Exit, or the drain timed out.
ExitInv ==
  /\ out <= written
  /\ main # "waiting" => shell = "exited"
  /\ main \in {"notifying", "grace", "over"} => timedOut \/ out = written
  /\ \A c \in Clients :
       /\ Exiting(c) \/ Has(chan[c], Exit) => main \in {"grace", "over"}
       /\ writer[c] = "exitSync" /\ ~timedOut => Replay \subseteq frame[c]
       /\ (writer[c] = "exit" \/ got[c] = "Exit") /\ ~timedOut => Replay \subseteq seen[c]

\* A writer holds a frame only while it writes it, and it never goes to sleep on an
\* empty channel while the flag says that a chunk of the current client was dropped.
WriterInv ==
  \A c \in Clients :
    /\ writer[c] \in {"check", "snapshot", "recv", "exitSnapshot"} => frame[c] = {}
    /\ mine[c] = gen /\ writer[c] \in {"snapshot", "resync", "recv"} /\ missed => chan[c] # <<>>

\* NothingIsLost: each chunk of the ring is on its way to the attached client, or the
\* whole ring is.
Covers(c) == \A k \in Replay : k \in seen[c] \/ k \in frame[c] \/ Has(chan[c], k)
Coming(c) ==
  \/ missed /\ (writer[c] = "recv" => chan[c] # <<>>)
  \/ writer[c] \in {"snapshot", "exitSnapshot"}
  \/ Has(chan[c], Exit)
KeptInv == \A c \in Clients : Attached(c) => Covers(c) \/ Coming(c)

IInv == TypeOK /\ SlotInv /\ StaleInv /\ ExitInv /\ WriterInv /\ KeptInv

\* What is in a channel after a message was sent, and after one was taken.
LEMMA AppendHas ==
  ASSUME NEW q \in Seq(Nat), NEW m \in Nat
  PROVE  /\ Append(q, m) \in Seq(Nat) /\ Append(q, m) # <<>> /\ Has(Append(q, m), m)
         /\ \A n : Has(q, n) => Has(Append(q, m), n)
         /\ \A n : Has(Append(q, m), n) => n = m \/ Has(q, n)
<1>1. /\ Append(q, m) \in Seq(Nat) /\ Len(Append(q, m)) = Len(q) + 1
      /\ Append(q, m)[Len(q) + 1] = m /\ Len(q) \in Nat
      /\ \A i \in 1 .. Len(q) : Append(q, m)[i] = q[i]
  OBVIOUS
<1>2. DOMAIN q = 1 .. Len(q) /\ DOMAIN Append(q, m) = 1 .. Len(q) + 1
  BY <1>1
<1>3. Has(Append(q, m), m)
  BY <1>1, <1>2 DEF Has
<1>4. ASSUME NEW n, Has(q, n) PROVE Has(Append(q, m), n)
  <2>1. PICK i \in 1 .. Len(q) : q[i] = n
    BY <1>2, <1>4 DEF Has
  <2>2. i \in 1 .. Len(q) + 1 /\ Append(q, m)[i] = n
    BY <1>1, <2>1
  <2> QED BY <1>2, <2>2 DEF Has
<1>5. ASSUME NEW n, Has(Append(q, m), n) PROVE n = m \/ Has(q, n)
  <2>1. PICK i \in 1 .. Len(q) + 1 : Append(q, m)[i] = n
    BY <1>2, <1>5 DEF Has
  <2>2. i = Len(q) + 1 \/ i \in 1 .. Len(q)
    BY <1>1
  <2> QED BY <1>1, <1>2, <2>1, <2>2 DEF Has
<1>6. Append(q, m) # <<>>
  BY <1>1
<1> QED BY <1>1, <1>3, <1>4, <1>5, <1>6

LEMMA EmptyHas == \A n : ~Has(<<>>, n)
BY DEF Has

LEMMA TailHas ==
  ASSUME NEW q \in Seq(Nat), q # <<>>
  PROVE  /\ Head(q) \in Nat /\ Tail(q) \in Seq(Nat) /\ Has(q, Head(q))
         /\ \A n : Has(Tail(q), n) => Has(q, n)
         /\ \A n : Has(q, n) => n = Head(q) \/ Has(Tail(q), n)
<1>1. /\ Head(q) \in Nat /\ Head(q) = q[1] /\ Tail(q) \in Seq(Nat) /\ Len(q) \in Nat \ {0}
      /\ Len(Tail(q)) = Len(q) - 1
      /\ \A i \in 1 .. Len(q) - 1 : Tail(q)[i] = q[i + 1]
  OBVIOUS
<1>2. DOMAIN q = 1 .. Len(q) /\ DOMAIN Tail(q) = 1 .. Len(q) - 1
  BY <1>1
<1>3. Has(q, Head(q))
  BY <1>1, <1>2 DEF Has
<1>4. ASSUME NEW n, Has(Tail(q), n) PROVE Has(q, n)
  <2>1. PICK i \in 1 .. Len(q) - 1 : Tail(q)[i] = n
    BY <1>2, <1>4 DEF Has
  <2>2. i + 1 \in 1 .. Len(q) /\ q[i + 1] = n
    BY <1>1, <2>1
  <2> QED BY <1>2, <2>2 DEF Has
<1>5. ASSUME NEW n, Has(q, n) PROVE n = Head(q) \/ Has(Tail(q), n)
  <2>1. PICK i \in 1 .. Len(q) : q[i] = n
    BY <1>2, <1>5 DEF Has
  <2>2. CASE i = 1
    BY <1>1, <2>1, <2>2
  <2>3. CASE i # 1
    <3>1. i - 1 \in 1 .. Len(q) - 1 /\ (i - 1) + 1 = i
      BY <1>1, <2>1, <2>3
    <3>2. Tail(q)[i - 1] = q[(i - 1) + 1]
      BY <1>1, <3>1
    <3> QED BY <1>2, <2>1, <3>1, <3>2 DEF Has
  <2> QED BY <2>2, <2>3
<1> QED BY <1>1, <1>3, <1>4, <1>5

\* What the shell and the clients may still write.
LEMMA Spends ==
  ASSUME NEW l \in [output : Nat, stdin : Nat]
  PROVE  /\ l.output > 0 => [l EXCEPT !.output = @ - 1] \in [output : Nat, stdin : Nat]
         /\ l.stdin > 0 => [l EXCEPT !.stdin = @ - 1] \in [output : Nat, stdin : Nat]
OBVIOUS

\* Every step keeps the types, in particular of the channels and of the frames.
LEMMA TypeStep == TypeOK /\ [Next]_vars => TypeOK'
<1> SUFFICES ASSUME TypeOK, [Next]_vars PROVE TypeOK'
  OBVIOUS
<1> USE TtyAssumption DEF TypeOK, Readers, Writers, Goto, Send, Closed, Exit, vars, pty, slot, client, run
<1>1. CASE ShellWrites
  <2>1. left \in [output : Nat, stdin : Nat] /\ left.output > 0
        /\ left' = [left EXCEPT !.output = @ - 1]
    BY <1>1 DEF ShellWrites
  <2>2. left' \in [output : Nat, stdin : Nat]
    BY <2>1, Spends
  <2>3. written' \in Nat
    BY <1>1 DEF ShellWrites
  <2> QED BY <1>1, <2>2, <2>3 DEF ShellWrites
<1>2. CASE ShellExits
  BY <1>2 DEF ShellExits
<1>3. CASE Broadcast
  <2>1. ASSUME NEW c \in Clients PROVE Send(c, out') \in [Clients -> Seq(Nat)]
    BY <1>3 DEF Broadcast
  <2>2. \/ chan' = chan
        \/ occupant \in Clients /\ chan' = Send(occupant, out')
    BY <1>3 DEF Broadcast
  <2>3. chan' \in [Clients -> Seq(Nat)]
    <3>1. chan \in [Clients -> Seq(Nat)]
      OBVIOUS
    <3> HIDE DEF TypeOK, Send
    <3> QED BY <2>1, <2>2, <3>1
  <2>4. missed' \in BOOLEAN
    BY <1>3 DEF Broadcast
  <2> QED BY <1>3, <2>3, <2>4 DEF Broadcast
<1>4. CASE WaitReturns
  BY <1>4 DEF WaitReturns
<1>5. CASE Drains
  BY <1>5 DEF Drains
<1>6. CASE DrainTimesOut
  BY <1>6 DEF DrainTimesOut
<1>7. CASE NotifiesExit
  BY <1>7 DEF NotifiesExit
<1>8. CASE Ends
  BY <1>8 DEF Ends
<1>9. ASSUME NEW c \in Clients, Installs(c) PROVE TypeOK'
  <2>1. Replay \in SUBSET Nat
    BY DEF Replay, Latest
  <2>2. frame' \in [Clients -> SUBSET Nat]
    BY <1>9, <2>1 DEF Installs
  <2>3. gen' \in Nat /\ mine' \in [Clients -> Nat]
    BY <1>9 DEF Installs
  <2>4. reader' \in [Clients -> Readers]
    BY <1>9 DEF Installs
  <2> QED BY <1>9, <2>2, <2>3, <2>4 DEF Installs
<1>10. ASSUME NEW c \in Clients, Acknowledges(c) PROVE TypeOK'
  <2>1. seen' \in [Clients -> SUBSET Nat] /\ frame' \in [Clients -> SUBSET Nat]
    <3>1. seen' = seen \/ seen' = [seen EXCEPT ![c] = frame[c]]
      BY <1>10 DEF Acknowledges
    <3>2. frame' = [frame EXCEPT ![c] = {}]
      BY <1>10 DEF Acknowledges
    <3> QED BY <3>1, <3>2
  <2>2. chan' \in [Clients -> Seq(Nat)]
    <3>1. chan' = chan \/ chan' = Closed(c)
      BY <1>10 DEF Acknowledges
    <3>2. chan \in [Clients -> Seq(Nat)] /\ Closed(c) \in [Clients -> Seq(Nat)]
      OBVIOUS
    <3> HIDE DEF TypeOK, Closed
    <3> QED BY <3>1, <3>2
  <2>3. reader' \in [Clients -> Readers] /\ writer' \in [Clients -> Writers]
    BY <1>10 DEF Acknowledges
  <2> QED BY <1>10, <2>1, <2>2, <2>3 DEF Acknowledges
<1>11. ASSUME NEW c \in Clients, ChecksMissed(c) PROVE TypeOK'
  BY <1>11 DEF ChecksMissed
<1>12. ASSUME NEW c \in Clients, TakesSnapshot(c) PROVE TypeOK'
  <2>1. Replay \in SUBSET Nat
    BY DEF Replay, Latest
  <2>2. frame' \in [Clients -> SUBSET Nat]
    BY <1>12, <2>1 DEF TakesSnapshot
  <2> QED BY <1>12, <2>2 DEF TakesSnapshot
<1>13. ASSUME NEW c \in Clients, Receives(c) PROVE TypeOK'
  <2>1. chan[c] # <<>> => Head(chan[c]) \in Nat /\ Tail(chan[c]) \in Seq(Nat)
    OBVIOUS
  <2>2. chan' \in [Clients -> Seq(Nat)]
    BY <1>13, <2>1 DEF Receives
  <2>3. frame' \in [Clients -> SUBSET Nat]
    <3>1. frame' = frame \/ (chan[c] # <<>> /\ frame' = [frame EXCEPT ![c] = {Head(chan[c])}])
      BY <1>13 DEF Receives
    <3>2. frame \in [Clients -> SUBSET Nat]
      OBVIOUS
    <3> HIDE DEF TypeOK
    <3> QED BY <2>1, <3>1, <3>2
  <2>4. writer' \in [Clients -> Writers]
    BY <1>13 DEF Receives
  <2> QED BY <1>13, <2>2, <2>3, <2>4 DEF Receives
<1>14. ASSUME NEW c \in Clients, Writes(c) PROVE TypeOK'
  BY <1>14 DEF Writes
<1>15. ASSUME NEW c \in Clients, WritesLastWord(c) PROVE TypeOK'
  BY <1>15 DEF WritesLastWord
<1>16. ASSUME NEW c \in Clients, WriteFails(c) PROVE TypeOK'
  BY <1>16 DEF WriteFails
<1>17. ASSUME NEW c \in Clients, ReadsFrame(c) PROVE TypeOK'
  <2>1. left' \in [output : Nat, stdin : Nat]
    <3>1. left \in [output : Nat, stdin : Nat]
      OBVIOUS
    <3>2. \/ left' = left
          \/ left.stdin > 0 /\ left' = [left EXCEPT !.stdin = @ - 1]
      BY <1>17, Zenon DEF ReadsFrame
    <3> HIDE DEF TypeOK
    <3> QED BY <3>1, <3>2, Spends
  <2>2. reader' \in [Clients -> Readers]
    <3>1. reader' = Goto(reader, c, "frame") \/ reader' = Goto(reader, c, "vacate")
      BY <1>17, Zenon DEF ReadsFrame
    <3> QED BY <3>1
  <2> QED BY <1>17, <2>1, <2>2 DEF ReadsFrame
<1>18. ASSUME NEW c \in Clients, ChecksCurrent(c) PROVE TypeOK'
  BY <1>18 DEF ChecksCurrent
<1>19. ASSUME NEW c \in Clients, WritesPty(c) PROVE TypeOK'
  <2>1. stale' \in [Clients -> Nat]
    BY <1>19 DEF WritesPty
  <2>2. reader' \in [Clients -> Readers]
    BY <1>19 DEF WritesPty
  <2> QED BY <1>19, <2>1, <2>2 DEF WritesPty
<1>20. ASSUME NEW c \in Clients, Vacates(c) PROVE TypeOK'
  BY <1>20 DEF Vacates
<1>21. ASSUME NEW c \in Clients, Aborts(c) PROVE TypeOK'
  BY <1>21 DEF Aborts
<1>22. CASE UNCHANGED vars
  BY <1>22
<1> QED
  BY <1>1, <1>2, <1>3, <1>4, <1>5, <1>6, <1>7, <1>8, <1>9, <1>10, <1>11, <1>12, <1>13, <1>14, <1>15, <1>16, <1>17, <1>18, <1>19, <1>20, <1>21, <1>22 DEF Next, RunStep, ClientStep

\* Every step keeps the slot: only install gives out a generation, and a client that is
\* not current any more vacates nothing.
LEMMA SlotStep == TypeOK /\ SlotInv /\ [Next]_vars => SlotInv'
<1> SUFFICES ASSUME TypeOK /\ SlotInv, [Next]_vars PROVE SlotInv'
  OBVIOUS
<1> USE TtyAssumption DEF TypeOK, SlotInv, Goto, IsCurrent, vars, pty, slot, client, run
<1>1. CASE ShellWrites
  BY <1>1 DEF ShellWrites
<1>2. CASE ShellExits
  BY <1>2 DEF ShellExits
<1>3. CASE Broadcast
  BY <1>3 DEF Broadcast
<1>4. CASE WaitReturns
  BY <1>4 DEF WaitReturns
<1>5. CASE Drains
  BY <1>5 DEF Drains
<1>6. CASE DrainTimesOut
  BY <1>6 DEF DrainTimesOut
<1>7. CASE NotifiesExit
  BY <1>7 DEF NotifiesExit
<1>8. CASE Ends
  BY <1>8 DEF Ends
<1>9. ASSUME NEW c \in Clients, Installs(c) PROVE SlotInv'
  BY <1>9 DEF Installs
<1>10. ASSUME NEW c \in Clients, Acknowledges(c) PROVE SlotInv'
  <2>1. reader[c] = "ack" /\ gen' = gen /\ occupant' = occupant /\ mine' = mine
    BY <1>10 DEF Acknowledges
  <2>2. \E r \in {"read", "end"} : reader' = [reader EXCEPT ![c] = r]
    BY <1>10 DEF Acknowledges
  <2>3. \A d \in Clients \ {c} : writer'[d] = writer[d] /\ seen'[d] = seen[d]
    BY <1>10 DEF Acknowledges
  <2> QED BY <2>1, <2>2, <2>3
<1>11. ASSUME NEW c \in Clients, ChecksMissed(c) PROVE SlotInv'
  BY <1>11 DEF ChecksMissed
<1>12. ASSUME NEW c \in Clients, TakesSnapshot(c) PROVE SlotInv'
  BY <1>12 DEF TakesSnapshot
<1>13. ASSUME NEW c \in Clients, Receives(c) PROVE SlotInv'
  BY <1>13 DEF Receives
<1>14. ASSUME NEW c \in Clients, Writes(c) PROVE SlotInv'
  BY <1>14 DEF Writes
<1>15. ASSUME NEW c \in Clients, WritesLastWord(c) PROVE SlotInv'
  BY <1>15 DEF WritesLastWord
<1>16. ASSUME NEW c \in Clients, WriteFails(c) PROVE SlotInv'
  BY <1>16 DEF WriteFails
<1>17. ASSUME NEW c \in Clients, ReadsFrame(c) PROVE SlotInv'
  <2>1. reader[c] = "read" /\ UNCHANGED <<slot, mine, writer, seen>>
    BY <1>17 DEF ReadsFrame
  <2>2. \E r \in {"frame", "vacate"} : reader' = [reader EXCEPT ![c] = r]
    BY <1>17 DEF ReadsFrame
  <2> QED BY <2>1, <2>2
<1>18. ASSUME NEW c \in Clients, ChecksCurrent(c) PROVE SlotInv'
  BY <1>18 DEF ChecksCurrent
<1>19. ASSUME NEW c \in Clients, WritesPty(c) PROVE SlotInv'
  <2>1. reader[c] = "write" /\ UNCHANGED <<slot, mine, writer, seen>>
    BY <1>19 DEF WritesPty
  <2>2. \E r \in {"read", "vacate"} : reader' = [reader EXCEPT ![c] = r]
    BY <1>19 DEF WritesPty
  <2> QED BY <2>1, <2>2
<1>20. ASSUME NEW c \in Clients, Vacates(c) PROVE SlotInv'
  BY <1>20 DEF Vacates
<1>21. ASSUME NEW c \in Clients, Aborts(c) PROVE SlotInv'
  BY <1>21 DEF Aborts
<1>22. CASE UNCHANGED vars
  BY <1>22
<1> QED
  BY <1>1, <1>2, <1>3, <1>4, <1>5, <1>6, <1>7, <1>8, <1>9, <1>10, <1>11, <1>12, <1>13, <1>14, <1>15, <1>16, <1>17, <1>18, <1>19, <1>20, <1>21, <1>22 DEF Next, RunStep, ClientStep

\* Every step keeps the cut: is_current refuses the next frame of a preempted client.
LEMMA StaleStep == TypeOK /\ SlotInv /\ StaleInv /\ [Next]_vars => StaleInv'
<1> SUFFICES ASSUME TypeOK /\ SlotInv /\ StaleInv, [Next]_vars PROVE StaleInv'
  OBVIOUS
<1> USE TtyAssumption DEF TypeOK, SlotInv, StaleInv, Goto, IsCurrent, vars, pty, slot, client, run
<1>1. CASE ShellWrites
  BY <1>1 DEF ShellWrites
<1>2. CASE ShellExits
  BY <1>2 DEF ShellExits
<1>3. CASE Broadcast
  BY <1>3 DEF Broadcast
<1>4. CASE WaitReturns
  BY <1>4 DEF WaitReturns
<1>5. CASE Drains
  BY <1>5 DEF Drains
<1>6. CASE DrainTimesOut
  BY <1>6 DEF DrainTimesOut
<1>7. CASE NotifiesExit
  BY <1>7 DEF NotifiesExit
<1>8. CASE Ends
  BY <1>8 DEF Ends
<1>9. ASSUME NEW c \in Clients, Installs(c) PROVE StaleInv'
  BY <1>9 DEF Installs
<1>10. ASSUME NEW c \in Clients, Acknowledges(c) PROVE StaleInv'
  BY <1>10 DEF Acknowledges
<1>11. ASSUME NEW c \in Clients, ChecksMissed(c) PROVE StaleInv'
  BY <1>11 DEF ChecksMissed
<1>12. ASSUME NEW c \in Clients, TakesSnapshot(c) PROVE StaleInv'
  BY <1>12 DEF TakesSnapshot
<1>13. ASSUME NEW c \in Clients, Receives(c) PROVE StaleInv'
  BY <1>13 DEF Receives
<1>14. ASSUME NEW c \in Clients, Writes(c) PROVE StaleInv'
  BY <1>14 DEF Writes
<1>15. ASSUME NEW c \in Clients, WritesLastWord(c) PROVE StaleInv'
  BY <1>15 DEF WritesLastWord
<1>16. ASSUME NEW c \in Clients, WriteFails(c) PROVE StaleInv'
  BY <1>16 DEF WriteFails
<1>17. ASSUME NEW c \in Clients, ReadsFrame(c) PROVE StaleInv'
  BY <1>17 DEF ReadsFrame
<1>18. ASSUME NEW c \in Clients, ChecksCurrent(c) PROVE StaleInv'
  BY <1>18 DEF ChecksCurrent
<1>19. ASSUME NEW c \in Clients, WritesPty(c) PROVE StaleInv'
  BY <1>19 DEF WritesPty
<1>20. ASSUME NEW c \in Clients, Vacates(c) PROVE StaleInv'
  BY <1>20 DEF Vacates
<1>21. ASSUME NEW c \in Clients, Aborts(c) PROVE StaleInv'
  BY <1>21 DEF Aborts
<1>22. CASE UNCHANGED vars
  BY <1>22
<1> QED
  BY <1>1, <1>2, <1>3, <1>4, <1>5, <1>6, <1>7, <1>8, <1>9, <1>10, <1>11, <1>12, <1>13, <1>14, <1>15, <1>16, <1>17, <1>18, <1>19, <1>20, <1>21, <1>22 DEF Next, RunStep, ClientStep

\* Every step keeps the order of the exit: notify_exit runs once the read loop has
\* stopped, and the writer sends the ring once more before the Exit.
LEMMA ExitStep == TypeOK /\ SlotInv /\ ExitInv /\ [Next]_vars => ExitInv'
<1> SUFFICES ASSUME TypeOK /\ SlotInv /\ ExitInv, [Next]_vars PROVE ExitInv'
  OBVIOUS
<1> USE TtyAssumption DEF TypeOK, ExitInv, Goto, Exiting, Replay, Send, Closed, Exit, vars, pty, slot, client, run
<1>1. CASE ShellWrites
  BY <1>1 DEF ShellWrites
<1>2. CASE ShellExits
  BY <1>2 DEF ShellExits
<1>3. CASE Broadcast
  <2>1. UNCHANGED <<shell, written, main, timedOut, writer, got, frame, seen>> /\ out' \in Nat
        /\ out < written /\ out' = out + 1
    BY <1>3 DEF Broadcast
  <2>2. main \in {"notifying", "grace", "over"} => timedOut
    BY <2>1
  <2>3. ASSUME NEW c \in Clients, Has(chan'[c], Exit) PROVE Has(chan[c], Exit)
    <3>1. chan'[c] = chan[c] \/ chan'[c] = Append(chan[c], out')
      BY <1>3 DEF Broadcast
    <3>2. chan[c] \in Seq(Nat) /\ out' \in Nat /\ out' # Exit
      BY <2>1
    <3> QED BY <2>3, <3>1, <3>2, AppendHas
  <2>4. out' <= written'
    BY <2>1
  <2>5. ~timedOut => main \notin {"notifying", "grace", "over"}
    BY <2>2
  <2>6. \A c \in Clients : ~timedOut => ~Exiting(c)
    BY <2>5
  <2> HIDE DEF Replay
  <2> QED BY <2>1, <2>2, <2>3, <2>4, <2>6
<1>4. CASE WaitReturns
  BY <1>4 DEF WaitReturns
<1>5. CASE Drains
  BY <1>5 DEF Drains
<1>6. CASE DrainTimesOut
  BY <1>6 DEF DrainTimesOut
<1>7. CASE NotifiesExit
  BY <1>7 DEF NotifiesExit
<1>8. CASE Ends
  BY <1>8 DEF Ends
<1>9. ASSUME NEW c \in Clients, Installs(c) PROVE ExitInv'
  BY <1>9 DEF Installs
<1>10. ASSUME NEW c \in Clients, Acknowledges(c) PROVE ExitInv'
  <2>1. UNCHANGED <<pty, main, timedOut, got>>
    BY <1>10 DEF Acknowledges
  <2>2. writer[c] = "off" /\ seen[c] = {}
    BY <1>10 DEF Acknowledges, SlotInv
  <2>3. /\ writer'[c] \in {"check", "off"} /\ (chan'[c] = chan[c] \/ chan'[c] = <<>>)
        /\ seen[c] \subseteq seen'[c]
    BY <1>10, <2>2 DEF Acknowledges
  <2>4. \A d \in Clients \ {c} :
          writer'[d] = writer[d] /\ chan'[d] = chan[d] /\ seen'[d] = seen[d] /\ frame'[d] = frame[d]
    BY <1>10 DEF Acknowledges
  <2>5. Replay' = Replay /\ ~Has(<<>>, Exit)
    BY <2>1 DEF Has, Latest
  <2> HIDE DEF Replay
  <2> QED BY <2>1, <2>3, <2>4, <2>5
<1>11. ASSUME NEW c \in Clients, ChecksMissed(c) PROVE ExitInv'
  BY <1>11 DEF ChecksMissed
<1>12. ASSUME NEW c \in Clients, TakesSnapshot(c) PROVE ExitInv'
  BY <1>12 DEF TakesSnapshot
<1>13. ASSUME NEW c \in Clients, Receives(c) PROVE ExitInv'
  <2>1. UNCHANGED <<pty, main, timedOut, got, seen>>
    BY <1>13 DEF Receives
  <2>2. \A d \in Clients \ {c} :
          writer'[d] = writer[d] /\ chan'[d] = chan[d] /\ frame'[d] = frame[d]
    BY <1>13 DEF Receives
  <2>3. \/ chan[c] # <<>> /\ chan'[c] = Tail(chan[c])
             /\ writer'[c] = IF Head(chan[c]) = Exit THEN "exitSnapshot" ELSE "forward"
        \/ chan'[c] = chan[c] /\ writer'[c] = "preempt"
    BY <1>13 DEF Receives
  <2>4. chan[c] \in Seq(Nat)
    OBVIOUS
  <2>5. /\ Has(chan'[c], Exit) => Has(chan[c], Exit)
        /\ writer'[c] = "exitSnapshot" => Has(chan[c], Exit)
        /\ writer'[c] \notin {"exitSync", "exit"}
    BY <2>3, <2>4, TailHas
  <2>6. Replay' = Replay
    BY <2>1 DEF Latest
  <2> HIDE DEF Replay
  <2> QED BY <2>1, <2>2, <2>5, <2>6
<1>14. ASSUME NEW c \in Clients, Writes(c) PROVE ExitInv'
  BY <1>14 DEF Writes
<1>15. ASSUME NEW c \in Clients, WritesLastWord(c) PROVE ExitInv'
  BY <1>15, EmptyHas DEF WritesLastWord
<1>16. ASSUME NEW c \in Clients, WriteFails(c) PROVE ExitInv'
  BY <1>16, EmptyHas DEF WriteFails
<1>17. ASSUME NEW c \in Clients, ReadsFrame(c) PROVE ExitInv'
  BY <1>17 DEF ReadsFrame
<1>18. ASSUME NEW c \in Clients, ChecksCurrent(c) PROVE ExitInv'
  BY <1>18 DEF ChecksCurrent
<1>19. ASSUME NEW c \in Clients, WritesPty(c) PROVE ExitInv'
  BY <1>19 DEF WritesPty
<1>20. ASSUME NEW c \in Clients, Vacates(c) PROVE ExitInv'
  BY <1>20 DEF Vacates
<1>21. ASSUME NEW c \in Clients, Aborts(c) PROVE ExitInv'
  BY <1>21, EmptyHas DEF Aborts
<1>22. CASE UNCHANGED vars
  BY <1>22
<1> QED
  BY <1>1, <1>2, <1>3, <1>4, <1>5, <1>6, <1>7, <1>8, <1>9, <1>10, <1>11, <1>12, <1>13, <1>14, <1>15, <1>16, <1>17, <1>18, <1>19, <1>20, <1>21, <1>22 DEF Next, RunStep, ClientStep

\* Every step keeps the writers awake: the flag is set only while the channel is full.
LEMMA WriterStep == TypeOK /\ SlotInv /\ WriterInv /\ [Next]_vars => WriterInv'
<1> SUFFICES ASSUME TypeOK /\ SlotInv /\ WriterInv, [Next]_vars PROVE WriterInv'
  OBVIOUS
<1> USE TtyAssumption DEF TypeOK, SlotInv, WriterInv, Goto, IsCurrent, CanSend, Receiving, Send, Closed, vars, pty, slot, client, run
<1>1. CASE ShellWrites
  BY <1>1 DEF ShellWrites
<1>2. CASE ShellExits
  BY <1>2 DEF ShellExits
<1>3. CASE Broadcast
  <2>1. UNCHANGED <<gen, mine, writer, frame>>
    BY <1>3 DEF Broadcast
  <2>2. ASSUME NEW c \in Clients, mine[c] = gen, writer[c] \in {"snapshot", "resync", "recv"},
               missed'
        PROVE  chan'[c] # <<>>
    <3>1. chan[c] \in Seq(Nat) /\ out' \in Nat
      BY <1>3 DEF Broadcast
    <3>2. CASE occupant = NoClient
      BY <1>3, <2>2, <3>2 DEF Broadcast
    <3>3. CASE occupant # NoClient
      <4>1. occupant = c
        BY <2>2, <3>3
      <4>2. CASE CanSend(c)
        <5>1. chan'[c] = Append(chan[c], out')
          BY <1>3, <3>3, <4>1, <4>2 DEF Broadcast
        <5> QED BY <3>1, <5>1, AppendHas
      <4>3. CASE ~CanSend(c)
        <5>1. chan' = chan
          BY <1>3, <3>3, <4>1, <4>3 DEF Broadcast
        <5>2. ~(Len(chan[c]) < ChanCap)
          BY <2>2, <4>3
        <5>3. chan[c] # <<>>
          BY <3>1, <5>2
        <5> QED BY <5>1, <5>3
      <4> QED BY <4>2, <4>3
    <3> QED BY <3>2, <3>3
  <2> QED BY <2>1, <2>2
<1>4. CASE WaitReturns
  BY <1>4 DEF WaitReturns
<1>5. CASE Drains
  BY <1>5 DEF Drains
<1>6. CASE DrainTimesOut
  BY <1>6 DEF DrainTimesOut
<1>7. CASE NotifiesExit
  <2>1. UNCHANGED <<slot, mine, writer, frame>>
    BY <1>7 DEF NotifiesExit
  <2>2. ASSUME NEW c \in Clients, chan[c] # <<>> PROVE chan'[c] # <<>>
    <3>1. chan[c] \in Seq(Nat) /\ Exit \in Nat
      BY DEF Exit
    <3>2. chan'[c] = chan[c] \/ chan'[c] = Append(chan[c], Exit)
      BY <1>7 DEF NotifiesExit
    <3> QED BY <2>2, <3>1, <3>2, AppendHas
  <2> QED BY <2>1, <2>2
<1>8. CASE Ends
  BY <1>8 DEF Ends
<1>9. ASSUME NEW c \in Clients, Installs(c) PROVE WriterInv'
  BY <1>9 DEF Installs
<1>10. ASSUME NEW c \in Clients, Acknowledges(c) PROVE WriterInv'
  BY <1>10 DEF Acknowledges
<1>11. ASSUME NEW c \in Clients, ChecksMissed(c) PROVE WriterInv'
  BY <1>11 DEF ChecksMissed
<1>12. ASSUME NEW c \in Clients, TakesSnapshot(c) PROVE WriterInv'
  BY <1>12 DEF TakesSnapshot
<1>13. ASSUME NEW c \in Clients, Receives(c) PROVE WriterInv'
  <2>1. UNCHANGED <<slot, mine>>
    BY <1>13 DEF Receives
  <2>2. \A d \in Clients \ {c} :
          writer'[d] = writer[d] /\ chan'[d] = chan[d] /\ frame'[d] = frame[d]
    BY <1>13 DEF Receives
  <2>3. writer'[c] \in {"exitSnapshot", "forward", "preempt"}
    BY <1>13 DEF Receives
  <2>4. writer'[c] = "exitSnapshot" => frame'[c] = {}
    BY <1>13 DEF Receives
  <2> QED BY <2>1, <2>2, <2>3, <2>4
<1>14. ASSUME NEW c \in Clients, Writes(c) PROVE WriterInv'
  BY <1>14 DEF Writes
<1>15. ASSUME NEW c \in Clients, WritesLastWord(c) PROVE WriterInv'
  BY <1>15 DEF WritesLastWord
<1>16. ASSUME NEW c \in Clients, WriteFails(c) PROVE WriterInv'
  BY <1>16 DEF WriteFails
<1>17. ASSUME NEW c \in Clients, ReadsFrame(c) PROVE WriterInv'
  BY <1>17 DEF ReadsFrame
<1>18. ASSUME NEW c \in Clients, ChecksCurrent(c) PROVE WriterInv'
  BY <1>18 DEF ChecksCurrent
<1>19. ASSUME NEW c \in Clients, WritesPty(c) PROVE WriterInv'
  BY <1>19 DEF WritesPty
<1>20. ASSUME NEW c \in Clients, Vacates(c) PROVE WriterInv'
  BY <1>20 DEF Vacates
<1>21. ASSUME NEW c \in Clients, Aborts(c) PROVE WriterInv'
  BY <1>21 DEF Aborts
<1>22. CASE UNCHANGED vars
  BY <1>22
<1> QED
  BY <1>1, <1>2, <1>3, <1>4, <1>5, <1>6, <1>7, <1>8, <1>9, <1>10, <1>11, <1>12, <1>13, <1>14, <1>15, <1>16, <1>17, <1>18, <1>19, <1>20, <1>21, <1>22 DEF Next, RunStep, ClientStep

\* Every step keeps the output on its way: a chunk goes to the channel or raises the
\* flag, and only a snapshot of the ring takes the flag down.
LEMMA KeptStep == TypeOK /\ SlotInv /\ WriterInv /\ KeptInv /\ [Next]_vars => KeptInv'
<1> SUFFICES ASSUME TypeOK /\ SlotInv /\ WriterInv /\ KeptInv, [Next]_vars PROVE KeptInv'
  OBVIOUS
<1> USE TtyAssumption DEF TypeOK, SlotInv, WriterInv, KeptInv, Attached, Covers, Coming, Goto, IsCurrent, CanSend, Receiving, Send, Closed, Replay, vars, pty, slot, client, run
<1>1. CASE ShellWrites
  BY <1>1 DEF ShellWrites
<1>2. CASE ShellExits
  BY <1>2 DEF ShellExits
<1>3. CASE Broadcast
  <2>1. UNCHANGED <<gen, mine, reader, writer, seen, frame>> /\ out' = out + 1 /\ out \in Nat
    BY <1>3 DEF Broadcast
  <2>2. \A k \in Replay' : k \in Replay \/ k = out'
    BY <2>1 DEF Latest
  <2> SUFFICES ASSUME NEW c \in Clients, Attached(c)' PROVE Covers(c)' \/ Coming(c)'
    OBVIOUS
  <2>3. Attached(c) /\ occupant = c /\ c # NoClient
    BY <2>1
  <2>4. chan[c] \in Seq(Nat) /\ out' \in Nat
    BY <2>1
  <2>5. CASE CanSend(c)
    <3>1. chan'[c] = Append(chan[c], out') /\ missed' = missed
      BY <1>3, <2>3, <2>5 DEF Broadcast
    <3>2. Covers(c) \/ Coming(c)
      BY <2>3
    <3> HIDE DEF Replay, TypeOK, SlotInv, WriterInv, KeptInv, Attached
    <3>3. /\ chan'[c] # <<>> /\ Has(chan'[c], out')
          /\ \A n : Has(chan[c], n) => Has(chan'[c], n)
      BY <2>4, <3>1, AppendHas
    <3> QED BY <2>1, <2>2, <3>1, <3>2, <3>3
  <2>6. CASE ~CanSend(c)
    <3>1. chan' = chan /\ missed' = TRUE
      BY <1>3, <2>3, <2>6 DEF Broadcast
    <3>2. ~(Len(chan[c]) < ChanCap)
      BY <2>3, <2>6
    <3>3. chan[c] # <<>>
      BY <2>4, <3>2
    <3> QED BY <2>1, <3>1, <3>3
  <2> QED BY <2>5, <2>6
<1>4. CASE WaitReturns
  BY <1>4 DEF WaitReturns
<1>5. CASE Drains
  BY <1>5 DEF Drains
<1>6. CASE DrainTimesOut
  BY <1>6 DEF DrainTimesOut
<1>7. CASE NotifiesExit
  <2>1. UNCHANGED <<pty, slot, reader, writer, mine, seen, frame>>
    BY <1>7 DEF NotifiesExit
  <2>2. Replay' = Replay
    BY <2>1 DEF Latest
  <2> SUFFICES ASSUME NEW c \in Clients, Attached(c)' PROVE Covers(c)' \/ Coming(c)'
    OBVIOUS
  <2>3. Attached(c) /\ (Covers(c) \/ Coming(c)) /\ chan[c] \in Seq(Nat) /\ Exit \in Nat
    BY <2>1 DEF Exit
  <2>4. chan'[c] = chan[c] \/ chan'[c] = Append(chan[c], Exit)
    BY <1>7 DEF NotifiesExit
  <2> HIDE DEF Replay, TypeOK, SlotInv, WriterInv, KeptInv, Attached
  <2>5. chan'[c] = chan[c] \/ Has(chan'[c], Exit)
    BY <2>3, <2>4, AppendHas
  <2> QED BY <2>1, <2>2, <2>3, <2>5
<1>8. CASE Ends
  BY <1>8 DEF Ends
<1>9. ASSUME NEW c \in Clients, Installs(c) PROVE KeptInv'
  BY <1>9 DEF Installs
<1>10. ASSUME NEW c \in Clients, Acknowledges(c) PROVE KeptInv'
  BY <1>10 DEF Acknowledges
<1>11. ASSUME NEW c \in Clients, ChecksMissed(c) PROVE KeptInv'
  BY <1>11 DEF ChecksMissed
<1>12. ASSUME NEW c \in Clients, TakesSnapshot(c) PROVE KeptInv'
  BY <1>12 DEF TakesSnapshot
<1>13. ASSUME NEW c \in Clients, Receives(c) PROVE KeptInv'
  <2>1. UNCHANGED <<pty, slot, reader, mine, seen>>
    BY <1>13 DEF Receives
  <2>2. Replay' = Replay
    BY <2>1 DEF Latest
  <2> SUFFICES ASSUME NEW d \in Clients, Attached(d)' PROVE Covers(d)' \/ Coming(d)'
    OBVIOUS
  <2>3. CASE d # c
    <3>1. writer'[d] = writer[d] /\ chan'[d] = chan[d] /\ frame'[d] = frame[d]
      BY <1>13, <2>3 DEF Receives
    <3>2. Covers(d) \/ Coming(d)
      BY <2>1, <3>1
    <3> HIDE DEF Replay, TypeOK, SlotInv, WriterInv, KeptInv, Attached
    <3> QED BY <2>1, <2>2, <3>1, <3>2
  <2>4. CASE d = c
    <3>1. Attached(c) /\ (Covers(c) \/ Coming(c)) /\ occupant = c /\ frame[c] = {}
      BY <1>13, <2>1, <2>4 DEF Receives
    <3>2. chan[c] # <<>> /\ chan'[c] = Tail(chan[c]) /\ chan[c] \in Seq(Nat)
      BY <1>13, <3>1 DEF Receives
    <3>3. CASE Head(chan[c]) = Exit
      <4>1. writer'[c] = "exitSnapshot"
        BY <1>13, <3>2, <3>3 DEF Receives
      <4> QED BY <2>4, <4>1
    <3>4. CASE Head(chan[c]) # Exit
      <4>1. writer'[c] = "forward" /\ frame'[c] = {Head(chan[c])} /\ writer[c] = "recv"
        BY <1>13, <3>2, <3>4 DEF Receives
      <4>2. \A n : Has(chan[c], n) => n \in frame'[c] \/ Has(chan'[c], n)
        BY <3>2, <4>1, TailHas
      <4>3. Has(chan[c], Exit) => Has(chan'[c], Exit)
        BY <3>2, <3>4, TailHas
      <4> HIDE DEF Replay, TypeOK, SlotInv, WriterInv, KeptInv, Attached
      <4> QED BY <2>1, <2>2, <2>4, <3>1, <4>1, <4>2, <4>3
    <3> QED BY <3>3, <3>4
  <2> QED BY <2>3, <2>4
<1>14. ASSUME NEW c \in Clients, Writes(c) PROVE KeptInv'
  BY <1>14 DEF Writes
<1>15. ASSUME NEW c \in Clients, WritesLastWord(c) PROVE KeptInv'
  BY <1>15 DEF WritesLastWord
<1>16. ASSUME NEW c \in Clients, WriteFails(c) PROVE KeptInv'
  BY <1>16 DEF WriteFails
<1>17. ASSUME NEW c \in Clients, ReadsFrame(c) PROVE KeptInv'
  <2>1. UNCHANGED <<pty, slot, chan, writer, mine, seen, frame>>
    BY <1>17 DEF ReadsFrame
  <2>2. \A d \in Clients : Attached(d)' => Attached(d)
    <3>1. reader' = Goto(reader, c, "frame") \/ reader' = Goto(reader, c, "vacate")
      BY <1>17, Zenon DEF ReadsFrame
    <3>2. reader[c] \in {"read", "write"}
      BY <1>17 DEF ReadsFrame
    <3> QED BY <2>1, <3>1, <3>2
  <2>3. Replay' = Replay
    BY <2>1 DEF Latest
  <2> HIDE DEF Replay, TypeOK, SlotInv, WriterInv, Attached
  <2> QED BY <2>1, <2>2, <2>3
<1>18. ASSUME NEW c \in Clients, ChecksCurrent(c) PROVE KeptInv'
  BY <1>18 DEF ChecksCurrent
<1>19. ASSUME NEW c \in Clients, WritesPty(c) PROVE KeptInv'
  <2>1. UNCHANGED <<pty, slot, chan, writer, mine, seen, frame>>
    BY <1>19 DEF WritesPty
  <2>2. \A d \in Clients : Attached(d)' => Attached(d)
    <3>1. reader' = Goto(reader, c, "read") \/ reader' = Goto(reader, c, "vacate")
      BY <1>19, Zenon DEF WritesPty
    <3>2. reader[c] \in {"read", "write"}
      BY <1>19 DEF WritesPty
    <3> QED BY <2>1, <3>1, <3>2
  <2>3. Replay' = Replay
    BY <2>1 DEF Latest
  <2> HIDE DEF Replay, TypeOK, SlotInv, WriterInv, Attached
  <2> QED BY <2>1, <2>2, <2>3
<1>20. ASSUME NEW c \in Clients, Vacates(c) PROVE KeptInv'
  BY <1>20 DEF Vacates
<1>21. ASSUME NEW c \in Clients, Aborts(c) PROVE KeptInv'
  BY <1>21 DEF Aborts
<1>22. CASE UNCHANGED vars
  BY <1>22
<1> QED
  BY <1>1, <1>2, <1>3, <1>4, <1>5, <1>6, <1>7, <1>8, <1>9, <1>10, <1>11, <1>12, <1>13, <1>14, <1>15, <1>16, <1>17, <1>18, <1>19, <1>20, <1>21, <1>22 DEF Next, RunStep, ClientStep

\* The inductive invariant holds of every reachable state.
LEMMA Inductive == Spec => []IInv
<1>1. Init => IInv
  <2> SUFFICES ASSUME Init PROVE IInv
    OBVIOUS
  <2> USE TtyAssumption DEF Init
  <2>1. TypeOK
    <3>1. left \in [output : Nat, stdin : Nat]
      BY DEF Init
    <3>2. chan \in [Clients -> Seq(Nat)]
      OBVIOUS
    <3>3. reader \in [Clients -> Readers] /\ writer \in [Clients -> Writers]
      BY DEF Readers, Writers
    <3> QED BY <3>1, <3>2, <3>3 DEF TypeOK
  <2>2. SlotInv
    BY DEF SlotInv
  <2>3. StaleInv /\ WriterInv
    BY DEF StaleInv, WriterInv
  <2>4. ExitInv
    BY EmptyHas DEF ExitInv, Exiting
  <2>5. KeptInv
    BY DEF KeptInv, Attached, Receiving
  <2> QED BY <2>1, <2>2, <2>3, <2>4, <2>5 DEF IInv
<1>2. IInv /\ [Next]_vars => IInv'
  BY TypeStep, SlotStep, StaleStep, ExitStep, WriterStep, KeptStep DEF IInv
<1> QED BY <1>1, <1>2, PTL DEF Spec

\* Whatever the occupant's channel had no room for, and whoever leaves the slot late,
\* the attached client is sent what the ring holds.
THEOREM OutputIsKept == Spec => []NothingIsLost
<1>1. IInv => NothingIsLost
  <2> SUFFICES ASSUME IInv, NEW c \in Clients, Attached(c), ~ResyncIsComing(c)
               PROVE  Replay \subseteq seen[c] \cup frame[c] \cup Queued(c)
    BY DEF NothingIsLost
  <2>1. Covers(c)
    BY DEF IInv, KeptInv, Coming, ResyncIsComing, Has
  <2>2. \A k \in Replay : k # Exit
    BY DEF Replay, Latest, Exit, IInv, TypeOK
  <2> QED BY <2>1, <2>2 DEF Covers, Has, Queued
<1> QED BY Inductive, <1>1, PTL

\* A client that is told of the exit has the shell's last chunks, unless the pty did
\* not drain in time.
THEOREM ExitAfterOutput == Spec => []ExitComesLast
<1>1. IInv => ExitComesLast
  <2> SUFFICES ASSUME IInv, NEW c \in Clients, got[c] = "Exit", ~timedOut
               PROVE  Latest(written) \subseteq seen[c]
    BY DEF ExitComesLast
  <2>1. out = written
    BY DEF IInv, ExitInv, Exiting
  <2> QED BY <2>1 DEF IInv, ExitInv, Replay
<1> QED BY Inductive, <1>1, PTL

\* After its preemption one frame of a client at most reaches the shell.
THEOREM InputIsCutOff == Spec => []StaleInputIsOneFrame
<1>1. IInv => StaleInputIsOneFrame
  <2> SUFFICES ASSUME IInv, NEW c \in Clients PROVE stale[c] <= 1
    BY DEF StaleInputIsOneFrame
  <2>1. stale[c] \in Nat /\ (stale[c] = 0 \/ stale[c] = 1)
    BY DEF IInv, TypeOK, StaleInv
  <2> QED BY <2>1
<1> QED BY Inductive, <1>1, PTL
=============================================================================
