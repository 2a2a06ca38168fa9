------------------------- MODULE ResumeStreamProofs -------------------------
(***************************************************************************)
(* What a resumed session promises, for every capacity, chunk size and     *)
(* load, and any number of connections.                                    *)
(***************************************************************************)
EXTENDS ResumeStream, TLAPS

Buffers == [start : Nat, data : Seq(Nat)]
Replies == [is : {"none", "ack", "unknown", "gone"}, committed : Nat]

\* No Fin is in q, so that more may be written to it.
NoFin(q) == \A i \in DOMAIN q : q[i] # Fin

\* The stream q carries the bytes after `from`, none after `upto`, and at most a
\* Fin after them.
Flows(q, from, upto) ==
  \A i \in DOMAIN q : \/ q[i] = from + i /\ from + i <= upto
                      \/ q[i] = Fin /\ i = Len(q)

Serving == sst \in {"relay", "ack"}        \* the server writes to `on`
Sending == cst \in {"pump", "replay"}      \* the client writes to `conn`
Reading == cst \in {"pump", "asked", "replay"}  \* the client will read, or reads, `conn`

ClientTypes ==
  /\ cst \in {"pump", "down", "asked", "replay", "over"} /\ conn \in ConnIds
  /\ taken \in Nat /\ taken <= StdinBytes /\ cbuf \in Buffers
  /\ cout \in Seq(Nat) /\ hin \in Seq(Nat) /\ stdout \in Seq(Nat)
  /\ uncounted \in Nat /\ delivered \in Nat /\ acked \in Nat /\ eof \in BOOLEAN
ServerTypes ==
  /\ sst \in {"relay", "ack", "parked", "gone"} /\ on \in ConnIds
  /\ given \in Nat /\ given <= TargetBytes /\ sbuf \in Buffers
  /\ sout \in Seq(Nat) /\ sin \in Seq(Nat) /\ target \in Seq(Nat)
  /\ committed \in Nat /\ hole \in BOOLEAN
NetTypes ==
  /\ load \in [stdin : Nat, target : Nat, conns : Nat \ {0}, frail : SUBSET AckTasks]
  /\ c2s \in [ConnIds -> Seq(Nat)] /\ s2c \in [ConnIds -> Seq(Nat)]
  /\ ask \in [ConnIds -> Int] /\ reply \in [ConnIds -> Replies]
  /\ ctl \in [ConnIds -> {"pending", "open", "unavailable"}]
  /\ acking \in [ConnIds -> SUBSET AckTasks]
  /\ ackUp \in [ConnIds -> Nat] /\ ackDown \in [ConnIds -> Nat]
TypeInv == ClientTypes /\ ServerTypes /\ NetTypes

\* What each end's phase says about what it holds.
PhaseInv ==
  /\ cst # "pump" => hin = <<>> /\ uncounted = 0
  /\ eof => cst \in {"pump", "over"} /\ cout = <<>>
  /\ sst # "relay" => sin = <<>>
  /\ sst \in {"parked", "ack"} => ~hole
  /\ on <= conn

LabelInv ==
  /\ Len(cbuf.data) <= ClientCap /\ Len(sbuf.data) <= ServerCap
  /\ ReplayIsLabelled

\* A RESUME in flight on g: nothing has been sent on g, and the offset it asks for is
\* the client's, if the client has not gone on to another connection.
AskOf(g) ==
  /\ ask[g] >= -1
  /\ g > conn => ask[g] = -1 /\ reply[g].is = "none" /\ c2s[g] = <<>> /\ s2c[g] = <<>>
  /\ ask[g] >= 0 => /\ reply[g].is = "none" /\ c2s[g] = <<>> /\ s2c[g] = <<>> /\ g # on
                    /\ ask[g] <= delivered
                    /\ g = conn => ask[g] = delivered /\ ~Sending
AskInv == \A g \in ConnIds : AskOf(g)

\* No buffer is trimmed beyond what the other end has, and an answer is an offset to
\* which the client's buffer still goes back.
TrimOf(g) == ackUp[g] <= delivered /\ ackDown[g] <= committed /\ reply[g].committed <= committed
TrimHere ==
  /\ acked <= committed /\ cbuf.start <= committed /\ sbuf.start <= delivered
  /\ reply[conn].is # "gone"
  /\ cst \in {"asked", "replay"} /\ reply[conn].is = "ack" => cbuf.start <= reply[conn].committed
TrimInv == TrimHere /\ \A g \in ConnIds : TrimOf(g)

\* On the way up, what the target has, what the server holds, what the connection carries
\* and what the client is still to send are stdin up to the last byte read, as long as
\* both ends are on that connection.
Got == committed + Len(sin)   \* bytes the server has read, for the target
Landed == Runs(0, target) /\ Len(target) = committed /\ Runs(committed, sin) /\ Got <= taken
UpFlows == Serving => Flows(c2s[on], Got, taken)
UpWhole ==
  Serving /\ on = conn /\ Sending /\ ~eof =>
    /\ NoFin(c2s[on]) /\ Runs(Got + Len(c2s[on]), cout)
    /\ Got + Len(c2s[on]) + Len(cout) = taken
UpAsked ==
  Serving /\ on = conn /\ cst = "asked" =>
    c2s[on] = <<>> /\ sin = <<>> /\ reply[on].committed = committed
UpInv == Landed /\ UpFlows /\ UpWhole /\ UpAsked

\* On the way down the same, from the last byte the client has read to the last the server
\* has read; the replay starts at the offset the client asked for.
Counted == delivered + uncounted    \* bytes on stdout, as this connection counts them
Read == Counted + Len(hin)          \* bytes the client has read, as it counts them
Shown == Runs(Counted, hin) /\ Read <= given
DownFlows == Reading => Flows(s2c[conn], Read, given)
DownWhole ==
  Serving /\ on = conn /\ Reading =>
    /\ NoFin(s2c[on]) /\ Runs(Read + Len(s2c[on]), sout)
    /\ Read + Len(s2c[on]) + Len(sout) = given
DownInv == Shown /\ DownFlows /\ DownWhole

\* stdout has every byte that is counted, and no byte before the ones that precede it.
Covers(out, c) == \A b \in 1 .. c : \E j \in DOMAIN out : out[j] = b
Gapless(out) == \A i \in DOMAIN out : \A b \in 1 .. out[i] : \E j \in 1 .. i : out[j] = b
Printed(out, c) == Len(out) >= c /\ Covers(out, c) /\ (Len(out) = c => Runs(0, out)) /\ Gapless(out)
OutInv == Printed(stdout, Counted)

IInv == TypeInv /\ PhaseInv /\ LabelInv /\ AskInv /\ TrimInv /\ UpInv /\ DownInv /\ OutInv
-----------------------------------------------------------------------------
(* Pieces of streams. *)

\* The first n bytes of a piece, and the rest.
LEMMA FirstNIs ==
  ASSUME NEW s \in Seq(Nat), NEW n \in Nat, n <= Len(s)
  PROVE  /\ FirstN(s, n) \in Seq(Nat) /\ Len(FirstN(s, n)) = n
         /\ \A i \in 1 .. n : FirstN(s, n)[i] = s[i]
BY DEF FirstN

\* What is left of a piece without its first n bytes.
LEMMA WithoutIs ==
  ASSUME NEW s \in Seq(Nat), NEW n \in Nat, n <= Len(s)
  PROVE  /\ Without(s, n) \in Seq(Nat) /\ Len(Without(s, n)) = Len(s) - n
         /\ \A i \in 1 .. Len(s) - n : Without(s, n)[i] = s[n + i]
BY DEF Without

\* One piece after another.
LEMMA ConcatIs ==
  ASSUME NEW s \in Seq(Nat), NEW t \in Seq(Nat)
  PROVE  /\ s \o t \in Seq(Nat) /\ Len(s \o t) = Len(s) + Len(t)
         /\ \A i \in 1 .. Len(s) : (s \o t)[i] = s[i]
         /\ \A i \in Len(s) + 1 .. Len(s) + Len(t) : (s \o t)[i] = t[i - Len(s)]
OBVIOUS

\* A sequence is a function on its positions.
LEMMA SeqDomain == ASSUME NEW s \in Seq(Nat) PROVE DOMAIN s = 1 .. Len(s) /\ Len(s) \in Nat
OBVIOUS

\* The bytes that are read next are labelled right.
LEMMA NextBytesIs ==
  ASSUME NEW a \in Nat, NEW n \in Nat
  PROVE  /\ NextBytes(a, n) \in Seq(Nat) /\ Len(NextBytes(a, n)) = n
         /\ Runs(a, NextBytes(a, n))
BY DEF NextBytes, Runs

\* A run splits into two runs.
LEMMA RunsSplit ==
  ASSUME NEW a \in Nat, NEW s \in Seq(Nat), Runs(a, s), NEW n \in Nat, n <= Len(s)
  PROVE  Runs(a, FirstN(s, n)) /\ Runs(a + n, Without(s, n))
<1>1. \A i \in 1 .. Len(s) : s[i] = a + i
  BY SeqDomain DEF Runs
<1>2. Runs(a, FirstN(s, n))
  BY <1>1, FirstNIs, SeqDomain DEF Runs
<1>3. Runs(a + n, Without(s, n))
  <2>1. Len(s) \in Nat /\ DOMAIN Without(s, n) = 1 .. Len(s) - n
    BY WithoutIs, SeqDomain
  <2>2. ASSUME NEW i \in 1 .. Len(s) - n PROVE Without(s, n)[i] = (a + n) + i
    <3>1. n + i \in 1 .. Len(s)
      BY <2>1
    <3>2. Without(s, n)[i] = s[n + i]
      BY WithoutIs
    <3>3. s[n + i] = a + (n + i)
      BY <1>1, <3>1
    <3> QED BY <3>2, <3>3
  <2> QED BY <2>1, <2>2 DEF Runs
<1> QED BY <1>2, <1>3

\* A run and its continuation are a run.
LEMMA RunsJoin ==
  ASSUME NEW a \in Nat, NEW s \in Seq(Nat), NEW t \in Seq(Nat), Runs(a, s), Runs(a + Len(s), t)
  PROVE  Runs(a, s \o t)
<1>1. /\ DOMAIN s = 1 .. Len(s) /\ Len(s) \in Nat /\ DOMAIN t = 1 .. Len(t) /\ Len(t) \in Nat
      /\ DOMAIN (s \o t) = 1 .. Len(s) + Len(t)
  BY SeqDomain, ConcatIs
<1>2. ASSUME NEW i \in 1 .. Len(s) + Len(t) PROVE (s \o t)[i] = a + i
  <2>1. CASE i <= Len(s)
    <3>1. i \in 1 .. Len(s) /\ (s \o t)[i] = s[i]
      BY <1>1, <2>1, ConcatIs
    <3> QED BY <1>1, <3>1 DEF Runs
  <2>2. CASE i > Len(s)
    <3>1. i \in Len(s) + 1 .. Len(s) + Len(t) /\ i - Len(s) \in 1 .. Len(t)
      BY <1>1, <2>2
    <3>2. (s \o t)[i] = t[i - Len(s)]
      BY <3>1, ConcatIs
    <3>3. t[i - Len(s)] = (a + Len(s)) + (i - Len(s))
      BY <1>1, <3>1 DEF Runs
    <3> QED BY <1>1, <3>2, <3>3
  <2> QED BY <1>1, <2>1, <2>2
<1> QED BY <1>1, <1>2 DEF Runs

\* Nothing is a run from anywhere, and an empty stream carries nothing.
LEMMA EmptyIs == <<>> \in Seq(Nat) /\ Len(<<>>) = 0 /\ NoFin(<<>>)
                 /\ \A a, u : Runs(a, <<>>) /\ Flows(<<>>, a, u)
BY DEF Runs, Flows, NoFin

\* What is read from a stream continues what was read before.
LEMMA FlowsRead ==
  ASSUME NEW a \in Nat, NEW u \in Nat, NEW q \in Seq(Nat), Flows(q, a, u),
         NEW n \in Nat, n \in Readable(q)
  PROVE  /\ n \in Nat \ {0} /\ n <= Len(q) /\ a + n <= u
         /\ Runs(a, FirstN(q, n)) /\ Flows(Without(q, n), a + n, u)
<1>1. n \in Nat \ {0} /\ n <= Len(q) /\ Len(q) \in Nat /\ DOMAIN q = 1 .. Len(q)
  BY SizesAssumption, SeqDomain DEF Readable
<1>2. \A i \in 1 .. n : q[i] # Fin
  BY DEF Readable
<1>3. ASSUME NEW i \in 1 .. n PROVE q[i] = a + i /\ a + i <= u
  <2>1. i \in DOMAIN q /\ q[i] # Fin
    BY <1>1, <1>2
  <2> QED BY <2>1 DEF Flows
<1>4. a + n <= u
  BY <1>1, <1>3
<1>5. Runs(a, FirstN(q, n))
  BY <1>1, <1>3, FirstNIs, SeqDomain DEF Runs
<1>6. Flows(Without(q, n), a + n, u)
  <2>1. Len(Without(q, n)) = Len(q) - n /\ DOMAIN Without(q, n) = 1 .. Len(q) - n
    BY <1>1, WithoutIs, SeqDomain
  <2>2. ASSUME NEW i \in 1 .. Len(q) - n
        PROVE  \/ Without(q, n)[i] = (a + n) + i /\ (a + n) + i <= u
               \/ Without(q, n)[i] = Fin /\ i = Len(q) - n
    <3>1. n + i \in 1 .. Len(q)
      BY <1>1
    <3>2. Without(q, n)[i] = q[n + i]
      BY <1>1, WithoutIs
    <3>3. a + (n + i) = (a + n) + i /\ (n + i = Len(q) => i = Len(q) - n)
      OBVIOUS
    <3>4. \/ q[n + i] = a + (n + i) /\ a + (n + i) <= u
          \/ q[n + i] = Fin /\ n + i = Len(q)
      BY <1>1, <3>1 DEF Flows
    <3> QED BY <3>2, <3>3, <3>4
  <2> QED BY <2>1, <2>2 DEF Flows
<1> QED BY <1>1, <1>4, <1>5, <1>6

\* What is written to a stream continues what is in it.
LEMMA FlowsMore ==
  ASSUME NEW a \in Nat, NEW u \in Nat, NEW q \in Seq(Nat), NEW w \in Seq(Nat),
         Flows(q, a, u), NoFin(q), Runs(a + Len(q), w), a + Len(q) + Len(w) <= u
  PROVE  Flows(q \o w, a, u) /\ NoFin(q \o w)
<1>1. /\ DOMAIN q = 1 .. Len(q) /\ Len(q) \in Nat /\ DOMAIN w = 1 .. Len(w) /\ Len(w) \in Nat
      /\ DOMAIN (q \o w) = 1 .. Len(q) + Len(w)
  BY SeqDomain, ConcatIs
<1>2. Runs(a, q)
  BY DEF Flows, NoFin, Runs
<1>3. Runs(a, q \o w)
  BY <1>2, RunsJoin
<1>4. ASSUME NEW i \in 1 .. Len(q) + Len(w)
      PROVE  (q \o w)[i] = a + i /\ a + i <= u /\ (q \o w)[i] # Fin
  <2>1. (q \o w)[i] = a + i
    BY <1>1, <1>3 DEF Runs
  <2> QED BY <1>1, <2>1 DEF Fin
<1> QED BY <1>1, <1>4 DEF Flows, NoFin

\* A stream may be finished once.
LEMMA FlowsFin ==
  ASSUME NEW a \in Nat, NEW u \in Nat, NEW q \in Seq(Nat), Flows(q, a, u), NoFin(q)
  PROVE  Append(q, Fin) \in Seq(Nat) /\ Flows(Append(q, Fin), a, u)
<1>1. /\ Append(q, Fin) \in Seq(Nat) /\ Len(q) \in Nat /\ Len(Append(q, Fin)) = Len(q) + 1
      /\ DOMAIN q = 1 .. Len(q) /\ DOMAIN Append(q, Fin) = 1 .. Len(q) + 1
      /\ \A i \in 1 .. Len(q) : Append(q, Fin)[i] = q[i]
      /\ Append(q, Fin)[Len(q) + 1] = Fin
  BY DEF Fin
<1>2. \A i \in 1 .. Len(q) : q[i] = a + i /\ a + i <= u
  BY <1>1 DEF Flows, NoFin
<1>3. \A i \in 1 .. Len(q) + 1 : i \in 1 .. Len(q) \/ i = Len(q) + 1
  BY <1>1
<1> QED BY <1>1, <1>2, <1>3 DEF Flows

\* Reading adds no Fin.
LEMMA NoFinRest ==
  ASSUME NEW q \in Seq(Nat), NoFin(q), NEW n \in Nat, n <= Len(q)
  PROVE  NoFin(Without(q, n))
<1>1. DOMAIN q = 1 .. Len(q) /\ Len(q) \in Nat /\ DOMAIN Without(q, n) = 1 .. Len(q) - n
  BY SeqDomain, WithoutIs
<1>2. ASSUME NEW i \in 1 .. Len(q) - n PROVE Without(q, n)[i] # Fin
  <2>1. n + i \in 1 .. Len(q)
    BY <1>1
  <2>2. Without(q, n)[i] = q[n + i]
    BY WithoutIs
  <2> QED BY <1>1, <2>1, <2>2 DEF NoFin
<1> QED BY <1>1, <1>2 DEF NoFin

\* A stream stays what it is while its source reads on.
LEMMA FlowsLater ==
  ASSUME NEW a \in Nat, NEW u \in Nat, NEW v \in Nat, u <= v, NEW q \in Seq(Nat), Flows(q, a, u)
  PROVE  Flows(q, a, v)
BY SeqDomain DEF Flows

-----------------------------------------------------------------------------
(* The replay buffer. *)

\* advance_start moves the first offset with the first byte, never past what is confirmed.
LEMMA AdvanceIs ==
  ASSUME NEW buf \in Buffers, NEW c \in Nat, NEW b, b = AdvanceStart(buf, c)
  PROVE  /\ b \in Buffers /\ EndOffset(b) = EndOffset(buf) /\ Len(b.data) <= Len(buf.data)
         /\ buf.start <= b.start /\ (b.start <= c \/ b.start = buf.start)
         /\ Runs(buf.start, buf.data) => Runs(b.start, b.data)
<1> DEFINE n == Discarded(buf, c)
<1>1. buf.start \in Nat /\ buf.data \in Seq(Nat) /\ Len(buf.data) \in Nat
  BY DEF Buffers
<1>2. n \in Nat /\ n <= Len(buf.data) /\ (n = 0 \/ buf.start + n <= c)
  BY <1>1 DEF Discarded
<1>3. b = [start |-> buf.start + n, data |-> Without(buf.data, n)]
  BY DEF AdvanceStart, Without
<1> HIDE DEF n
<1>4. b.start = buf.start + n /\ b.data = Without(buf.data, n)
  BY <1>3
<1>5. Without(buf.data, n) \in Seq(Nat) /\ Len(Without(buf.data, n)) = Len(buf.data) - n
  BY <1>1, <1>2, WithoutIs
<1>6. b \in Buffers
  BY <1>1, <1>2, <1>3, <1>5 DEF Buffers
<1>7. Runs(buf.start, buf.data) => Runs(b.start, b.data)
  BY <1>1, <1>2, <1>4, RunsSplit
<1>8. EndOffset(b) = EndOffset(buf) /\ Len(b.data) <= Len(buf.data)
  <2>1. Len(b.data) = Len(buf.data) - n
    BY <1>4, <1>5
  <2>2. b.start + Len(b.data) = buf.start + Len(buf.data)
    BY <1>1, <1>2, <1>4, <2>1
  <2> QED BY <1>1, <1>2, <2>1, <2>2 DEF EndOffset
<1> QED BY <1>1, <1>2, <1>4, <1>6, <1>7, <1>8

\* append of what fits continues the run of the buffer.
LEMMA AppendedIs ==
  ASSUME NEW buf \in Buffers, NEW cap \in Nat, NEW w \in Seq(Nat), NEW b,
         Len(buf.data) <= cap, Len(w) <= RemainingCapacity(buf, cap), b = Appended(buf, cap, w)
  PROVE  /\ b \in Buffers /\ b.start = buf.start /\ EndOffset(b) = EndOffset(buf) + Len(w)
         /\ Len(b.data) <= cap
         /\ Runs(buf.start, buf.data) /\ Runs(EndOffset(buf), w) => Runs(b.start, b.data)
<1>1. buf.start \in Nat /\ buf.data \in Seq(Nat) /\ Len(buf.data) \in Nat /\ Len(w) \in Nat
  BY DEF Buffers
<1>2. b = [buf EXCEPT !.data = buf.data \o w]
  BY DEF Appended, HasRoom
<1>3. b \in Buffers /\ b.start = buf.start /\ b.data = buf.data \o w
  <2> DEFINE d == buf.data \o w
  <2>1. d \in Seq(Nat)
    BY <1>1, ConcatIs
  <2>2. b = [buf EXCEPT !.data = d]
    BY <1>2
  <2> HIDE DEF d
  <2>3. b \in Buffers /\ b.start = buf.start /\ b.data = d
    BY <2>1, <2>2 DEF Buffers
  <2> QED BY <2>3 DEF d
<1>4. Len(b.data) = Len(buf.data) + Len(w)
  BY <1>1, <1>3, ConcatIs
<1>5. Len(w) <= cap - Len(buf.data)
  BY <1>1 DEF RemainingCapacity
<1>6. Runs(buf.start, buf.data) /\ Runs(EndOffset(buf), w) => Runs(b.start, b.data)
  BY <1>1, <1>3, RunsJoin DEF EndOffset
<1>7. EndOffset(b) = EndOffset(buf) + Len(w) /\ Len(b.data) <= cap
  BY <1>1, <1>3, <1>4, <1>5 DEF EndOffset
<1> QED BY <1>3, <1>6, <1>7

\* What is left of a run from one of its offsets on.
LEMMA RunFrom ==
  ASSUME NEW a \in Nat, NEW s \in Seq(Nat), Runs(a, s), NEW from \in Nat,
         a <= from, from <= a + Len(s), NEW r, r = SubSeq(s, from - a + 1, Len(s))
  PROVE  r \in Seq(Nat) /\ Runs(from, r) /\ from + Len(r) = a + Len(s)
<1>1. PICK n \in Nat : n = from - a
  OBVIOUS
<1>2. n <= Len(s) /\ a + n = from /\ r = Without(s, n)
  BY <1>1 DEF Without
<1>3. r \in Seq(Nat) /\ Len(r) = Len(s) - n
  BY <1>2, WithoutIs
<1>4. Runs(from, r)
  BY <1>2, RunsSplit
<1>5. from + Len(r) = a + Len(s)
  BY <1>2, <1>3
<1> QED BY <1>3, <1>4, <1>5

\* replay_from an offset in range is the run from there to the end of the buffer.
LEMMA ReplayIs ==
  ASSUME NEW buf \in Buffers, NEW from \in Nat, InRange(buf, from), Runs(buf.start, buf.data)
  PROVE  /\ ReplayFrom(buf, from) \in Seq(Nat) /\ Runs(from, ReplayFrom(buf, from))
         /\ from + Len(ReplayFrom(buf, from)) = EndOffset(buf)
<1>1. buf.start \in Nat /\ buf.data \in Seq(Nat)
  BY DEF Buffers
<1> QED BY <1>1, RunFrom DEF InRange, EndOffset, ReplayFrom

\* n bytes move from the piece w to the end of q.
LEMMA Moves ==
  ASSUME NEW q \in Seq(Nat), NEW w \in Seq(Nat), NEW n \in Nat, n <= Len(w)
  PROVE  /\ q \o FirstN(w, n) \in Seq(Nat) /\ Len(q \o FirstN(w, n)) = Len(q) + n
         /\ Without(w, n) \in Seq(Nat) /\ Len(Without(w, n)) = Len(w) - n
<1>1. PICK f \in Seq(Nat) : f = FirstN(w, n) /\ Len(f) = n
  BY FirstNIs
<1>2. q \o f \in Seq(Nat) /\ Len(q \o f) = Len(q) + Len(f)
  BY ConcatIs
<1> QED BY <1>1, <1>2, WithoutIs

\* n of the c bytes that were to be sent are on the way.
LEMMA Sums ==
  ASSUME NEW a \in Nat, NEW b \in Nat, NEW c \in Nat, NEW n \in Nat, NEW t, a + b + c = t, n <= c
  PROVE  a + b + n <= t /\ a + (b + n) + (c - n) = t /\ (a + b) + n = a + (b + n)
OBVIOUS

-----------------------------------------------------------------------------
(* What the steps do to the streams. *)

\* Chunks and writes have at least one byte.
LEMMA Counts ==
  Chunks \subseteq Nat \ {0} /\ Writes \subseteq Nat \ {0} /\ 0 .. MaxChunk \subseteq Nat
BY SizesAssumption DEF Chunks, Writes

\* pump_c2h reads what its buffer has room for, so that none of it is refused.
LEMMA ReadsStdinIs ==
  ASSUME TypeInv, LabelInv, NEW n \in Chunks, ReadsStdin(n)
  PROVE  /\ n \in Nat \ {0} /\ taken' = taken + n /\ taken' \in Nat /\ taken' <= StdinBytes
         /\ cout = <<>> /\ cst = "pump" /\ ~eof
         /\ cout' \in Seq(Nat) /\ Len(cout') = n /\ Runs(taken, cout')
         /\ cbuf' \in Buffers /\ cbuf'.start = cbuf.start /\ Len(cbuf'.data) <= ClientCap
         /\ EndOffset(cbuf') = taken' /\ Runs(cbuf'.start, cbuf'.data)
<1>1. n \in Nat \ {0} /\ taken \in Nat /\ cbuf \in Buffers /\ ClientCap \in Nat
  BY Counts, SizesAssumption DEF TypeInv, ClientTypes
<1>2. Runs(cbuf.start, cbuf.data) /\ EndOffset(cbuf) = taken /\ Len(cbuf.data) <= ClientCap
  BY DEF LabelInv, ReplayIsLabelled
<1>3. /\ taken' = taken + n /\ taken' <= StdinBytes /\ cout = <<>> /\ cst = "pump" /\ ~eof
      /\ n <= RemainingCapacity(cbuf, ClientCap) /\ cout' = NextBytes(taken, n)
      /\ cbuf' = Appended(cbuf, ClientCap, NextBytes(taken, n))
  BY DEF ReadsStdin, CanReadStdin
<1>4. cout' \in Seq(Nat) /\ Len(cout') = n /\ Runs(taken, cout')
  BY <1>1, <1>3, NextBytesIs
<1>5. cbuf' = Appended(cbuf, ClientCap, cout') /\ Len(cout') <= RemainingCapacity(cbuf, ClientCap)
  BY <1>3, <1>4
<1>6. /\ cbuf' \in Buffers /\ cbuf'.start = cbuf.start /\ Len(cbuf'.data) <= ClientCap
      /\ EndOffset(cbuf') = EndOffset(cbuf) + Len(cout')
      /\ Runs(cbuf.start, cbuf.data) /\ Runs(EndOffset(cbuf), cout') => Runs(cbuf'.start, cbuf'.data)
  BY <1>1, <1>2, <1>4, <1>5, AppendedIs
<1>7. EndOffset(cbuf') = taken + n /\ Runs(cbuf'.start, cbuf'.data)
  BY <1>2, <1>4, <1>6
<1>8. taken' \in Nat
  BY <1>1, <1>3
<1> QED BY <1>1, <1>3, <1>4, <1>6, <1>7, <1>8

\* relay_buffered does the same with the target's output, or goes on without the buffer.
LEMMA RelayReadsTargetIs ==
  ASSUME TypeInv, LabelInv, NEW n \in Chunks, RelayReadsTarget(n)
  PROVE  /\ n \in Nat \ {0} /\ given' = given + n /\ given' \in Nat /\ given' <= TargetBytes
         /\ sout = <<>> /\ sst = "relay" /\ sin = <<>>
         /\ sout' \in Seq(Nat) /\ Len(sout') = n /\ Runs(given, sout')
         /\ sbuf' \in Buffers /\ sbuf'.start = sbuf.start /\ Len(sbuf'.data) <= ServerCap
         /\ (~hole => EndOffset(sbuf') = given') /\ Runs(sbuf'.start, sbuf'.data)
<1>1. n \in Nat \ {0} /\ given \in Nat /\ sbuf \in Buffers /\ ServerCap \in Nat
  BY Counts, SizesAssumption DEF TypeInv, ServerTypes
<1>2. /\ Runs(sbuf.start, sbuf.data) /\ (~hole => EndOffset(sbuf) = given)
      /\ Len(sbuf.data) <= ServerCap
  BY DEF LabelInv, ReplayIsLabelled
<1>3. /\ given' = given + n /\ given' <= TargetBytes
      /\ sout = <<>> /\ sst = "relay" /\ sin = <<>> /\ sout' = NextBytes(given, n)
  BY DEF RelayReadsTarget, AtSelect
<1>4. sout' \in Seq(Nat) /\ Len(sout') = n /\ Runs(given, sout')
  BY <1>1, <1>3, NextBytesIs
<1>5. given' \in Nat
  BY <1>1, <1>3
<1>6. CASE hole
  <2>1. sbuf' = sbuf
    BY <1>6 DEF RelayReadsTarget
  <2> QED BY <1>1, <1>2, <1>3, <1>4, <1>5, <1>6, <2>1
<1>7. CASE ~hole
  <2>1. sbuf' = Appended(sbuf, ServerCap, sout') /\ Len(sout') <= RemainingCapacity(sbuf, ServerCap)
    BY <1>3, <1>4, <1>7 DEF RelayReadsTarget
  <2>2. /\ sbuf' \in Buffers /\ sbuf'.start = sbuf.start /\ Len(sbuf'.data) <= ServerCap
        /\ EndOffset(sbuf') = EndOffset(sbuf) + Len(sout')
        /\ Runs(sbuf.start, sbuf.data) /\ Runs(EndOffset(sbuf), sout') => Runs(sbuf'.start, sbuf'.data)
    BY <1>1, <1>2, <1>4, <2>1, AppendedIs
  <2>3. EndOffset(sbuf') = given + n /\ Runs(sbuf'.start, sbuf'.data)
    BY <1>2, <1>4, <1>7, <2>2
  <2> QED BY <1>1, <1>3, <1>4, <1>5, <2>2, <2>3
<1> QED BY <1>6, <1>7

\* The client hands bytes to its connection.
LEMMA SendsChunkIs ==
  ASSUME TypeInv, NEW n \in Writes, SendsChunk(n)
  PROVE  /\ n \in Nat \ {0} /\ n <= Len(cout) /\ Sending
         /\ cout' = Without(cout, n) /\ cout' \in Seq(Nat) /\ Len(cout') = Len(cout) - n
         /\ c2s' \in [ConnIds -> Seq(Nat)] /\ c2s'[conn] = c2s[conn] \o FirstN(cout, n)
         /\ Len(c2s'[conn]) = Len(c2s[conn]) + n
         /\ \A g \in ConnIds \ {conn} : c2s'[g] = c2s[g]
<1>1. /\ n \in Nat \ {0} /\ cout \in Seq(Nat) /\ conn \in ConnIds
      /\ c2s \in [ConnIds -> Seq(Nat)] /\ c2s[conn] \in Seq(Nat)
  BY Counts DEF TypeInv, ClientTypes, NetTypes
<1>2. n <= Len(cout) /\ cout' = Without(cout, n) /\ Sending
  BY DEF SendsChunk, Sending
<1>3. PICK q \in Seq(Nat) : q = c2s[conn] \o FirstN(cout, n) /\ Len(q) = Len(c2s[conn]) + n
  BY <1>1, <1>2, Moves
<1>4. c2s' = [c2s EXCEPT ![conn] = q]
  BY <1>3 DEF SendsChunk
<1>5. /\ c2s' \in [ConnIds -> Seq(Nat)] /\ c2s'[conn] = q
      /\ \A g \in ConnIds \ {conn} : c2s'[g] = c2s[g]
  BY <1>1, <1>4
<1>6. cout' \in Seq(Nat) /\ Len(cout') = Len(cout) - n
  BY <1>1, <1>2, Moves
<1> QED BY <1>1, <1>2, <1>3, <1>5, <1>6

\* The server hands bytes to its connection.
LEMMA SendsToClientIs ==
  ASSUME TypeInv, NEW n \in Writes, SendsToClient(n)
  PROVE  /\ n \in Nat \ {0} /\ n <= Len(sout) /\ Serving
         /\ sout' = Without(sout, n) /\ sout' \in Seq(Nat) /\ Len(sout') = Len(sout) - n
         /\ s2c' \in [ConnIds -> Seq(Nat)] /\ s2c'[on] = s2c[on] \o FirstN(sout, n)
         /\ Len(s2c'[on]) = Len(s2c[on]) + n
         /\ \A g \in ConnIds \ {on} : s2c'[g] = s2c[g]
<1>1. /\ n \in Nat \ {0} /\ sout \in Seq(Nat) /\ on \in ConnIds
      /\ s2c \in [ConnIds -> Seq(Nat)] /\ s2c[on] \in Seq(Nat)
  BY Counts DEF TypeInv, ServerTypes, NetTypes
<1>2. n <= Len(sout) /\ sout' = Without(sout, n) /\ Serving
  BY DEF SendsToClient, Serving
<1>3. PICK q \in Seq(Nat) : q = s2c[on] \o FirstN(sout, n) /\ Len(q) = Len(s2c[on]) + n
  BY <1>1, <1>2, Moves
<1>4. s2c' = [s2c EXCEPT ![on] = q]
  BY <1>3 DEF SendsToClient
<1>5. /\ s2c' \in [ConnIds -> Seq(Nat)] /\ s2c'[on] = q
      /\ \A g \in ConnIds \ {on} : s2c'[g] = s2c[g]
  BY <1>1, <1>4
<1>6. sout' \in Seq(Nat) /\ Len(sout') = Len(sout) - n
  BY <1>1, <1>2, Moves
<1> QED BY <1>1, <1>2, <1>3, <1>5, <1>6

\* A read of a stream takes bytes off it and no Fin.
LEMMA Takes ==
  ASSUME NEW f \in [ConnIds -> Seq(Nat)], NEW g \in ConnIds, NEW n \in Nat, n \in Readable(f[g]),
         NEW h, h = [f EXCEPT ![g] = Without(@, n)]
  PROVE  /\ n <= Len(f[g]) /\ FirstN(f[g], n) \in Seq(Nat) /\ Len(FirstN(f[g], n)) = n
         /\ h \in [ConnIds -> Seq(Nat)] /\ h[g] = Without(f[g], n) /\ Len(h[g]) = Len(f[g]) - n
         /\ \A i \in ConnIds \ {g} : h[i] = f[i]
<1>1. f[g] \in Seq(Nat) /\ n <= Len(f[g])
  BY DEF Readable
<1>2. PICK q \in Seq(Nat) : q = Without(f[g], n) /\ Len(q) = Len(f[g]) - n
  BY <1>1, WithoutIs
<1>3. FirstN(f[g], n) \in Seq(Nat) /\ Len(FirstN(f[g], n)) = n
  BY <1>1, FirstNIs
<1>4. h = [f EXCEPT ![g] = q]
  BY <1>2
<1>5. h \in [ConnIds -> Seq(Nat)] /\ h[g] = q /\ \A i \in ConnIds \ {g} : h[i] = f[i]
  BY <1>4
<1> QED BY <1>1, <1>2, <1>3, <1>5

\* A handler that returns may finish its stream.
LEMMA DropsIs ==
  ASSUME TypeInv, NEW fin, Drops(fin)
  PROVE  /\ s2c' \in [ConnIds -> Seq(Nat)]
         /\ s2c'[on] = s2c[on] \/ s2c'[on] = Append(s2c[on], Fin)
         /\ \A g \in ConnIds \ {on} : s2c'[g] = s2c[g]
<1>1. on \in ConnIds /\ s2c \in [ConnIds -> Seq(Nat)] /\ Append(s2c[on], Fin) \in Seq(Nat)
  BY DEF TypeInv, ServerTypes, NetTypes, Fin
<1>2. s2c' = s2c \/ s2c' = [s2c EXCEPT ![on] = Append(s2c[on], Fin)]
  BY DEF Drops
<1> QED BY <1>1, <1>2

-----------------------------------------------------------------------------
(* Types. *)

\* Every step of either end leaves the client's state well typed.
LEMMA ClientTypesStep == TypeInv /\ LabelInv /\ [Next]_vars => ClientTypes'
<1> SUFFICES ASSUME TypeInv, LabelInv, [Next]_vars PROVE ClientTypes'
  OBVIOUS
<1> USE DEF TypeInv, ClientTypes, ConnIds, MaxConns, StdinBytes, client, server, net
<1>1. CASE TrimsReplay
  <2>1. cbuf' \in Buffers
    BY <1>1, AdvanceIs DEF TrimsReplay
  <2> QED BY <1>1, <2>1 DEF TrimsReplay
<1>2. ASSUME NEW n \in Chunks, ReadsStdin(n) PROVE ClientTypes'
  <2>1. cout' \in Seq(Nat) /\ cbuf' \in Buffers /\ taken' \in Nat /\ taken' <= StdinBytes
    BY <1>2, ReadsStdinIs
  <2> QED BY <1>2, <2>1 DEF ReadsStdin
<1>3. CASE ReadsEof
  BY <1>3 DEF ReadsEof
<1>4. ASSUME NEW n \in Writes, SendsChunk(n) PROVE ClientTypes'
  <2>1. cout' \in Seq(Nat)
    BY <1>4, SendsChunkIs
  <2> QED BY <1>4, <2>1 DEF SendsChunk
<1>5. ASSUME NEW n \in Chunks, ReadsStream(n) PROVE ClientTypes'
  <2>1. n \in Nat /\ s2c \in [ConnIds -> Seq(Nat)]
    BY Counts DEF NetTypes
  <2>2. hin' \in Seq(Nat)
    BY <1>5, <2>1, Takes DEF ReadsStream
  <2> QED BY <1>5, <2>2 DEF ReadsStream
<1>6. ASSUME NEW n \in Chunks, WritesStdout(n) PROVE ClientTypes'
  <2>1. n \in Nat
    BY Counts
  <2>2. stdout' \in Seq(Nat) /\ hin' \in Seq(Nat) /\ uncounted' \in Nat
    BY <1>6, <2>1, Moves DEF WritesStdout
  <2> QED BY <1>6, <2>2 DEF WritesStdout
<1>7. CASE CountsDelivered
  BY <1>7 DEF CountsDelivered
<1>8. CASE Finishes
  BY <1>8 DEF Finishes
<1>9. ASSUME NEW k \in 0 .. MaxChunk, Disconnects(k) PROVE ClientTypes'
  <2>1. k \in Nat
    BY Counts
  <2>2. stdout' \in Seq(Nat)
    BY <1>9, <2>1, Moves DEF Disconnects
  <2>3. hin' \in Seq(Nat) /\ cout' \in Seq(Nat) /\ uncounted' \in Nat
    BY <1>9 DEF Disconnects
  <2> QED BY <1>9, <2>2, <2>3 DEF Disconnects
<1>10. CASE SendsResume
  <2>1. conn' \in ConnIds
    BY <1>10 DEF SendsResume, NetTypes
  <2> QED BY <1>10, <2>1 DEF SendsResume
<1>11. CASE AttemptFails
  BY <1>11 DEF AttemptFails
<1>12. CASE GetsResumeAck
  <2>1. reply[conn].committed \in Nat /\ Runs(cbuf.start, cbuf.data)
    BY DEF NetTypes, Replies, LabelInv, ReplayIsLabelled
  <2>2. cout' \in Seq(Nat)
    BY <1>12, <2>1, ReplayIs DEF GetsResumeAck
  <2> QED BY <1>12, <2>2 DEF GetsResumeAck
<1>13. ASSUME NEW opened \in BOOLEAN, ResumesPumping(opened) PROVE ClientTypes'
  <2>1. reply[conn].committed \in Nat
    BY DEF NetTypes, Replies
  <2>2. cbuf' \in Buffers
    BY <1>13, <2>1, AdvanceIs DEF ResumesPumping
  <2> QED BY <1>13, <2>2 DEF ResumesPumping
<1>14. CASE GivesUp
  BY <1>14 DEF GivesUp
<1>15. ASSUME NEW n \in Chunks, RelayReadsStream(n) PROVE ClientTypes'
  BY <1>15 DEF RelayReadsStream
<1>16. ASSUME NEW n \in Chunks, WritesTarget(n) PROVE ClientTypes'
  BY <1>16 DEF WritesTarget
<1>17. ASSUME NEW n \in Chunks, RelayReadsTarget(n) PROVE ClientTypes'
  BY <1>17 DEF RelayReadsTarget
<1>18. ASSUME NEW n \in Writes, SendsToClient(n) PROVE ClientTypes'
  BY <1>18 DEF SendsToClient
<1>19. CASE GivesUpReplay
  BY <1>19 DEF GivesUpReplay
<1>20. ASSUME NEW fin \in BOOLEAN, RelayStops(fin) PROVE ClientTypes'
  BY <1>20 DEF RelayStops
<1>21. CASE TargetCloses
  BY <1>21 DEF TargetCloses
<1>22. ASSUME NEW fin \in BOOLEAN, TargetFails(fin) PROVE ClientTypes'
  BY <1>22 DEF TargetFails
<1>23. ASSUME NEW g \in ConnIds, GrantsResume(g) PROVE ClientTypes'
  BY <1>23 DEF GrantsResume
<1>24. ASSUME NEW g \in ConnIds, RejectsResume(g) PROVE ClientTypes'
  BY <1>24 DEF RejectsResume
<1>25. CASE AckWritten
  BY <1>25 DEF AckWritten
<1>26. CASE AckFails
  BY <1>26 DEF AckFails
<1>27. CASE Sweeps
  BY <1>27 DEF Sweeps
<1>28. CASE ControlTimesOut
  BY <1>28 DEF ControlTimesOut
<1>29. CASE SendsAppAck
  BY <1>29 DEF SendsAppAck
<1>30. ASSUME NEW g \in ConnIds, ServerGetsAppAck(g) PROVE ClientTypes'
  BY <1>30 DEF ServerGetsAppAck
<1>31. ASSUME NEW g \in ConnIds, ServerSendsAppAck(g) PROVE ClientTypes'
  BY <1>31 DEF ServerSendsAppAck
<1>32. CASE GetsAppAck
  <2>1. acked' \in Nat
    BY <1>32 DEF GetsAppAck, NetTypes
  <2> QED BY <1>32, <2>1 DEF GetsAppAck
<1>33. CASE AckSenderStops
  BY <1>33 DEF AckSenderStops
<1>34. ASSUME NEW g \in ConnIds, NEW task \in AckTasks, AckTaskFails(g, task) PROVE ClientTypes'
  BY <1>34 DEF AckTaskFails
<1>35. CASE UNCHANGED vars
  BY <1>35 DEF vars, client, server, net
<1> QED
  BY <1>1, <1>2, <1>3, <1>4, <1>5, <1>6, <1>7, <1>8, <1>9, <1>10, <1>11, <1>12, <1>13, <1>14,
     <1>15, <1>16, <1>17, <1>18, <1>19, <1>20, <1>21, <1>22, <1>23, <1>24, <1>25, <1>26, <1>27,
     <1>28, <1>29, <1>30, <1>31, <1>32, <1>33, <1>34, <1>35
  DEF Next, ClientPumps, ClientResumes, ServerRelays, AppAcks, Failures

\* ... and the server's: what it appends to its buffer or replays from it are bytes.
LEMMA ServerTypesStep == TypeInv /\ LabelInv /\ [Next]_vars => ServerTypes'
<1> SUFFICES ASSUME TypeInv, LabelInv, [Next]_vars PROVE ServerTypes'
  OBVIOUS
<1> USE DEF TypeInv, ServerTypes, ConnIds, MaxConns, TargetBytes, client, server, net
<1>1. CASE TrimsReplay
  BY <1>1 DEF TrimsReplay
<1>2. ASSUME NEW n \in Chunks, ReadsStdin(n) PROVE ServerTypes'
  BY <1>2 DEF ReadsStdin
<1>3. CASE ReadsEof
  BY <1>3 DEF ReadsEof
<1>4. ASSUME NEW n \in Writes, SendsChunk(n) PROVE ServerTypes'
  BY <1>4 DEF SendsChunk
<1>5. ASSUME NEW n \in Chunks, ReadsStream(n) PROVE ServerTypes'
  BY <1>5 DEF ReadsStream
<1>6. ASSUME NEW n \in Chunks, WritesStdout(n) PROVE ServerTypes'
  BY <1>6 DEF WritesStdout
<1>7. CASE CountsDelivered
  BY <1>7 DEF CountsDelivered
<1>8. CASE Finishes
  BY <1>8 DEF Finishes
<1>9. ASSUME NEW k \in 0 .. MaxChunk, Disconnects(k) PROVE ServerTypes'
  BY <1>9 DEF Disconnects
<1>10. CASE SendsResume
  BY <1>10 DEF SendsResume
<1>11. CASE AttemptFails
  BY <1>11 DEF AttemptFails
<1>12. CASE GetsResumeAck
  BY <1>12 DEF GetsResumeAck
<1>13. ASSUME NEW opened \in BOOLEAN, ResumesPumping(opened) PROVE ServerTypes'
  BY <1>13 DEF ResumesPumping
<1>14. CASE GivesUp
  BY <1>14 DEF GivesUp
<1>15. ASSUME NEW n \in Chunks, RelayReadsStream(n) PROVE ServerTypes'
  <2>1. n \in Nat /\ c2s \in [ConnIds -> Seq(Nat)]
    BY Counts DEF NetTypes
  <2>2. sin' \in Seq(Nat)
    BY <1>15, <2>1, Takes DEF RelayReadsStream
  <2> QED BY <1>15, <2>2 DEF RelayReadsStream
<1>16. ASSUME NEW n \in Chunks, WritesTarget(n) PROVE ServerTypes'
  <2>1. n \in Nat
    BY Counts
  <2>2. target' \in Seq(Nat) /\ sin' \in Seq(Nat)
    BY <1>16, <2>1, Moves DEF WritesTarget
  <2>3. committed' \in Nat
    BY <1>16, <2>1 DEF WritesTarget
  <2> QED BY <1>16, <2>2, <2>3 DEF WritesTarget
<1>17. ASSUME NEW n \in Chunks, RelayReadsTarget(n) PROVE ServerTypes'
  <2>1. sout' \in Seq(Nat) /\ sbuf' \in Buffers /\ given' \in Nat /\ given' <= TargetBytes
    BY <1>17, RelayReadsTargetIs
  <2> QED BY <1>17, <2>1 DEF RelayReadsTarget
<1>18. ASSUME NEW n \in Writes, SendsToClient(n) PROVE ServerTypes'
  <2>1. sout' \in Seq(Nat)
    BY <1>18, SendsToClientIs
  <2> QED BY <1>18, <2>1 DEF SendsToClient
<1>19. CASE GivesUpReplay
  BY <1>19 DEF GivesUpReplay
<1>20. ASSUME NEW fin \in BOOLEAN, RelayStops(fin) PROVE ServerTypes'
  BY <1>20 DEF RelayStops
<1>21. CASE TargetCloses
  BY <1>21 DEF TargetCloses
<1>22. ASSUME NEW fin \in BOOLEAN, TargetFails(fin) PROVE ServerTypes'
  BY <1>22 DEF TargetFails
<1>23. ASSUME NEW g \in ConnIds, GrantsResume(g) PROVE ServerTypes'
  <2>1. ask[g] \in Nat /\ Runs(sbuf.start, sbuf.data)
    <3>1. ask[g] \in Int /\ ask[g] >= 0
      BY <1>23 DEF GrantsResume, NetTypes
    <3> QED BY <3>1 DEF LabelInv, ReplayIsLabelled
  <2>2. InRange(sbuf, ask[g]) => ReplayFrom(sbuf, ask[g]) \in Seq(Nat)
    BY <2>1, ReplayIs
  <2>3. sout' \in Seq(Nat) /\ on' \in ConnIds /\ sst' \in {"ack", "parked"}
    BY <1>23, <2>2, EmptyIs DEF GrantsResume
  <2> QED BY <1>23, <2>3 DEF GrantsResume
<1>24. ASSUME NEW g \in ConnIds, RejectsResume(g) PROVE ServerTypes'
  BY <1>24 DEF RejectsResume
<1>25. CASE AckWritten
  BY <1>25 DEF AckWritten
<1>26. CASE AckFails
  BY <1>26 DEF AckFails
<1>27. CASE Sweeps
  BY <1>27 DEF Sweeps
<1>28. CASE ControlTimesOut
  BY <1>28 DEF ControlTimesOut
<1>29. CASE SendsAppAck
  BY <1>29 DEF SendsAppAck
<1>30. ASSUME NEW g \in ConnIds, ServerGetsAppAck(g) PROVE ServerTypes'
  <2>1. ackUp[g] \in Nat
    BY DEF NetTypes
  <2>2. sbuf' \in Buffers
    BY <1>30, <2>1, AdvanceIs DEF ServerGetsAppAck
  <2> QED BY <1>30, <2>2 DEF ServerGetsAppAck
<1>31. ASSUME NEW g \in ConnIds, ServerSendsAppAck(g) PROVE ServerTypes'
  BY <1>31 DEF ServerSendsAppAck
<1>32. CASE GetsAppAck
  BY <1>32 DEF GetsAppAck
<1>33. CASE AckSenderStops
  BY <1>33 DEF AckSenderStops
<1>34. ASSUME NEW g \in ConnIds, NEW task \in AckTasks, AckTaskFails(g, task) PROVE ServerTypes'
  BY <1>34 DEF AckTaskFails
<1>35. CASE UNCHANGED vars
  BY <1>35 DEF vars, client, server, net
<1> QED
  BY <1>1, <1>2, <1>3, <1>4, <1>5, <1>6, <1>7, <1>8, <1>9, <1>10, <1>11, <1>12, <1>13, <1>14,
     <1>15, <1>16, <1>17, <1>18, <1>19, <1>20, <1>21, <1>22, <1>23, <1>24, <1>25, <1>26, <1>27,
     <1>28, <1>29, <1>30, <1>31, <1>32, <1>33, <1>34, <1>35
  DEF Next, ClientPumps, ClientResumes, ServerRelays, AppAcks, Failures

\* ... and what is between them.
LEMMA NetTypesStep == TypeInv /\ [Next]_vars => NetTypes'
<1> SUFFICES ASSUME TypeInv, [Next]_vars PROVE NetTypes'
  OBVIOUS
<1> USE DEF TypeInv, NetTypes, ConnIds, MaxConns, client, server, net
<1>1. CASE TrimsReplay
  BY <1>1 DEF TrimsReplay
<1>2. ASSUME NEW n \in Chunks, ReadsStdin(n) PROVE NetTypes'
  BY <1>2 DEF ReadsStdin
<1>3. CASE ReadsEof
  <2>1. conn \in ConnIds /\ Append(c2s[conn], Fin) \in Seq(Nat)
    <3>1. c2s[conn] \in Seq(Nat) /\ conn \in ConnIds /\ Fin \in Nat
      BY DEF ClientTypes, Fin
    <3> QED BY <3>1
  <2> QED BY <1>3, <2>1 DEF ReadsEof
<1>4. ASSUME NEW n \in Writes, SendsChunk(n) PROVE NetTypes'
  <2>1. c2s' \in [ConnIds -> Seq(Nat)]
    BY <1>4, SendsChunkIs
  <2> QED BY <1>4, <2>1 DEF SendsChunk
<1>5. ASSUME NEW n \in Chunks, ReadsStream(n) PROVE NetTypes'
  <2>1. n \in Nat /\ conn \in ConnIds
    BY Counts DEF ClientTypes
  <2>2. s2c' \in [ConnIds -> Seq(Nat)]
    BY <1>5, <2>1, Takes DEF ReadsStream
  <2> QED BY <1>5, <2>2 DEF ReadsStream
<1>6. ASSUME NEW n \in Chunks, WritesStdout(n) PROVE NetTypes'
  BY <1>6 DEF WritesStdout
<1>7. CASE CountsDelivered
  BY <1>7 DEF CountsDelivered
<1>8. CASE Finishes
  BY <1>8 DEF Finishes
<1>9. ASSUME NEW k \in 0 .. MaxChunk, Disconnects(k) PROVE NetTypes'
  <2>1. acking' \in [ConnIds -> SUBSET AckTasks]
    BY <1>9 DEF Disconnects
  <2> QED BY <1>9, <2>1 DEF Disconnects
<1>10. CASE SendsResume
  <2>1. delivered \in Int /\ ask' = [ask EXCEPT ![conn + 1] = delivered]
    BY <1>10 DEF SendsResume, ClientTypes
  <2>2. ask' \in [ConnIds -> Int]
    <3>1. ask \in [ConnIds -> Int]
      OBVIOUS
    <3> HIDE DEF TypeInv, NetTypes
    <3> QED BY <2>1, <3>1
  <2> QED BY <1>10, <2>2 DEF SendsResume
<1>11. CASE AttemptFails
  BY <1>11 DEF AttemptFails
<1>12. CASE GetsResumeAck
  BY <1>12 DEF GetsResumeAck
<1>13. ASSUME NEW opened \in BOOLEAN, ResumesPumping(opened) PROVE NetTypes'
  <2>1. acking' \in [ConnIds -> SUBSET AckTasks]
    BY <1>13 DEF ResumesPumping
  <2> QED BY <1>13, <2>1 DEF ResumesPumping
<1>14. CASE GivesUp
  BY <1>14 DEF GivesUp
<1>15. ASSUME NEW n \in Chunks, RelayReadsStream(n) PROVE NetTypes'
  <2>1. n \in Nat /\ on \in ConnIds
    BY Counts DEF ServerTypes
  <2>2. c2s' \in [ConnIds -> Seq(Nat)]
    BY <1>15, <2>1, Takes DEF RelayReadsStream
  <2> QED BY <1>15, <2>2 DEF RelayReadsStream
<1>16. ASSUME NEW n \in Chunks, WritesTarget(n) PROVE NetTypes'
  BY <1>16 DEF WritesTarget
<1>17. ASSUME NEW n \in Chunks, RelayReadsTarget(n) PROVE NetTypes'
  BY <1>17 DEF RelayReadsTarget
<1>18. ASSUME NEW n \in Writes, SendsToClient(n) PROVE NetTypes'
  <2>1. s2c' \in [ConnIds -> Seq(Nat)]
    BY <1>18, SendsToClientIs
  <2> QED BY <1>18, <2>1 DEF SendsToClient
<1>19. CASE GivesUpReplay
  BY <1>19 DEF GivesUpReplay
<1>20. ASSUME NEW fin \in BOOLEAN, RelayStops(fin) PROVE NetTypes'
  <2>1. s2c' \in [ConnIds -> Seq(Nat)]
    BY <1>20, DropsIs DEF RelayStops
  <2> QED BY <1>20, <2>1 DEF RelayStops
<1>21. CASE TargetCloses
  <2>1. s2c' \in [ConnIds -> Seq(Nat)]
    BY <1>21, DropsIs DEF TargetCloses
  <2> QED BY <1>21, <2>1 DEF TargetCloses
<1>22. ASSUME NEW fin \in BOOLEAN, TargetFails(fin) PROVE NetTypes'
  <2>1. s2c' \in [ConnIds -> Seq(Nat)]
    BY <1>22, DropsIs DEF TargetFails
  <2> QED BY <1>22, <2>1 DEF TargetFails
<1>23. ASSUME NEW g \in ConnIds, GrantsResume(g) PROVE NetTypes'
  <2>1. PICK r \in Replies : reply' = [reply EXCEPT ![g] = r]
    BY <1>23 DEF GrantsResume, Replies, ServerTypes
  <2> QED BY <1>23, <2>1 DEF GrantsResume
<1>24. ASSUME NEW g \in ConnIds, RejectsResume(g) PROVE NetTypes'
  <2>1. PICK r \in Replies : reply' = [reply EXCEPT ![g] = r]
    BY <1>24 DEF RejectsResume, Replies
  <2> QED BY <1>24, <2>1 DEF RejectsResume
<1>25. CASE AckWritten
  BY <1>25 DEF AckWritten
<1>26. CASE AckFails
  BY <1>26 DEF AckFails
<1>27. CASE Sweeps
  BY <1>27 DEF Sweeps
<1>28. CASE ControlTimesOut
  BY <1>28 DEF ControlTimesOut
<1>29. CASE SendsAppAck
  <2>1. delivered \in Nat
    BY DEF ClientTypes
  <2> QED BY <1>29, <2>1 DEF SendsAppAck
<1>30. ASSUME NEW g \in ConnIds, ServerGetsAppAck(g) PROVE NetTypes'
  BY <1>30 DEF ServerGetsAppAck
<1>31. ASSUME NEW g \in ConnIds, ServerSendsAppAck(g) PROVE NetTypes'
  <2>1. committed \in Nat
    BY DEF ServerTypes
  <2> QED BY <1>31, <2>1 DEF ServerSendsAppAck
<1>32. CASE GetsAppAck
  BY <1>32 DEF GetsAppAck
<1>33. CASE AckSenderStops
  <2>1. acking' \in [ConnIds -> SUBSET AckTasks]
    BY <1>33 DEF AckSenderStops
  <2> QED BY <1>33, <2>1 DEF AckSenderStops
<1>34. ASSUME NEW g \in ConnIds, NEW task \in AckTasks, AckTaskFails(g, task) PROVE NetTypes'
  <2>1. acking' \in [ConnIds -> SUBSET AckTasks]
    BY <1>34 DEF AckTaskFails
  <2> QED BY <1>34, <2>1 DEF AckTaskFails
<1>35. CASE UNCHANGED vars
  BY <1>35 DEF vars, client, server, net
<1> QED
  BY <1>1, <1>2, <1>3, <1>4, <1>5, <1>6, <1>7, <1>8, <1>9, <1>10, <1>11, <1>12, <1>13, <1>14,
     <1>15, <1>16, <1>17, <1>18, <1>19, <1>20, <1>21, <1>22, <1>23, <1>24, <1>25, <1>26, <1>27,
     <1>28, <1>29, <1>30, <1>31, <1>32, <1>33, <1>34, <1>35
  DEF Next, ClientPumps, ClientResumes, ServerRelays, AppAcks, Failures

\* An end that leaves a phase drops what only that phase may hold, and an incarnation that
\* gave up its replay buffer is never parked.
LEMMA PhaseStep == TypeInv /\ PhaseInv /\ AskInv /\ [Next]_vars => PhaseInv'
<1> SUFFICES ASSUME TypeInv /\ PhaseInv /\ AskInv, [Next]_vars PROVE PhaseInv'
  OBVIOUS
<1> USE DEF PhaseInv, client, server, net
<1>1. CASE TrimsReplay
  BY <1>1 DEF TrimsReplay
<1>2. ASSUME NEW n \in Chunks, ReadsStdin(n) PROVE PhaseInv'
  BY <1>2 DEF ReadsStdin, CanReadStdin
<1>3. CASE ReadsEof
  BY <1>3 DEF ReadsEof, CanReadStdin
<1>4. ASSUME NEW n \in Writes, SendsChunk(n) PROVE PhaseInv'
  <2>1. n \in Nat \ {0} /\ n <= Len(cout)
    BY <1>4, SendsChunkIs
  <2>2. cout # <<>>
    BY <2>1
  <2> QED BY <1>4, <2>2 DEF SendsChunk
<1>5. ASSUME NEW n \in Chunks, ReadsStream(n) PROVE PhaseInv'
  BY <1>5 DEF ReadsStream
<1>6. ASSUME NEW n \in Chunks, WritesStdout(n) PROVE PhaseInv'
  BY <1>6 DEF WritesStdout
<1>7. CASE CountsDelivered
  BY <1>7 DEF CountsDelivered
<1>8. CASE Finishes
  BY <1>8 DEF Finishes
<1>9. ASSUME NEW k \in 0 .. MaxChunk, Disconnects(k) PROVE PhaseInv'
  BY <1>9 DEF Disconnects
<1>10. CASE SendsResume
  <2>1. on <= conn'
    BY <1>10 DEF SendsResume, TypeInv, ClientTypes, ServerTypes, ConnIds
  <2> QED BY <1>10, <2>1 DEF SendsResume
<1>11. CASE AttemptFails
  BY <1>11 DEF AttemptFails
<1>12. CASE GetsResumeAck
  BY <1>12 DEF GetsResumeAck
<1>13. ASSUME NEW opened \in BOOLEAN, ResumesPumping(opened) PROVE PhaseInv'
  BY <1>13 DEF ResumesPumping
<1>14. CASE GivesUp
  BY <1>14 DEF GivesUp, Unrecoverable
<1>15. ASSUME NEW n \in Chunks, RelayReadsStream(n) PROVE PhaseInv'
  BY <1>15 DEF RelayReadsStream, AtSelect
<1>16. ASSUME NEW n \in Chunks, WritesTarget(n) PROVE PhaseInv'
  BY <1>16 DEF WritesTarget
<1>17. ASSUME NEW n \in Chunks, RelayReadsTarget(n) PROVE PhaseInv'
  BY <1>17 DEF RelayReadsTarget
<1>18. ASSUME NEW n \in Writes, SendsToClient(n) PROVE PhaseInv'
  BY <1>18 DEF SendsToClient
<1>19. CASE GivesUpReplay
  BY <1>19 DEF GivesUpReplay, AtSelect
<1>20. ASSUME NEW fin \in BOOLEAN, RelayStops(fin) PROVE PhaseInv'
  BY <1>20 DEF RelayStops
<1>21. CASE TargetCloses
  BY <1>21 DEF TargetCloses, AtSelect
<1>22. ASSUME NEW fin \in BOOLEAN, TargetFails(fin) PROVE PhaseInv'
  BY <1>22 DEF TargetFails
<1>23. ASSUME NEW g \in ConnIds, GrantsResume(g) PROVE PhaseInv'
  <2>1. g <= conn
    <3>1. ~(g > conn) /\ g \in Int /\ conn \in Int
      BY <1>23 DEF GrantsResume, AskInv, AskOf, TypeInv, ClientTypes, ConnIds
    <3> QED BY <3>1
  <2> QED BY <1>23, <2>1 DEF GrantsResume
<1>24. ASSUME NEW g \in ConnIds, RejectsResume(g) PROVE PhaseInv'
  BY <1>24 DEF RejectsResume
<1>25. CASE AckWritten
  BY <1>25 DEF AckWritten
<1>26. CASE AckFails
  BY <1>26 DEF AckFails
<1>27. CASE Sweeps
  BY <1>27 DEF Sweeps
<1>28. CASE ControlTimesOut
  BY <1>28 DEF ControlTimesOut
<1>29. CASE SendsAppAck
  BY <1>29 DEF SendsAppAck
<1>30. ASSUME NEW g \in ConnIds, ServerGetsAppAck(g) PROVE PhaseInv'
  BY <1>30 DEF ServerGetsAppAck
<1>31. ASSUME NEW g \in ConnIds, ServerSendsAppAck(g) PROVE PhaseInv'
  BY <1>31 DEF ServerSendsAppAck
<1>32. CASE GetsAppAck
  BY <1>32 DEF GetsAppAck
<1>33. CASE AckSenderStops
  BY <1>33 DEF AckSenderStops
<1>34. ASSUME NEW g \in ConnIds, NEW task \in AckTasks, AckTaskFails(g, task) PROVE PhaseInv'
  BY <1>34 DEF AckTaskFails
<1>35. CASE UNCHANGED vars
  BY <1>35 DEF vars, client, server, net
<1> QED
  BY <1>1, <1>2, <1>3, <1>4, <1>5, <1>6, <1>7, <1>8, <1>9, <1>10, <1>11, <1>12, <1>13, <1>14,
     <1>15, <1>16, <1>17, <1>18, <1>19, <1>20, <1>21, <1>22, <1>23, <1>24, <1>25, <1>26, <1>27,
     <1>28, <1>29, <1>30, <1>31, <1>32, <1>33, <1>34, <1>35
  DEF Next, ClientPumps, ClientResumes, ServerRelays, AppAcks, Failures

\* Reads are bounded by the room left and trims move the first offset with the first byte.
LEMMA LabelStep == TypeInv /\ LabelInv /\ [Next]_vars => LabelInv'
<1> SUFFICES ASSUME TypeInv /\ LabelInv, [Next]_vars PROVE LabelInv'
  OBVIOUS
<1> USE DEF LabelInv, ReplayIsLabelled, client, server, net
<1>1. CASE TrimsReplay
  <2>1. cbuf \in Buffers /\ acked \in Nat
    BY DEF TypeInv, ClientTypes, ServerTypes, NetTypes, Replies
  <2>2. /\ EndOffset(cbuf') = EndOffset(cbuf) /\ Len(cbuf'.data) <= Len(cbuf.data) /\ cbuf' \in Buffers
        /\ Runs(cbuf'.start, cbuf'.data)
    BY <1>1, <2>1, AdvanceIs DEF TrimsReplay
  <2>3. Len(cbuf'.data) \in Nat /\ Len(cbuf.data) \in Nat /\ ClientCap \in Nat
    BY <2>1, <2>2, SizesAssumption DEF Buffers
  <2>4. Len(cbuf'.data) <= ClientCap
    BY <2>2, <2>3
  <2> QED BY <1>1, <2>2, <2>4 DEF TrimsReplay
<1>2. ASSUME NEW n \in Chunks, ReadsStdin(n) PROVE LabelInv'
  <2>1. /\ Len(cbuf'.data) <= ClientCap /\ EndOffset(cbuf') = taken'
        /\ Runs(cbuf'.start, cbuf'.data)
    BY <1>2, ReadsStdinIs
  <2> QED BY <1>2, <2>1 DEF ReadsStdin
<1>3. CASE ReadsEof
  BY <1>3 DEF ReadsEof
<1>4. ASSUME NEW n \in Writes, SendsChunk(n) PROVE LabelInv'
  BY <1>4 DEF SendsChunk
<1>5. ASSUME NEW n \in Chunks, ReadsStream(n) PROVE LabelInv'
  BY <1>5 DEF ReadsStream
<1>6. ASSUME NEW n \in Chunks, WritesStdout(n) PROVE LabelInv'
  BY <1>6 DEF WritesStdout
<1>7. CASE CountsDelivered
  BY <1>7 DEF CountsDelivered
<1>8. CASE Finishes
  BY <1>8 DEF Finishes
<1>9. ASSUME NEW k \in 0 .. MaxChunk, Disconnects(k) PROVE LabelInv'
  BY <1>9 DEF Disconnects
<1>10. CASE SendsResume
  BY <1>10 DEF SendsResume
<1>11. CASE AttemptFails
  BY <1>11 DEF AttemptFails
<1>12. CASE GetsResumeAck
  BY <1>12 DEF GetsResumeAck
<1>13. ASSUME NEW opened \in BOOLEAN, ResumesPumping(opened) PROVE LabelInv'
  <2>1. cbuf \in Buffers /\ reply[conn].committed \in Nat
    BY DEF TypeInv, ClientTypes, ServerTypes, NetTypes, Replies
  <2>2. /\ EndOffset(cbuf') = EndOffset(cbuf) /\ Len(cbuf'.data) <= Len(cbuf.data) /\ cbuf' \in Buffers
        /\ Runs(cbuf'.start, cbuf'.data)
    BY <1>13, <2>1, AdvanceIs DEF ResumesPumping
  <2>3. Len(cbuf'.data) \in Nat /\ Len(cbuf.data) \in Nat /\ ClientCap \in Nat
    BY <2>1, <2>2, SizesAssumption DEF Buffers
  <2>4. Len(cbuf'.data) <= ClientCap
    BY <2>2, <2>3
  <2> QED BY <1>13, <2>2, <2>4 DEF ResumesPumping
<1>14. CASE GivesUp
  BY <1>14 DEF GivesUp
<1>15. ASSUME NEW n \in Chunks, RelayReadsStream(n) PROVE LabelInv'
  BY <1>15 DEF RelayReadsStream
<1>16. ASSUME NEW n \in Chunks, WritesTarget(n) PROVE LabelInv'
  BY <1>16 DEF WritesTarget
<1>17. ASSUME NEW n \in Chunks, RelayReadsTarget(n) PROVE LabelInv'
  <2>1. /\ Len(sbuf'.data) <= ServerCap /\ (~hole => EndOffset(sbuf') = given')
        /\ Runs(sbuf'.start, sbuf'.data)
    BY <1>17, RelayReadsTargetIs
  <2> QED BY <1>17, <2>1 DEF RelayReadsTarget
<1>18. ASSUME NEW n \in Writes, SendsToClient(n) PROVE LabelInv'
  BY <1>18 DEF SendsToClient
<1>19. CASE GivesUpReplay
  BY <1>19 DEF GivesUpReplay
<1>20. ASSUME NEW fin \in BOOLEAN, RelayStops(fin) PROVE LabelInv'
  BY <1>20 DEF RelayStops
<1>21. CASE TargetCloses
  BY <1>21 DEF TargetCloses
<1>22. ASSUME NEW fin \in BOOLEAN, TargetFails(fin) PROVE LabelInv'
  BY <1>22 DEF TargetFails
<1>23. ASSUME NEW g \in ConnIds, GrantsResume(g) PROVE LabelInv'
  BY <1>23 DEF GrantsResume
<1>24. ASSUME NEW g \in ConnIds, RejectsResume(g) PROVE LabelInv'
  BY <1>24 DEF RejectsResume
<1>25. CASE AckWritten
  BY <1>25 DEF AckWritten
<1>26. CASE AckFails
  BY <1>26 DEF AckFails
<1>27. CASE Sweeps
  BY <1>27 DEF Sweeps
<1>28. CASE ControlTimesOut
  BY <1>28 DEF ControlTimesOut
<1>29. CASE SendsAppAck
  BY <1>29 DEF SendsAppAck
<1>30. ASSUME NEW g \in ConnIds, ServerGetsAppAck(g) PROVE LabelInv'
  <2>1. sbuf \in Buffers /\ ackUp[g] \in Nat
    BY DEF TypeInv, ClientTypes, ServerTypes, NetTypes, Replies
  <2>2. /\ EndOffset(sbuf') = EndOffset(sbuf) /\ Len(sbuf'.data) <= Len(sbuf.data) /\ sbuf' \in Buffers
        /\ Runs(sbuf'.start, sbuf'.data)
    BY <1>30, <2>1, AdvanceIs DEF ServerGetsAppAck
  <2>3. Len(sbuf'.data) \in Nat /\ Len(sbuf.data) \in Nat /\ ServerCap \in Nat
    BY <2>1, <2>2, SizesAssumption DEF Buffers
  <2>4. Len(sbuf'.data) <= ServerCap
    BY <2>2, <2>3
  <2> QED BY <1>30, <2>2, <2>4 DEF ServerGetsAppAck
<1>31. ASSUME NEW g \in ConnIds, ServerSendsAppAck(g) PROVE LabelInv'
  BY <1>31 DEF ServerSendsAppAck
<1>32. CASE GetsAppAck
  BY <1>32 DEF GetsAppAck
<1>33. CASE AckSenderStops
  BY <1>33 DEF AckSenderStops
<1>34. ASSUME NEW g \in ConnIds, NEW task \in AckTasks, AckTaskFails(g, task) PROVE LabelInv'
  BY <1>34 DEF AckTaskFails
<1>35. CASE UNCHANGED vars
  BY <1>35 DEF vars, client, server, net
<1> QED
  BY <1>1, <1>2, <1>3, <1>4, <1>5, <1>6, <1>7, <1>8, <1>9, <1>10, <1>11, <1>12, <1>13, <1>14,
     <1>15, <1>16, <1>17, <1>18, <1>19, <1>20, <1>21, <1>22, <1>23, <1>24, <1>25, <1>26, <1>27,
     <1>28, <1>29, <1>30, <1>31, <1>32, <1>33, <1>34, <1>35
  DEF Next, ClientPumps, ClientResumes, ServerRelays, AppAcks, Failures

\* The connections stay the same.
LEMMA SameConns == [Next]_vars => load' = load /\ ConnIds' = ConnIds
<1>1. [Next]_vars => load' = load
  BY DEF Next, ClientPumps, ClientResumes, ServerRelays, AppAcks, Failures, vars, client,
     server, net, TrimsReplay, ReadsStdin, ReadsEof, SendsChunk, ReadsStream, WritesStdout,
     CountsDelivered, Finishes, Disconnects, SendsResume, AttemptFails, GetsResumeAck,
     ResumesPumping, GivesUp, RelayReadsStream, WritesTarget, RelayReadsTarget, SendsToClient,
     GivesUpReplay, RelayStops, TargetCloses, TargetFails, GrantsResume, RejectsResume,
     AckWritten, AckFails, Sweeps, ControlTimesOut, AckTaskFails, AckSenderStops, SendsAppAck,
     ServerGetsAppAck, ServerSendsAppAck, GetsAppAck
<1> QED BY <1>1 DEF ConnIds, MaxConns

\* A RESUME is answered once, and until then nothing is sent on its connection.
LEMMA AskStep == TypeInv /\ PhaseInv /\ AskInv /\ [Next]_vars => AskInv'
<1> SUFFICES ASSUME TypeInv, PhaseInv, AskInv, [Next]_vars PROVE AskInv'
  OBVIOUS
<1> SUFFICES ASSUME NEW d \in ConnIds PROVE AskOf(d)'
  BY SameConns DEF AskInv
<1>0. /\ AskOf(d) /\ AskOf(conn) /\ AskOf(on) /\ on <= conn
      /\ d \in Int /\ conn \in ConnIds /\ conn \in Int /\ on \in ConnIds /\ on \in Int
      /\ ask[d] \in Int /\ delivered \in Int /\ d \in DOMAIN ask /\ d \in DOMAIN reply
      /\ d \in DOMAIN c2s /\ d \in DOMAIN s2c
  <2>1. conn \in ConnIds /\ on \in ConnIds /\ delivered \in Int /\ ask[d] \in Int
    BY DEF TypeInv, ClientTypes, ServerTypes, NetTypes
  <2>2. d \in DOMAIN ask /\ d \in DOMAIN reply /\ d \in DOMAIN c2s /\ d \in DOMAIN s2c
    BY DEF TypeInv, NetTypes
  <2>3. AskOf(d) /\ AskOf(conn) /\ AskOf(on) /\ on <= conn
    BY <2>1 DEF AskInv, PhaseInv
  <2>4. d \in Int /\ conn \in Int /\ on \in Int
    BY <2>1 DEF ConnIds
  <2> QED BY <2>1, <2>2, <2>3, <2>4
<1> USE <1>0 DEF AskOf, Sending, client, server, net
<1>1. ASSUME ReadsEof PROVE AskOf(d)'
  <2>1. cst = "pump" /\ UNCHANGED <<ask, conn, reply, s2c, on, delivered, cst>>
    BY <1>1 DEF ReadsEof, CanReadStdin
  <2>2. d # conn => c2s'[d] = c2s[d]
    BY <1>1 DEF ReadsEof
  <2> QED BY <2>1, <2>2
<1>2. ASSUME NEW n \in Writes, SendsChunk(n) PROVE AskOf(d)'
  BY <1>2 DEF SendsChunk
<1>3. ASSUME NEW n \in Chunks, ReadsStream(n) PROVE AskOf(d)'
  BY <1>3 DEF ReadsStream
<1>4. ASSUME CountsDelivered PROVE AskOf(d)'
  <2>1. cst = "pump" /\ UNCHANGED <<ask, conn, reply, c2s, s2c, on, cst>>
    BY <1>4 DEF CountsDelivered
  <2>2. delivered' \in Int /\ delivered <= delivered'
    BY <1>4 DEF CountsDelivered, TypeInv, ClientTypes
  <2>3. ask[d] <= delivered => ask[d] <= delivered'
    BY <2>2
  <2> QED BY <2>1, <2>3
<1>5. ASSUME Finishes PROVE AskOf(d)'
  BY <1>5 DEF Finishes
<1>6. ASSUME NEW k \in 0 .. MaxChunk, Disconnects(k) PROVE AskOf(d)'
  BY <1>6 DEF Disconnects
<1>7. ASSUME SendsResume PROVE AskOf(d)'
  <2>1. UNCHANGED <<reply, c2s, s2c, on, delivered>> /\ cst' = "asked" /\ conn' = conn + 1
    BY <1>7 DEF SendsResume
  <2>2. CASE d = conn + 1
    <3>1. ask'[d] = delivered /\ d > conn /\ d # on /\ delivered >= 0 /\ ~(d > conn')
      BY <1>7, <2>1, <2>2 DEF SendsResume, TypeInv, ClientTypes
    <3> QED BY <2>1, <2>2, <3>1
  <2>3. CASE d # conn + 1
    <3>1. ask'[d] = ask[d] /\ (d > conn' => d > conn) /\ d # conn'
      BY <1>7, <2>1, <2>3 DEF SendsResume
    <3> QED BY <2>1, <3>1
  <2> QED BY <2>2, <2>3
<1>8. ASSUME AttemptFails PROVE AskOf(d)'
  BY <1>8 DEF AttemptFails
<1>9. ASSUME GetsResumeAck PROVE AskOf(d)'
  BY <1>9 DEF GetsResumeAck
<1>10. ASSUME NEW opened \in BOOLEAN, ResumesPumping(opened) PROVE AskOf(d)'
  BY <1>10 DEF ResumesPumping
<1>11. ASSUME GivesUp PROVE AskOf(d)'
  BY <1>11 DEF GivesUp
<1>12. ASSUME NEW n \in Chunks, RelayReadsStream(n) PROVE AskOf(d)'
  BY <1>12 DEF RelayReadsStream
<1>13. ASSUME NEW n \in Writes, SendsToClient(n) PROVE AskOf(d)'
  BY <1>13 DEF SendsToClient
<1>14. ASSUME NEW fin \in BOOLEAN, RelayStops(fin) PROVE AskOf(d)'
  <2>1. UNCHANGED <<ask, conn, reply, c2s, on, delivered, cst>>
    BY <1>14 DEF RelayStops
  <2>2. d # on => s2c'[d] = s2c[d]
    BY <1>14, DropsIs DEF RelayStops
  <2> QED BY <2>1, <2>2
<1>15. ASSUME TargetCloses PROVE AskOf(d)'
  <2>1. UNCHANGED <<ask, conn, reply, c2s, on, delivered, cst>>
    BY <1>15 DEF TargetCloses
  <2>2. d # on => s2c'[d] = s2c[d]
    BY <1>15, DropsIs DEF TargetCloses
  <2> QED BY <2>1, <2>2
<1>16. ASSUME NEW fin \in BOOLEAN, TargetFails(fin) PROVE AskOf(d)'
  <2>1. UNCHANGED <<ask, conn, reply, c2s, on, delivered, cst>>
    BY <1>16 DEF TargetFails
  <2>2. d # on => s2c'[d] = s2c[d]
    BY <1>16, DropsIs DEF TargetFails
  <2> QED BY <2>1, <2>2
<1>17. ASSUME NEW g \in ConnIds, GrantsResume(g) PROVE AskOf(d)'
  BY <1>17 DEF GrantsResume
<1>18. ASSUME NEW g \in ConnIds, RejectsResume(g) PROVE AskOf(d)'
  BY <1>18 DEF RejectsResume
<1>19. ASSUME \/ UNCHANGED vars
              \/ AckSenderStops \/ \E h \in ConnIds, task \in AckTasks : AckTaskFails(h, task)
              \/ TrimsReplay \/ GivesUpReplay \/ AckWritten \/ AckFails \/ Sweeps \/
                 ControlTimesOut \/ SendsAppAck \/ GetsAppAck
              \/ \E n \in Chunks : ReadsStdin(n) \/ WritesStdout(n) \/ WritesTarget(n) \/
                 RelayReadsTarget(n)
              \/ \E g \in ConnIds : ServerGetsAppAck(g) \/ ServerSendsAppAck(g)
       PROVE  AskOf(d)'
  <2>1. UNCHANGED <<ask, conn, reply, c2s, s2c, on, delivered, cst>>
    BY <1>19 DEF TrimsReplay, ReadsStdin, WritesStdout, WritesTarget, RelayReadsTarget,
       GivesUpReplay, AckWritten, AckFails, Sweeps, ControlTimesOut, AckTaskFails,
       AckSenderStops, SendsAppAck, ServerGetsAppAck, ServerSendsAppAck, GetsAppAck, vars,
       client, server, net
  <2> QED BY <2>1
<1> HIDE <1>0 DEF AskOf, Sending, client, server, net
<1> QED
  BY <1>1, <1>2, <1>3, <1>4, <1>5, <1>6, <1>7, <1>8, <1>9, <1>10, <1>11, <1>12, <1>13, <1>14,
     <1>15, <1>16, <1>17, <1>18, <1>19
  DEF Next, ClientPumps, ClientResumes, ServerRelays, AppAcks, Failures

\* APP_ACKs and answers carry offsets that have been reached.
LEMMA TrimOfStep == TypeInv /\ TrimInv /\ [Next]_vars => \A d \in ConnIds : TrimOf(d)'
<1> SUFFICES ASSUME TypeInv, TrimInv, [Next]_vars, NEW d \in ConnIds PROVE TrimOf(d)'
  BY SameConns
<1>0. /\ TrimOf(d) /\ committed \in Nat /\ delivered \in Nat /\ d \in DOMAIN ackUp
      /\ d \in DOMAIN ackDown /\ d \in DOMAIN reply /\ ackUp[d] \in Nat /\ ackDown[d] \in Nat
      /\ reply[d].committed \in Nat
  BY DEF TypeInv, ClientTypes, ServerTypes, NetTypes, Replies, TrimInv
<1> USE <1>0 DEF TrimOf, client, server, net
<1>1. ASSUME CountsDelivered PROVE TrimOf(d)'
  <2>1. UNCHANGED <<ackUp, ackDown, reply, committed>> /\ uncounted \in Nat /\ delivered' = delivered + uncounted
    BY <1>1 DEF CountsDelivered, TypeInv, ClientTypes
  <2>2. delivered' \in Nat /\ delivered <= delivered'
    BY <2>1
  <2>3. ackUp[d] <= delivered'
    BY <2>2
  <2> QED BY <2>1, <2>3
<1>2. ASSUME NEW n \in Chunks, WritesTarget(n) PROVE TrimOf(d)'
  <2>1. UNCHANGED <<ackUp, ackDown, reply, delivered>> /\ n \in Nat /\ committed' = committed + n
    BY <1>2, Counts DEF WritesTarget
  <2>2. committed' \in Nat /\ committed <= committed'
    BY <2>1
  <2>3. ackDown[d] <= committed' /\ reply[d].committed <= committed'
    BY <2>2
  <2> QED BY <2>1, <2>3
<1>3. ASSUME NEW g \in ConnIds, GrantsResume(g) PROVE TrimOf(d)'
  <2>1. UNCHANGED <<ackUp, ackDown, delivered, committed>>
    BY <1>3 DEF GrantsResume
  <2>2. reply'[d].committed = reply[d].committed \/ reply'[d].committed = committed
    BY <1>3 DEF GrantsResume
  <2> QED BY <2>1, <2>2
<1>4. ASSUME NEW g \in ConnIds, RejectsResume(g) PROVE TrimOf(d)'
  <2>1. UNCHANGED <<ackUp, ackDown, delivered, committed>>
    BY <1>4 DEF RejectsResume
  <2>2. reply'[d].committed = reply[d].committed \/ reply'[d].committed = 0
    BY <1>4 DEF RejectsResume
  <2> QED BY <2>1, <2>2
<1>5. ASSUME SendsAppAck PROVE TrimOf(d)'
  <2>1. UNCHANGED <<ackDown, reply, delivered, committed>> /\ (ackUp'[d] = ackUp[d] \/ ackUp'[d] = delivered)
    BY <1>5 DEF SendsAppAck
  <2> QED BY <2>1
<1>6. ASSUME NEW g \in ConnIds, ServerSendsAppAck(g) PROVE TrimOf(d)'
  <2>1. UNCHANGED <<ackUp, reply, delivered, committed>>
    BY <1>6 DEF ServerSendsAppAck
  <2>2. ackDown'[d] = ackDown[d] \/ ackDown'[d] = committed
    BY <1>6 DEF ServerSendsAppAck
  <2> QED BY <2>1, <2>2
<1>7. ASSUME \/ UNCHANGED vars
             \/ AckSenderStops \/ \E h \in ConnIds, task \in AckTasks : AckTaskFails(h, task)
             \/ TrimsReplay \/ ReadsEof \/ Finishes \/ SendsResume \/ AttemptFails \/
                GetsResumeAck \/ GivesUp \/ GivesUpReplay \/ TargetCloses \/ AckWritten \/
                AckFails \/ Sweeps \/ ControlTimesOut \/ GetsAppAck
             \/ \E n \in Chunks : ReadsStdin(n) \/ ReadsStream(n) \/ WritesStdout(n) \/
                RelayReadsStream(n) \/ RelayReadsTarget(n)
             \/ \E n \in Writes : SendsChunk(n) \/ SendsToClient(n)
             \/ \E k \in 0 .. MaxChunk : Disconnects(k)
             \/ \E opened \in BOOLEAN : ResumesPumping(opened)
             \/ \E fin \in BOOLEAN : RelayStops(fin) \/ TargetFails(fin)
             \/ \E g \in ConnIds : ServerGetsAppAck(g)
       PROVE  TrimOf(d)'
  <2>1. UNCHANGED <<ackUp, ackDown, reply, delivered, committed>>
    BY <1>7 DEF TrimsReplay, ReadsStdin, ReadsEof, SendsChunk, ReadsStream, WritesStdout,
       Finishes, Disconnects, SendsResume, AttemptFails, GetsResumeAck, ResumesPumping, GivesUp,
       RelayReadsStream, RelayReadsTarget, SendsToClient, GivesUpReplay, RelayStops,
       TargetCloses, TargetFails, AckWritten, AckFails, Sweeps, ControlTimesOut, AckTaskFails,
       AckSenderStops, ServerGetsAppAck, GetsAppAck, vars, client, server, net
  <2> QED BY <2>1
<1> HIDE <1>0 DEF TrimOf, client, server, net
<1> QED
  BY <1>1, <1>2, <1>3, <1>4, <1>5, <1>6, <1>7
  DEF Next, ClientPumps, ClientResumes, ServerRelays, AppAcks, Failures

\* No buffer is trimmed too far.
LEMMA TrimHereStep ==
  TypeInv /\ PhaseInv /\ LabelInv /\ AskInv /\ TrimInv /\ DownInv /\ [Next]_vars => TrimHere'
<1> SUFFICES ASSUME TypeInv, PhaseInv, LabelInv, AskInv, TrimInv, DownInv, [Next]_vars PROVE TrimHere'
  OBVIOUS
<1>0. /\ committed \in Nat /\ delivered \in Nat /\ acked \in Nat /\ cbuf.start \in Nat
      /\ sbuf.start \in Nat /\ cbuf \in Buffers /\ sbuf \in Buffers /\ conn \in ConnIds
      /\ reply \in [ConnIds -> Replies] /\ reply[conn].committed \in Nat
  BY DEF TypeInv, ClientTypes, ServerTypes, NetTypes, Replies, Buffers
<1>00. TrimHere /\ TrimOf(conn)
  BY <1>0 DEF TrimInv
<1> USE <1>0, <1>00 DEF TrimHere, client, server, net
<1>1. ASSUME TrimsReplay PROVE TrimHere'
  <2>1. UNCHANGED <<acked, committed, sbuf, delivered, reply, conn>> /\ cst' = "pump"
    BY <1>1 DEF TrimsReplay, CanReadStdin
  <2>2. cbuf' \in Buffers /\ (cbuf'.start <= acked \/ cbuf'.start = cbuf.start)
    BY <1>1, AdvanceIs DEF TrimsReplay
  <2>3. cbuf'.start \in Nat
    BY <2>2 DEF Buffers
  <2>4. cbuf'.start <= committed
    BY <2>2, <2>3
  <2> QED BY <2>1, <2>4
<1>2. ASSUME NEW n \in Chunks, ReadsStdin(n) PROVE TrimHere'
  <2>1. UNCHANGED <<acked, committed, sbuf, delivered, reply, conn, cst>>
    BY <1>2 DEF ReadsStdin
  <2>2. cbuf'.start = cbuf.start
    BY <1>2, ReadsStdinIs
  <2> QED BY <2>1, <2>2
<1>3. ASSUME CountsDelivered PROVE TrimHere'
  <2>1. UNCHANGED <<acked, committed, sbuf, cbuf, reply, conn, cst>> /\ uncounted \in Nat
        /\ delivered' = delivered + uncounted
    BY <1>3 DEF CountsDelivered, TypeInv, ClientTypes
  <2>2. sbuf.start <= delivered'
    BY <2>1
  <2> QED BY <2>1, <2>2
<1>4. ASSUME Finishes PROVE TrimHere'
  BY <1>4 DEF Finishes
<1>5. ASSUME NEW k \in 0 .. MaxChunk, Disconnects(k) PROVE TrimHere'
  BY <1>5 DEF Disconnects
<1>6. ASSUME SendsResume PROVE TrimHere'
  <2>1. UNCHANGED <<acked, committed, sbuf, delivered, cbuf, reply>> /\ conn' = conn + 1
    BY <1>6 DEF SendsResume
  <2>2. conn + 1 \in ConnIds /\ conn + 1 > conn
    BY <1>6 DEF SendsResume, TypeInv, NetTypes, ConnIds, MaxConns
  <2>3. reply[conn + 1].is = "none"
    BY <2>2 DEF AskInv, AskOf
  <2> QED BY <2>1, <2>3
<1>7. ASSUME AttemptFails PROVE TrimHere'
  BY <1>7 DEF AttemptFails
<1>8. ASSUME GetsResumeAck PROVE TrimHere'
  BY <1>8 DEF GetsResumeAck, InRange
<1>9. ASSUME NEW opened \in BOOLEAN, ResumesPumping(opened) PROVE TrimHere'
  <2>1. UNCHANGED <<acked, committed, sbuf, delivered, reply, conn>> /\ cst' = "pump"
    BY <1>9 DEF ResumesPumping
  <2>2. cbuf' \in Buffers /\ (cbuf'.start <= reply[conn].committed \/ cbuf'.start = cbuf.start)
    BY <1>9, AdvanceIs DEF ResumesPumping
  <2>3. cbuf'.start \in Nat /\ reply[conn].committed <= committed
    BY <2>2 DEF Buffers, TrimOf
  <2>4. cbuf'.start <= committed
    BY <2>2, <2>3
  <2> QED BY <2>1, <2>4
<1>10. ASSUME GivesUp PROVE TrimHere'
  BY <1>10 DEF GivesUp
<1>11. ASSUME NEW n \in Chunks, WritesTarget(n) PROVE TrimHere'
  <2>1. UNCHANGED <<acked, cbuf, sbuf, delivered, reply, conn, cst>> /\ n \in Nat
        /\ committed' = committed + n
    BY <1>11, Counts DEF WritesTarget
  <2>2. acked <= committed' /\ cbuf.start <= committed'
    BY <2>1
  <2> QED BY <2>1, <2>2
<1>12. ASSUME NEW n \in Chunks, RelayReadsTarget(n) PROVE TrimHere'
  <2>1. UNCHANGED <<acked, committed, cbuf, delivered, reply, conn, cst>>
    BY <1>12 DEF RelayReadsTarget
  <2>2. sbuf'.start = sbuf.start
    BY <1>12, RelayReadsTargetIs
  <2> QED BY <2>1, <2>2
<1>13. ASSUME NEW g \in ConnIds, GrantsResume(g) PROVE TrimHere'
  <2>1. UNCHANGED <<acked, committed, cbuf, sbuf, delivered, conn, cst>>
    BY <1>13 DEF GrantsResume
  <2>2. CASE g = conn
    <3>1. ask[conn] = delivered /\ ~hole
      BY <1>13, <2>2 DEF GrantsResume, AskInv, AskOf, PhaseInv
    <3>2. delivered <= EndOffset(sbuf)
      <4>1. EndOffset(sbuf) = given /\ Read <= given
        BY <3>1 DEF LabelInv, ReplayIsLabelled, DownInv, Shown
      <4>2. uncounted \in Nat /\ Len(hin) \in Nat /\ given \in Nat
        BY DEF TypeInv, ClientTypes, ServerTypes
      <4> QED BY <4>1, <4>2 DEF Read, Counted
    <3>3. reply'[conn] = [is |-> "ack", committed |-> committed]
      BY <1>13, <2>2, <3>1, <3>2 DEF GrantsResume, InRange
    <3> QED BY <2>1, <3>3
  <2>3. CASE g # conn
    <3>1. reply'[conn] = reply[conn]
      BY <1>13, <2>3 DEF GrantsResume
    <3> QED BY <2>1, <3>1
  <2> QED BY <2>2, <2>3
<1>14. ASSUME NEW g \in ConnIds, RejectsResume(g) PROVE TrimHere'
  <2>1. UNCHANGED <<acked, committed, cbuf, sbuf, delivered, conn, cst>>
    BY <1>14 DEF RejectsResume
  <2>2. reply'[conn] = reply[conn] \/ reply'[conn] = [is |-> "unknown", committed |-> 0]
    BY <1>14 DEF RejectsResume
  <2> QED BY <2>1, <2>2
<1>15. ASSUME NEW g \in ConnIds, ServerGetsAppAck(g) PROVE TrimHere'
  <2>1. UNCHANGED <<acked, committed, cbuf, delivered, reply, conn, cst>>
    BY <1>15 DEF ServerGetsAppAck
  <2>2. ackUp[g] \in Nat /\ ackUp[g] <= delivered
    BY DEF TypeInv, NetTypes, TrimInv, TrimOf
  <2>3. sbuf' \in Buffers /\ (sbuf'.start <= ackUp[g] \/ sbuf'.start = sbuf.start)
    BY <1>15, <2>2, AdvanceIs DEF ServerGetsAppAck
  <2>4. sbuf'.start \in Nat
    BY <2>3 DEF Buffers
  <2>5. sbuf'.start <= delivered
    BY <2>2, <2>3, <2>4
  <2> QED BY <2>1, <2>5
<1>16. ASSUME GetsAppAck PROVE TrimHere'
  <2>1. UNCHANGED <<committed, cbuf, sbuf, delivered, reply, conn, cst>> /\ acked' = ackDown[conn]
    BY <1>16 DEF GetsAppAck
  <2> QED BY <2>1 DEF TrimOf
<1>17. ASSUME \/ UNCHANGED vars
              \/ AckSenderStops \/ \E h \in ConnIds, task \in AckTasks : AckTaskFails(h, task)
              \/ ReadsEof \/ GivesUpReplay \/ TargetCloses \/ AckWritten \/ AckFails \/ Sweeps
                 \/ ControlTimesOut \/ SendsAppAck
              \/ \E n \in Writes : SendsChunk(n) \/ SendsToClient(n)
              \/ \E n \in Chunks : ReadsStream(n) \/ WritesStdout(n) \/ RelayReadsStream(n)
              \/ \E fin \in BOOLEAN : RelayStops(fin) \/ TargetFails(fin)
              \/ \E g \in ConnIds : ServerSendsAppAck(g)
       PROVE  TrimHere'
  <2>1. UNCHANGED <<acked, committed, cbuf, sbuf, delivered, reply, conn, cst>>
    BY <1>17 DEF ReadsEof, SendsChunk, ReadsStream, WritesStdout, RelayReadsStream,
       SendsToClient, GivesUpReplay, RelayStops, TargetCloses, TargetFails, AckWritten,
       AckFails, Sweeps, ControlTimesOut, AckTaskFails, AckSenderStops, SendsAppAck,
       ServerSendsAppAck, vars, client, server, net
  <2> QED BY <2>1
<1> HIDE <1>0, <1>00 DEF TrimHere, client, server, net
<1> QED
  BY <1>1, <1>2, <1>3, <1>4, <1>5, <1>6, <1>7, <1>8, <1>9, <1>10, <1>11, <1>12, <1>13, <1>14,
     <1>15, <1>16, <1>17
  DEF Next, ClientPumps, ClientResumes, ServerRelays, AppAcks, Failures

\* What an end trims, the other end has.
LEMMA TrimStep ==
  TypeInv /\ PhaseInv /\ LabelInv /\ AskInv /\ TrimInv /\ DownInv /\ [Next]_vars => TrimInv'
BY TrimOfStep, TrimHereStep, SameConns DEF TrimInv

\* stdin reaches the target in order: what is lost on a connection is replayed from where the
\* target's bytes end.
LEMMA UpStep == TypeInv /\ PhaseInv /\ LabelInv /\ AskInv /\ UpInv /\ [Next]_vars => UpInv'
<1> SUFFICES ASSUME TypeInv, PhaseInv, LabelInv, AskInv, UpInv, [Next]_vars PROVE UpInv'
  OBVIOUS
<1>0. /\ committed \in Nat /\ taken \in Nat /\ sin \in Seq(Nat) /\ cout \in Seq(Nat)
      /\ target \in Seq(Nat) /\ c2s \in [ConnIds -> Seq(Nat)] /\ c2s[on] \in Seq(Nat)
      /\ conn \in ConnIds /\ on \in ConnIds /\ Len(sin) \in Nat /\ Len(cout) \in Nat
      /\ Len(c2s[on]) \in Nat /\ Got \in Nat
  <2>1. /\ committed \in Nat /\ taken \in Nat /\ sin \in Seq(Nat) /\ cout \in Seq(Nat)
        /\ target \in Seq(Nat) /\ c2s \in [ConnIds -> Seq(Nat)] /\ conn \in ConnIds
        /\ on \in ConnIds
    BY DEF TypeInv, ClientTypes, ServerTypes, NetTypes
  <2>2. c2s[on] \in Seq(Nat) /\ Len(sin) \in Nat /\ Len(cout) \in Nat
    BY <2>1
  <2>3. Len(c2s[on]) \in Nat /\ Got \in Nat
    BY <2>1, <2>2 DEF Got
  <2> QED BY <2>1, <2>2, <2>3
<1>00. Landed /\ UpFlows /\ UpWhole /\ UpAsked
  BY DEF UpInv
<1> USE <1>0, <1>00 DEF UpInv, client, server, net
<1>1. ASSUME NEW n \in Chunks, ReadsStdin(n) PROVE UpInv'
  <2>1. UNCHANGED <<target, committed, sin, sst, on, c2s, conn, cst, eof, reply>>
    BY <1>1 DEF ReadsStdin
  <2>2. /\ n \in Nat \ {0} /\ taken' = taken + n /\ cout = <<>> /\ cst = "pump" /\ ~eof
        /\ Len(cout') = n /\ Runs(taken, cout') /\ taken <= taken' /\ taken' \in Nat
    <3>1. /\ n \in Nat \ {0} /\ taken' = taken + n /\ cout = <<>> /\ cst = "pump" /\ ~eof
          /\ Len(cout') = n /\ Runs(taken, cout')
      BY <1>1, ReadsStdinIs
    <3> QED BY <3>1
  <2>3. Landed'
    BY <2>1, <2>2 DEF Landed, Got
  <2>4. UpFlows'
    BY <2>1, <2>2, FlowsLater DEF UpFlows, Serving, Got
  <2>5. UpWhole'
    <3>1. SUFFICES ASSUME Serving, on = conn
                   PROVE  /\ NoFin(c2s[on]) /\ Runs(Got + Len(c2s[on]), cout')
                          /\ Got + Len(c2s[on]) + Len(cout') = taken + n
      BY <2>1, <2>2 DEF UpWhole, Serving, Got
    <3>2. NoFin(c2s[on]) /\ Got + Len(c2s[on]) + Len(cout) = taken
      BY <2>2, <3>1 DEF UpWhole, Sending
    <3>3. Got + Len(c2s[on]) = taken
      BY <2>2, <3>2
    <3> QED BY <2>2, <3>2, <3>3
  <2>6. UpAsked'
    BY <2>1, <2>2 DEF UpAsked
  <2> QED BY <2>3, <2>4, <2>5, <2>6
<1>2. ASSUME ReadsEof PROVE UpInv'
  <2>1. UNCHANGED <<target, committed, sin, taken, sst, on, conn, cst, cout, reply>> /\ eof'
        /\ cst = "pump" /\ ~eof
    BY <1>2 DEF ReadsEof, CanReadStdin
  <2>2. on # conn => c2s'[on] = c2s[on]
    BY <1>2 DEF ReadsEof
  <2>3. on = conn => c2s'[on] = Append(c2s[on], Fin)
    BY <1>2 DEF ReadsEof
  <2>4. UpFlows'
    <3>1. SUFFICES ASSUME Serving PROVE Flows(c2s'[on], Got, taken)
      BY <2>1 DEF UpFlows, Serving, Got
    <3>2. on = conn => NoFin(c2s[on])
      BY <2>1, <3>1 DEF UpWhole, Sending
    <3> QED BY <2>2, <2>3, <3>1, <3>2, FlowsFin DEF UpFlows
  <2> QED BY <2>1, <2>4 DEF Landed, UpWhole, UpAsked, Got
<1>3. ASSUME NEW n \in Writes, SendsChunk(n) PROVE UpInv'
  <2>1. UNCHANGED <<target, committed, sin, taken, sst, on, conn, cst, eof, reply>>
    BY <1>3 DEF SendsChunk
  <2>2. /\ n \in Nat \ {0} /\ n <= Len(cout) /\ Sending /\ cout' = Without(cout, n)
        /\ Len(cout') = Len(cout) - n /\ c2s'[conn] = c2s[conn] \o FirstN(cout, n)
        /\ Len(c2s'[conn]) = Len(c2s[conn]) + n /\ (on # conn => c2s'[on] = c2s[on])
    BY <1>3, SendsChunkIs
  <2>3. ~eof
    <3>1. cout # <<>>
      BY <2>2
    <3> QED BY <3>1 DEF PhaseInv
  <2>4. CASE Serving /\ on = conn
    <3>1. /\ NoFin(c2s[on]) /\ Runs(Got + Len(c2s[on]), cout) /\ Flows(c2s[on], Got, taken)
          /\ Got + Len(c2s[on]) + Len(cout) = taken
      BY <2>2, <2>3, <2>4 DEF UpWhole, UpFlows
    <3>2. /\ Runs(Got + Len(c2s[on]), FirstN(cout, n))
          /\ Runs((Got + Len(c2s[on])) + n, Without(cout, n))
      BY <2>2, <3>1, RunsSplit
    <3>3. FirstN(cout, n) \in Seq(Nat) /\ Len(FirstN(cout, n)) = n
      BY <2>2, FirstNIs
    <3>4. Got + Len(c2s[on]) + n <= taken /\ Got + (Len(c2s[on]) + n) + (Len(cout) - n) = taken
          /\ (Got + Len(c2s[on])) + n = Got + (Len(c2s[on]) + n)
      <4>1. PICK a \in Nat, b \in Nat, c \in Nat, m \in Nat :
                a = Got /\ b = Len(c2s[on]) /\ c = Len(cout) /\ m = n
        BY <2>2
      <4>2. a + b + c = taken /\ m <= c
        BY <2>2, <3>1, <4>1
      <4>3. a + b + m <= taken /\ a + (b + m) + (c - m) = taken /\ (a + b) + m = a + (b + m)
        BY <4>2, Sums
      <4> QED BY <4>1, <4>3
    <3>5. Flows(c2s'[on], Got, taken) /\ NoFin(c2s'[on])
      BY <2>2, <2>4, <3>1, <3>2, <3>3, <3>4, FlowsMore
    <3>6. Runs(Got + Len(c2s'[on]), cout') /\ Got + Len(c2s'[on]) + Len(cout') = taken
      BY <2>2, <2>4, <3>2, <3>4
    <3>7. UpFlows' /\ UpWhole'
      BY <2>1, <3>5, <3>6 DEF UpFlows, UpWhole, Got
    <3> QED BY <2>1, <2>2, <3>7 DEF Landed, UpAsked, Got, Sending
  <2>5. CASE ~(Serving /\ on = conn)
    <3>1. UpFlows'
      BY <2>1, <2>2, <2>5 DEF UpFlows, Serving, Got
    <3> QED BY <2>1, <2>5, <3>1 DEF Landed, UpWhole, UpAsked, Serving, Got
  <2> QED BY <2>4, <2>5
<1>4. ASSUME Finishes PROVE UpInv'
  <2>1. UNCHANGED <<target, committed, sin, taken, sst, on, conn, c2s, eof, reply>>
        /\ cst' \in {"down", "over"}
    BY <1>4 DEF Finishes
  <2> QED BY <2>1 DEF Landed, UpFlows, UpWhole, UpAsked, Got, Serving, Sending
<1>5. ASSUME NEW k \in 0 .. MaxChunk, Disconnects(k) PROVE UpInv'
  <2>1. UNCHANGED <<target, committed, sin, taken, sst, on, conn, c2s, eof, reply>>
        /\ cst' \in {"down", "over"}
    BY <1>5 DEF Disconnects
  <2> QED BY <2>1 DEF Landed, UpFlows, UpWhole, UpAsked, Got, Serving, Sending
<1>6. ASSUME SendsResume PROVE UpInv'
  <2>1. UNCHANGED <<target, committed, sin, taken, sst, on, c2s, eof, reply>>
        /\ conn' = conn + 1
    BY <1>6 DEF SendsResume
  <2>2. on # conn'
    <3>1. on \in Int /\ conn \in Int /\ on <= conn
      BY DEF ConnIds, PhaseInv
    <3> QED BY <2>1, <3>1
  <2> QED BY <2>1, <2>2 DEF Landed, UpFlows, UpWhole, UpAsked, Got, Serving, Sending
<1>7. ASSUME AttemptFails PROVE UpInv'
  <2>1. UNCHANGED <<target, committed, sin, taken, sst, on, conn, c2s, eof, reply>>
        /\ cst' \in {"down", "over"}
    BY <1>7 DEF AttemptFails
  <2> QED BY <2>1 DEF Landed, UpFlows, UpWhole, UpAsked, Got, Serving, Sending
<1>8. ASSUME GetsResumeAck PROVE UpInv'
  <2>1. UNCHANGED <<target, committed, sin, taken, sst, on, conn, c2s, eof, reply>>
        /\ cst = "asked" /\ cst' = "replay"
    BY <1>8 DEF GetsResumeAck
  <2>2. UpWhole'
    <3>1. SUFFICES ASSUME Serving, on = conn
                   PROVE  /\ NoFin(c2s[on]) /\ Runs(Got + Len(c2s[on]), cout')
                          /\ Got + Len(c2s[on]) + Len(cout') = taken
      BY <2>1 DEF UpWhole, Serving, Got
    <3>2. c2s[on] = <<>> /\ sin = <<>> /\ reply[conn].committed = committed
      BY <2>1, <3>1 DEF UpAsked
    <3>3. cbuf \in Buffers /\ Runs(cbuf.start, cbuf.data) /\ EndOffset(cbuf) = taken
      BY DEF TypeInv, ClientTypes, LabelInv, ReplayIsLabelled
    <3>4. InRange(cbuf, committed) /\ cout' = ReplayFrom(cbuf, committed)
      BY <1>8, <3>2 DEF GetsResumeAck
    <3>5. Runs(committed, cout') /\ committed + Len(cout') = taken
      BY <3>3, <3>4, ReplayIs
    <3>6. Got + Len(c2s[on]) = committed
      BY <3>2, EmptyIs DEF Got
    <3> QED BY <3>2, <3>5, <3>6, EmptyIs
  <2> QED BY <2>1, <2>2 DEF Landed, UpFlows, UpAsked, Got, Serving
<1>9. ASSUME NEW opened \in BOOLEAN, ResumesPumping(opened) PROVE UpInv'
  <2>1. UNCHANGED <<target, committed, sin, taken, sst, on, conn, c2s, eof, reply, cout>>
        /\ cst = "replay" /\ cst' = "pump"
    BY <1>9 DEF ResumesPumping
  <2> QED BY <2>1 DEF Landed, UpFlows, UpWhole, UpAsked, Got, Serving, Sending
<1>10. ASSUME GivesUp PROVE UpInv'
  <2>1. UNCHANGED <<target, committed, sin, taken, sst, on, conn, c2s, eof, reply>>
        /\ cst' \in {"down", "over"}
    BY <1>10 DEF GivesUp
  <2> QED BY <2>1 DEF Landed, UpFlows, UpWhole, UpAsked, Got, Serving, Sending
<1>11. ASSUME NEW n \in Chunks, RelayReadsStream(n) PROVE UpInv'
  <2>1. UNCHANGED <<target, committed, taken, sst, on, conn, cst, eof, reply, cout>>
        /\ sst = "relay" /\ sin = <<>> /\ n \in Nat /\ n \in Readable(c2s[on])
    BY <1>11, Counts DEF RelayReadsStream, AtSelect
  <2>2. /\ sin' = FirstN(c2s[on], n) /\ Len(sin') = n /\ c2s'[on] = Without(c2s[on], n)
        /\ Len(c2s'[on]) = Len(c2s[on]) - n
    <3>1. sin' = FirstN(c2s[on], n) /\ c2s' = [c2s EXCEPT ![on] = Without(@, n)]
      BY <1>11 DEF RelayReadsStream
    <3>2. /\ Len(FirstN(c2s[on], n)) = n /\ c2s'[on] = Without(c2s[on], n)
          /\ Len(c2s'[on]) = Len(c2s[on]) - n
      <4>1. n \in Nat /\ n <= Len(c2s[on]) /\ c2s'[on] = Without(c2s[on], n)
        BY <2>1, <3>1 DEF Readable
      <4> QED BY <4>1, FirstNIs, WithoutIs
    <3> QED BY <3>1, <3>2
  <2>3. Got = committed /\ Flows(c2s[on], committed, taken)
    BY <2>1, EmptyIs DEF Got, UpFlows, Serving
  <2>4. /\ n \in Nat \ {0} /\ n <= Len(c2s[on]) /\ committed + n <= taken
        /\ Runs(committed, sin') /\ Flows(c2s'[on], committed + n, taken)
    BY <2>1, <2>2, <2>3, FlowsRead
  <2>5. Got' = committed + n
    BY <2>1, <2>2 DEF Got
  <2>6. Landed' /\ UpFlows'
    BY <2>1, <2>4, <2>5 DEF Landed, UpFlows
  <2>7. UpWhole'
    <3>1. SUFFICES ASSUME Serving, on = conn, Sending, ~eof
                   PROVE  /\ NoFin(c2s'[on]) /\ Runs((committed + n) + Len(c2s'[on]), cout)
                          /\ (committed + n) + Len(c2s'[on]) + Len(cout) = taken
      BY <2>1, <2>5 DEF UpWhole, Serving, Sending
    <3>2. /\ NoFin(c2s[on]) /\ Runs(committed + Len(c2s[on]), cout)
          /\ committed + Len(c2s[on]) + Len(cout) = taken
      BY <2>3, <3>1 DEF UpWhole
    <3>3. (committed + n) + Len(c2s'[on]) = committed + Len(c2s[on])
      BY <2>2, <2>4
    <3> QED BY <2>2, <2>4, <3>2, <3>3, NoFinRest
  <2>8. UpAsked'
    BY <2>1, <2>4, EmptyIs DEF UpAsked, Serving
  <2> QED BY <2>6, <2>7, <2>8
<1>12. ASSUME NEW n \in Chunks, WritesTarget(n) PROVE UpInv'
  <2>1. UNCHANGED <<taken, sst, on, conn, cst, eof, reply, cout, c2s>>
        /\ sst = "relay" /\ n \in Nat \ {0} /\ n <= Len(sin) /\ committed' = committed + n
        /\ sin' = Without(sin, n) /\ target' = target \o FirstN(sin, n)
    BY <1>12, Counts DEF WritesTarget
  <2>2. Len(sin') = Len(sin) - n /\ Len(target') = Len(target) + n
    BY <2>1, Moves
  <2>3. Got' = Got
    BY <2>1, <2>2 DEF Got
  <2>4. Runs(committed, FirstN(sin, n)) /\ Runs(committed', sin')
    BY <2>1, RunsSplit DEF Landed
  <2>5. Runs(0, target')
    <3>1. FirstN(sin, n) \in Seq(Nat) /\ 0 + Len(target) = committed
      BY <2>1, FirstNIs DEF Landed
    <3> QED BY <2>1, <2>4, <3>1, RunsJoin DEF Landed
  <2>6. Landed'
    BY <2>1, <2>2, <2>3, <2>4, <2>5 DEF Landed
  <2>7. UpFlows' /\ UpWhole'
    BY <2>1, <2>3 DEF UpFlows, UpWhole, Serving, Sending
  <2>8. UpAsked'
    BY <2>1, EmptyIs DEF UpAsked, Serving
  <2> QED BY <2>6, <2>7, <2>8
<1>13. ASSUME NEW fin \in BOOLEAN, RelayStops(fin) PROVE UpInv'
  <2>1. UNCHANGED <<target, committed, taken>> /\ (sin' = <<>> \/ sin' = sin)
        /\ ~Serving'
    BY <1>13 DEF RelayStops, Serving
  <2>2. Runs(committed, sin') /\ committed + Len(sin') <= taken
    <3>1. committed + Len(sin) <= taken
      BY DEF Landed, Got
    <3>2. committed + 0 <= taken
      BY <3>1
    <3> QED BY <2>1, <3>1, <3>2, EmptyIs DEF Landed
  <2> QED BY <2>1, <2>2 DEF Landed, UpFlows, UpWhole, UpAsked, Got
<1>14. ASSUME TargetCloses PROVE UpInv'
  <2>1. UNCHANGED <<target, committed, taken>> /\ (sin' = <<>> \/ sin' = sin)
        /\ ~Serving'
    BY <1>14 DEF TargetCloses, Serving
  <2>2. Runs(committed, sin') /\ committed + Len(sin') <= taken
    <3>1. committed + Len(sin) <= taken
      BY DEF Landed, Got
    <3>2. committed + 0 <= taken
      BY <3>1
    <3> QED BY <2>1, <3>1, <3>2, EmptyIs DEF Landed
  <2> QED BY <2>1, <2>2 DEF Landed, UpFlows, UpWhole, UpAsked, Got
<1>15. ASSUME NEW fin \in BOOLEAN, TargetFails(fin) PROVE UpInv'
  <2>1. UNCHANGED <<target, committed, taken>> /\ (sin' = <<>> \/ sin' = sin)
        /\ ~Serving'
    BY <1>15 DEF TargetFails, Serving
  <2>2. Runs(committed, sin') /\ committed + Len(sin') <= taken
    <3>1. committed + Len(sin) <= taken
      BY DEF Landed, Got
    <3>2. committed + 0 <= taken
      BY <3>1
    <3> QED BY <2>1, <3>1, <3>2, EmptyIs DEF Landed
  <2> QED BY <2>1, <2>2 DEF Landed, UpFlows, UpWhole, UpAsked, Got
<1>16. ASSUME NEW g \in ConnIds, GrantsResume(g) PROVE UpInv'
  <2>1. UNCHANGED <<target, committed, sin, taken, conn, cst, eof, cout, c2s>>
    BY <1>16 DEF GrantsResume
  <2>2. sin = <<>> /\ c2s[g] = <<>> /\ (g = conn => ~Sending)
    BY <1>16 DEF GrantsResume, PhaseInv, AskInv, AskOf
  <2>3. Serving' => on' = g /\ reply'[g].committed = committed
    BY <1>16 DEF GrantsResume, Serving, TypeInv, NetTypes
  <2>4. UpFlows'
    BY <2>1, <2>2, <2>3, EmptyIs DEF UpFlows
  <2>5. UpWhole'
    BY <2>1, <2>2, <2>3 DEF UpWhole, Sending
  <2>6. UpAsked'
    BY <2>1, <2>2, <2>3 DEF UpAsked
  <2> QED BY <2>1, <2>4, <2>5, <2>6 DEF Landed, Got
<1>17. ASSUME NEW g \in ConnIds, RejectsResume(g) PROVE UpInv'
  <2>1. UNCHANGED <<target, committed, sin, taken, sst, on, conn, cst, eof, cout, c2s>>
    BY <1>17 DEF RejectsResume
  <2>2. reply'[on] = reply[on]
    BY <1>17 DEF RejectsResume, AskInv, AskOf, TypeInv, NetTypes
  <2> QED BY <2>1, <2>2 DEF Landed, UpFlows, UpWhole, UpAsked, Got, Serving, Sending
<1>18. ASSUME AckWritten PROVE UpInv'
  <2>1. UNCHANGED <<target, committed, sin, taken, on, conn, cst, eof, cout, c2s, reply>>
        /\ Serving /\ Serving'
    BY <1>18 DEF AckWritten, Serving
  <2> QED BY <2>1 DEF Landed, UpFlows, UpWhole, UpAsked, Got, Sending
<1>19. ASSUME AckFails PROVE UpInv'
  <2>1. UNCHANGED <<target, committed, taken>> /\ (sin' = <<>> \/ sin' = sin)
        /\ ~Serving'
    BY <1>19 DEF AckFails, Serving
  <2>2. Runs(committed, sin') /\ committed + Len(sin') <= taken
    <3>1. committed + Len(sin) <= taken
      BY DEF Landed, Got
    <3>2. committed + 0 <= taken
      BY <3>1
    <3> QED BY <2>1, <3>1, <3>2, EmptyIs DEF Landed
  <2> QED BY <2>1, <2>2 DEF Landed, UpFlows, UpWhole, UpAsked, Got
<1>20. ASSUME Sweeps PROVE UpInv'
  <2>1. UNCHANGED <<target, committed, taken>> /\ (sin' = <<>> \/ sin' = sin)
        /\ ~Serving'
    BY <1>20 DEF Sweeps, Serving
  <2>2. Runs(committed, sin') /\ committed + Len(sin') <= taken
    <3>1. committed + Len(sin) <= taken
      BY DEF Landed, Got
    <3>2. committed + 0 <= taken
      BY <3>1
    <3> QED BY <2>1, <3>1, <3>2, EmptyIs DEF Landed
  <2> QED BY <2>1, <2>2 DEF Landed, UpFlows, UpWhole, UpAsked, Got
<1>21. ASSUME \/ UNCHANGED vars
              \/ AckSenderStops \/ \E h \in ConnIds, task \in AckTasks : AckTaskFails(h, task)
              \/ TrimsReplay \/ CountsDelivered \/ GivesUpReplay \/ ControlTimesOut \/
                 SendsAppAck \/ GetsAppAck
              \/ \E n \in Chunks : ReadsStream(n) \/ WritesStdout(n) \/ RelayReadsTarget(n)
              \/ \E n \in Writes : SendsToClient(n)
              \/ \E g \in ConnIds : ServerGetsAppAck(g) \/ ServerSendsAppAck(g)
       PROVE  UpInv'
  <2>1. UNCHANGED <<target, committed, sin, taken, sst, on, c2s, conn, cst, eof, cout, reply>>
    BY <1>21 DEF TrimsReplay, ReadsStream, WritesStdout, CountsDelivered, RelayReadsTarget,
       SendsToClient, GivesUpReplay, ControlTimesOut, AckTaskFails, AckSenderStops,
       SendsAppAck, ServerGetsAppAck, ServerSendsAppAck, GetsAppAck, vars, client, server, net
  <2> QED BY <2>1 DEF Landed, UpFlows, UpWhole, UpAsked, Got, Serving, Sending
<1> HIDE <1>0, <1>00 DEF UpInv, client, server, net
<1> QED
  BY <1>1, <1>2, <1>3, <1>4, <1>5, <1>6, <1>7, <1>8, <1>9, <1>10, <1>11, <1>12, <1>13, <1>14,
     <1>15, <1>16, <1>17, <1>18, <1>19, <1>20, <1>21
  DEF Next, ClientPumps, ClientResumes, ServerRelays, AppAcks, Failures

\* What the client reads continues what it has counted.
LEMMA DownStep ==
  TypeInv /\ PhaseInv /\ LabelInv /\ AskInv /\ DownInv /\ [Next]_vars => DownInv'
<1> SUFFICES ASSUME TypeInv, PhaseInv, LabelInv, AskInv, DownInv, [Next]_vars PROVE DownInv'
  OBVIOUS
<1>0. /\ delivered \in Nat /\ uncounted \in Nat /\ given \in Nat /\ hin \in Seq(Nat)
      /\ sout \in Seq(Nat) /\ s2c \in [ConnIds -> Seq(Nat)] /\ s2c[conn] \in Seq(Nat)
      /\ s2c[on] \in Seq(Nat) /\ conn \in ConnIds /\ on \in ConnIds /\ Len(hin) \in Nat
      /\ Len(sout) \in Nat /\ Len(s2c[conn]) \in Nat /\ Len(s2c[on]) \in Nat
      /\ Counted \in Nat /\ Read \in Nat
  <2>1. /\ delivered \in Nat /\ uncounted \in Nat /\ given \in Nat /\ hin \in Seq(Nat)
        /\ sout \in Seq(Nat) /\ s2c \in [ConnIds -> Seq(Nat)] /\ conn \in ConnIds
        /\ on \in ConnIds
    BY DEF TypeInv, ClientTypes, ServerTypes, NetTypes
  <2>2. s2c[conn] \in Seq(Nat) /\ s2c[on] \in Seq(Nat) /\ Len(hin) \in Nat /\ Len(sout) \in Nat
    BY <2>1
  <2>3. /\ Len(s2c[conn]) \in Nat /\ Len(s2c[on]) \in Nat /\ Counted \in Nat /\ Read \in Nat
    BY <2>1, <2>2 DEF Counted, Read
  <2> QED BY <2>1, <2>2, <2>3
<1>00. Shown /\ DownFlows /\ DownWhole
  BY DEF DownInv
<1> USE <1>0, <1>00 DEF DownInv, client, server, net
<1>1. ASSUME NEW n \in Chunks, ReadsStream(n) PROVE DownInv'
  <2>1. UNCHANGED <<delivered, uncounted, given, conn, cst, sst, on, sout>>
        /\ cst = "pump" /\ hin = <<>> /\ n \in Nat /\ n \in Readable(s2c[conn])
    BY <1>1, Counts DEF ReadsStream
  <2>2. /\ hin' = FirstN(s2c[conn], n) /\ Len(hin') = n /\ s2c'[conn] = Without(s2c[conn], n)
        /\ Len(s2c'[conn]) = Len(s2c[conn]) - n
    <3>1. hin' = FirstN(s2c[conn], n) /\ s2c' = [s2c EXCEPT ![conn] = Without(@, n)]
      BY <1>1 DEF ReadsStream
    <3>2. n <= Len(s2c[conn]) /\ s2c'[conn] = Without(s2c[conn], n)
      BY <2>1, <3>1 DEF Readable
    <3> QED BY <2>1, <3>1, <3>2, FirstNIs, WithoutIs
  <2>3. Read = Counted /\ Flows(s2c[conn], Counted, given)
    BY <2>1, EmptyIs DEF Read, DownFlows, Reading
  <2>4. /\ n \in Nat \ {0} /\ n <= Len(s2c[conn]) /\ Counted + n <= given
        /\ Runs(Counted, hin') /\ Flows(s2c'[conn], Counted + n, given)
    BY <2>1, <2>2, <2>3, FlowsRead
  <2>5. Counted' = Counted /\ Read' = Counted + n
    BY <2>1, <2>2 DEF Counted, Read
  <2>6. Shown' /\ DownFlows'
    BY <2>1, <2>4, <2>5 DEF Shown, DownFlows
  <2>7. DownWhole'
    <3>1. SUFFICES ASSUME Serving, on = conn
                   PROVE  /\ NoFin(s2c'[conn]) /\ Runs((Counted + n) + Len(s2c'[conn]), sout)
                          /\ (Counted + n) + Len(s2c'[conn]) + Len(sout) = given
      BY <2>1, <2>5 DEF DownWhole, Serving
    <3>2. /\ NoFin(s2c[conn]) /\ Runs(Counted + Len(s2c[conn]), sout)
          /\ Counted + Len(s2c[conn]) + Len(sout) = given
      BY <2>1, <2>3, <3>1 DEF DownWhole, Reading
    <3>3. (Counted + n) + Len(s2c'[conn]) = Counted + Len(s2c[conn])
      BY <2>2, <2>4
    <3> QED BY <2>2, <2>4, <3>2, <3>3, NoFinRest
  <2> QED BY <2>6, <2>7
<1>2. ASSUME NEW n \in Chunks, WritesStdout(n) PROVE DownInv'
  <2>1. UNCHANGED <<delivered, given, conn, cst, sst, on, sout, s2c>> /\ uncounted' = uncounted + n
        /\ n \in Nat /\ n <= Len(hin) /\ hin' = Without(hin, n)
    BY <1>2, Counts DEF WritesStdout
  <2>2. Len(hin') = Len(hin) - n /\ Runs(Counted + n, hin')
    BY <2>1, WithoutIs, RunsSplit DEF Shown
  <2>3. Counted' = Counted + n
    BY <2>1 DEF Counted
  <2>4. Read' = Read
    BY <2>1, <2>2, <2>3 DEF Read
  <2> QED BY <2>1, <2>2, <2>3, <2>4 DEF Shown, DownFlows, DownWhole, Serving, Reading
<1>3. ASSUME CountsDelivered PROVE DownInv'
  <2>1. UNCHANGED <<hin, given, conn, cst, sst, on, sout, s2c>>
        /\ delivered' = delivered + uncounted /\ uncounted' = 0
    BY <1>3 DEF CountsDelivered
  <2>2. Counted' = Counted
    BY <2>1 DEF Counted
  <2>3. Read' = Read
    BY <2>1, <2>2 DEF Read
  <2> QED BY <2>1, <2>2, <2>3 DEF Shown, DownFlows, DownWhole, Serving, Reading
<1>4. ASSUME Finishes PROVE DownInv'
  <2>1. UNCHANGED <<delivered, uncounted, hin, given>> /\ cst' = "over"
    BY <1>4 DEF Finishes
  <2> QED BY <2>1 DEF Shown, DownFlows, DownWhole, Reading, Counted, Read
<1>5. ASSUME NEW k \in 0 .. MaxChunk, Disconnects(k) PROVE DownInv'
  <2>1. UNCHANGED <<delivered, given>> /\ cst' \in {"down", "over"} /\ hin' = <<>> /\ uncounted' = 0
    BY <1>5 DEF Disconnects
  <2>2. Read' = delivered /\ delivered <= given
    <3>1. Read <= given /\ delivered <= Read
      BY DEF Shown, Read, Counted
    <3> QED BY <2>1, <3>1, EmptyIs DEF Read, Counted
  <2> QED BY <2>1, <2>2, EmptyIs DEF Shown, DownFlows, DownWhole, Reading
<1>6. ASSUME SendsResume PROVE DownInv'
  <2>1. UNCHANGED <<delivered, uncounted, hin, given, sst, on, s2c>> /\ conn' = conn + 1
    BY <1>6 DEF SendsResume
  <2>2. conn + 1 \in ConnIds /\ conn + 1 > conn /\ on # conn + 1
    <3>1. on \in Int /\ conn \in Int /\ on <= conn
      BY DEF ConnIds, PhaseInv
    <3>2. conn + 1 \in ConnIds
      BY <1>6 DEF SendsResume, TypeInv, NetTypes, ConnIds, MaxConns
    <3> QED BY <3>1, <3>2
  <2>3. s2c[conn + 1] = <<>>
    BY <2>2 DEF AskInv, AskOf
  <2> QED BY <2>1, <2>2, <2>3, EmptyIs DEF Shown, DownFlows, DownWhole, Counted, Read
<1>7. ASSUME AttemptFails PROVE DownInv'
  <2>1. UNCHANGED <<delivered, uncounted, hin, given>> /\ cst' = "down"
    BY <1>7 DEF AttemptFails
  <2> QED BY <2>1 DEF Shown, DownFlows, DownWhole, Reading, Counted, Read
<1>8. ASSUME GetsResumeAck PROVE DownInv'
  <2>1. UNCHANGED <<delivered, uncounted, hin, given, conn, sst, on, sout, s2c>> /\ Reading
    BY <1>8 DEF GetsResumeAck, Reading
  <2> QED BY <2>1 DEF Shown, DownFlows, DownWhole, Counted, Read, Serving
<1>9. ASSUME NEW opened \in BOOLEAN, ResumesPumping(opened) PROVE DownInv'
  <2>1. UNCHANGED <<delivered, uncounted, hin, given, conn, sst, on, sout, s2c>> /\ Reading
    BY <1>9 DEF ResumesPumping, Reading
  <2> QED BY <2>1 DEF Shown, DownFlows, DownWhole, Counted, Read, Serving
<1>10. ASSUME GivesUp PROVE DownInv'
  <2>1. UNCHANGED <<delivered, uncounted, hin, given>> /\ cst' = "over"
    BY <1>10 DEF GivesUp
  <2> QED BY <2>1 DEF Shown, DownFlows, DownWhole, Reading, Counted, Read
<1>11. ASSUME NEW n \in Chunks, RelayReadsTarget(n) PROVE DownInv'
  <2>1. UNCHANGED <<delivered, uncounted, hin, conn, cst, sst, on, s2c>>
    BY <1>11 DEF RelayReadsTarget
  <2>2. /\ n \in Nat \ {0} /\ given' = given + n /\ sout = <<>> /\ Len(sout') = n
        /\ Runs(given, sout') /\ given <= given' /\ given' \in Nat
    <3>1. /\ n \in Nat \ {0} /\ given' = given + n /\ sout = <<>> /\ Len(sout') = n
          /\ Runs(given, sout')
      BY <1>11, RelayReadsTargetIs
    <3> QED BY <3>1
  <2>3. Counted' = Counted /\ Read' = Read
    BY <2>1 DEF Counted, Read
  <2>4. Shown'
    BY <2>1, <2>2, <2>3 DEF Shown
  <2>5. DownFlows'
    BY <2>1, <2>2, <2>3, FlowsLater DEF DownFlows, Reading
  <2>6. DownWhole'
    <3>1. SUFFICES ASSUME Serving, on = conn, Reading
                   PROVE  /\ NoFin(s2c[on]) /\ Runs(Read + Len(s2c[on]), sout')
                          /\ Read + Len(s2c[on]) + Len(sout') = given + n
      BY <2>1, <2>2, <2>3 DEF DownWhole, Serving, Reading
    <3>2. NoFin(s2c[on]) /\ Read + Len(s2c[on]) + Len(sout) = given
      BY <3>1 DEF DownWhole
    <3>3. Read + Len(s2c[on]) = given
      BY <2>2, <3>2
    <3> QED BY <2>2, <3>2, <3>3
  <2> QED BY <2>4, <2>5, <2>6
<1>12. ASSUME NEW n \in Writes, SendsToClient(n) PROVE DownInv'
  <2>1. UNCHANGED <<delivered, uncounted, hin, given, conn, cst, sst, on>>
    BY <1>12 DEF SendsToClient
  <2>2. /\ n \in Nat \ {0} /\ n <= Len(sout) /\ Serving /\ sout' = Without(sout, n)
        /\ Len(sout') = Len(sout) - n /\ s2c'[on] = s2c[on] \o FirstN(sout, n)
        /\ Len(s2c'[on]) = Len(s2c[on]) + n /\ (on # conn => s2c'[conn] = s2c[conn])
    BY <1>12, SendsToClientIs
  <2>3. CASE on = conn /\ Reading
    <3>1. /\ NoFin(s2c[on]) /\ Runs(Read + Len(s2c[on]), sout) /\ Flows(s2c[on], Read, given)
          /\ Read + Len(s2c[on]) + Len(sout) = given
      BY <2>2, <2>3 DEF DownWhole, DownFlows
    <3>2. /\ Runs(Read + Len(s2c[on]), FirstN(sout, n))
          /\ Runs((Read + Len(s2c[on])) + n, Without(sout, n))
      BY <2>2, <3>1, RunsSplit
    <3>3. FirstN(sout, n) \in Seq(Nat) /\ Len(FirstN(sout, n)) = n
      BY <2>2, FirstNIs
    <3>4. Read + Len(s2c[on]) + n <= given /\ Read + (Len(s2c[on]) + n) + (Len(sout) - n) = given
          /\ (Read + Len(s2c[on])) + n = Read + (Len(s2c[on]) + n)
      <4>1. PICK a \in Nat, b \in Nat, c \in Nat, m \in Nat :
                a = Read /\ b = Len(s2c[on]) /\ c = Len(sout) /\ m = n
        BY <2>2
      <4>2. a + b + c = given /\ m <= c
        BY <2>2, <3>1, <4>1
      <4>3. a + b + m <= given /\ a + (b + m) + (c - m) = given /\ (a + b) + m = a + (b + m)
        BY <4>2, Sums
      <4> QED BY <4>1, <4>3
    <3>5. Flows(s2c'[on], Read, given) /\ NoFin(s2c'[on])
      BY <2>2, <3>1, <3>2, <3>3, <3>4, FlowsMore
    <3>6. Runs(Read + Len(s2c'[on]), sout') /\ Read + Len(s2c'[on]) + Len(sout') = given
      BY <2>2, <3>2, <3>4
    <3>7. Counted' = Counted /\ Read' = Read
      BY <2>1 DEF Counted, Read
    <3> QED BY <2>1, <2>3, <3>5, <3>6, <3>7 DEF Shown, DownFlows, DownWhole
  <2>4. CASE ~(on = conn /\ Reading)
    <3>1. DownFlows'
      BY <2>1, <2>2, <2>4 DEF DownFlows, Reading, Counted, Read
    <3> QED BY <2>1, <2>4, <3>1 DEF Shown, DownWhole, Counted, Read, Reading
  <2> QED BY <2>3, <2>4
<1>13. ASSUME NEW fin \in BOOLEAN, RelayStops(fin) PROVE DownInv'
  <2>1. UNCHANGED <<delivered, uncounted, hin, given, conn, cst>> /\ Serving /\ ~Serving'
    BY <1>13 DEF RelayStops, AtSelect, Serving
  <2>2. /\ s2c'[on] = s2c[on] \/ s2c'[on] = Append(s2c[on], Fin)
        /\ on # conn => s2c'[conn] = s2c[conn]
    BY <1>13, DropsIs DEF RelayStops
  <2>3. DownFlows'
    <3>1. SUFFICES ASSUME Reading PROVE Flows(s2c'[conn], Read, given)
      BY <2>1 DEF DownFlows, Reading, Counted, Read
    <3>2. Flows(s2c[conn], Read, given) /\ (on = conn => NoFin(s2c[on]))
      BY <2>1, <3>1 DEF DownFlows, DownWhole
    <3>3. on = conn => Flows(Append(s2c[on], Fin), Read, given)
      BY <3>2, FlowsFin
    <3> QED BY <2>2, <3>2, <3>3
  <2> QED BY <2>1, <2>3 DEF Shown, DownWhole, Counted, Read
<1>14. ASSUME TargetCloses PROVE DownInv'
  <2>1. UNCHANGED <<delivered, uncounted, hin, given, conn, cst>> /\ Serving /\ ~Serving'
    BY <1>14 DEF TargetCloses, AtSelect, Serving
  <2>2. /\ s2c'[on] = s2c[on] \/ s2c'[on] = Append(s2c[on], Fin)
        /\ on # conn => s2c'[conn] = s2c[conn]
    BY <1>14, DropsIs DEF TargetCloses
  <2>3. DownFlows'
    <3>1. SUFFICES ASSUME Reading PROVE Flows(s2c'[conn], Read, given)
      BY <2>1 DEF DownFlows, Reading, Counted, Read
    <3>2. Flows(s2c[conn], Read, given) /\ (on = conn => NoFin(s2c[on]))
      BY <2>1, <3>1 DEF DownFlows, DownWhole
    <3>3. on = conn => Flows(Append(s2c[on], Fin), Read, given)
      BY <3>2, FlowsFin
    <3> QED BY <2>2, <3>2, <3>3
  <2> QED BY <2>1, <2>3 DEF Shown, DownWhole, Counted, Read
<1>15. ASSUME NEW fin \in BOOLEAN, TargetFails(fin) PROVE DownInv'
  <2>1. UNCHANGED <<delivered, uncounted, hin, given, conn, cst>> /\ Serving /\ ~Serving'
    BY <1>15 DEF TargetFails, AtSelect, Serving
  <2>2. /\ s2c'[on] = s2c[on] \/ s2c'[on] = Append(s2c[on], Fin)
        /\ on # conn => s2c'[conn] = s2c[conn]
    BY <1>15, DropsIs DEF TargetFails
  <2>3. DownFlows'
    <3>1. SUFFICES ASSUME Reading PROVE Flows(s2c'[conn], Read, given)
      BY <2>1 DEF DownFlows, Reading, Counted, Read
    <3>2. Flows(s2c[conn], Read, given) /\ (on = conn => NoFin(s2c[on]))
      BY <2>1, <3>1 DEF DownFlows, DownWhole
    <3>3. on = conn => Flows(Append(s2c[on], Fin), Read, given)
      BY <3>2, FlowsFin
    <3> QED BY <2>2, <3>2, <3>3
  <2> QED BY <2>1, <2>3 DEF Shown, DownWhole, Counted, Read
<1>16. ASSUME NEW g \in ConnIds, GrantsResume(g) PROVE DownInv'
  <2>1. UNCHANGED <<delivered, uncounted, hin, given, conn, cst, s2c>>
    BY <1>16 DEF GrantsResume
  <2>2. Counted' = Counted /\ Read' = Read
    BY <2>1 DEF Counted, Read
  <2>3. DownWhole'
    <3>1. SUFFICES ASSUME Serving', g = conn, Reading
                   PROVE  /\ NoFin(s2c[g]) /\ Runs(Read + Len(s2c[g]), sout')
                          /\ Read + Len(s2c[g]) + Len(sout') = given
      <4>1. Serving' => on' = g
        BY <1>16 DEF GrantsResume, Serving
      <4> QED BY <2>1, <2>2, <4>1 DEF DownWhole, Reading
    <3>2. ask[g] = delivered /\ s2c[g] = <<>> /\ ~Sending /\ ~hole
      BY <1>16, <3>1 DEF GrantsResume, AskInv, AskOf, PhaseInv
    <3>3. hin = <<>> /\ uncounted = 0
      BY <3>2 DEF PhaseInv, Sending
    <3>4. Read + Len(s2c[g]) = delivered
      BY <3>2, <3>3, EmptyIs DEF Read, Counted
    <3>5. InRange(sbuf, delivered) /\ sout' = ReplayFrom(sbuf, delivered)
      BY <1>16, <3>1, <3>2 DEF GrantsResume, Serving
    <3>6. sbuf \in Buffers /\ Runs(sbuf.start, sbuf.data) /\ EndOffset(sbuf) = given
      BY <3>2 DEF TypeInv, ServerTypes, LabelInv, ReplayIsLabelled
    <3>7. Runs(delivered, sout') /\ delivered + Len(sout') = given
      BY <3>5, <3>6, ReplayIs
    <3> QED BY <3>2, <3>4, <3>7, EmptyIs
  <2> QED BY <2>1, <2>2, <2>3 DEF Shown, DownFlows, Reading
<1>17. ASSUME AckWritten PROVE DownInv'
  <2>1. UNCHANGED <<delivered, uncounted, hin, given, conn, cst, s2c, on, sout>> /\ Serving
    BY <1>17 DEF AckWritten, Serving
  <2> QED BY <2>1 DEF Shown, DownFlows, DownWhole, Counted, Read, Reading
<1>18. ASSUME AckFails PROVE DownInv'
  <2>1. UNCHANGED <<delivered, uncounted, hin, given, conn, cst, s2c>> /\ ~Serving'
    BY <1>18 DEF AckFails, Serving
  <2> QED BY <2>1 DEF Shown, DownFlows, DownWhole, Counted, Read, Reading
<1>19. ASSUME Sweeps PROVE DownInv'
  <2>1. UNCHANGED <<delivered, uncounted, hin, given, conn, cst, s2c>> /\ ~Serving'
    BY <1>19 DEF Sweeps, Serving
  <2> QED BY <2>1 DEF Shown, DownFlows, DownWhole, Counted, Read, Reading
<1>20. ASSUME \/ UNCHANGED vars
              \/ AckSenderStops \/ \E h \in ConnIds, task \in AckTasks : AckTaskFails(h, task)
              \/ TrimsReplay \/ ReadsEof \/ GivesUpReplay \/ ControlTimesOut \/ SendsAppAck \/
                 GetsAppAck
              \/ \E n \in Chunks : ReadsStdin(n) \/ RelayReadsStream(n) \/ WritesTarget(n)
              \/ \E n \in Writes : SendsChunk(n)
              \/ \E g \in ConnIds : RejectsResume(g) \/ ServerGetsAppAck(g) \/
                 ServerSendsAppAck(g)
       PROVE  DownInv'
  <2>1. UNCHANGED <<delivered, uncounted, hin, given, s2c, conn, cst, sst, on, sout>>
    BY <1>20 DEF TrimsReplay, ReadsStdin, ReadsEof, SendsChunk, RelayReadsStream, WritesTarget,
       GivesUpReplay, RejectsResume, ControlTimesOut, AckTaskFails, AckSenderStops,
       SendsAppAck, ServerGetsAppAck, ServerSendsAppAck, GetsAppAck, vars, client, server, net
  <2> QED BY <2>1 DEF Shown, DownFlows, DownWhole, Counted, Read, Serving, Reading
<1> HIDE <1>0, <1>00 DEF DownInv, client, server, net
<1> QED
  BY <1>1, <1>2, <1>3, <1>4, <1>5, <1>6, <1>7, <1>8, <1>9, <1>10, <1>11, <1>12, <1>13, <1>14,
     <1>15, <1>16, <1>17, <1>18, <1>19, <1>20
  DEF Next, ClientPumps, ClientResumes, ServerRelays, AppAcks, Failures

\* A piece of output that continues what is counted.
LEMMA PrintedMore ==
  ASSUME NEW out \in Seq(Nat), NEW c \in Nat, NEW w \in Seq(Nat), Printed(out, c), Runs(c, w)
  PROVE  Printed(out \o w, c + Len(w))
<1> DEFINE new == out \o w
<1>1. PICK l \in Nat, k \in Nat : l = Len(out) /\ k = Len(w)
  BY SeqDomain
<1>2. /\ DOMAIN out = 1 .. l /\ DOMAIN w = 1 .. k /\ DOMAIN new = 1 .. l + k /\ Len(new) = l + k
      /\ new \in Seq(Nat)
  BY <1>1, SeqDomain, ConcatIs
<1>3. \A i \in 1 .. l : new[i] = out[i]
  BY <1>1, ConcatIs
<1>4. ASSUME NEW i \in 1 .. k PROVE new[l + i] = c + i
  <2>1. l + i \in l + 1 .. l + k /\ (l + i) - l = i
    OBVIOUS
  <2>2. new[l + i] = w[(l + i) - l]
    BY <1>1, <2>1, ConcatIs
  <2>3. w[i] = c + i
    BY <1>2 DEF Runs
  <2> QED BY <2>1, <2>2, <2>3
<1> HIDE DEF new
<1>5. ASSUME NEW b \in 1 .. c PROVE \E j \in 1 .. l : new[j] = b
  <2>1. PICK j \in 1 .. l : out[j] = b
    BY <1>2 DEF Printed, Covers
  <2> QED BY <1>3, <2>1
<1>6. ASSUME NEW m \in 1 .. k, NEW b \in 1 .. c + m PROVE \E j \in 1 .. l + m : new[j] = b
  <2>1. CASE b <= c
    <3>1. b \in 1 .. c
      BY <2>1
    <3>2. PICK j \in 1 .. l : new[j] = b
      BY <3>1, <1>5
    <3>3. j \in 1 .. l + m
      OBVIOUS
    <3> QED BY <3>2, <3>3
  <2>2. CASE b > c
    <3>1. PICK i \in 1 .. m : c + i = b
      <4>1. b - c \in 1 .. m /\ c + (b - c) = b
        BY <2>2
      <4> QED BY <4>1
    <3>2. i \in 1 .. k /\ l + i \in 1 .. l + m
      OBVIOUS
    <3> QED BY <1>4, <3>1, <3>2
  <2> QED BY <2>1, <2>2
<1>7. Covers(new, c + k)
  <2>1. CASE k = 0
    <3>1. c + k = c /\ l + k = l
      BY <2>1
    <3> QED BY <1>2, <1>5, <3>1 DEF Covers
  <2>2. CASE k # 0
    <3>1. k \in 1 .. k
      BY <2>2
    <3> QED BY <1>2, <1>6, <3>1 DEF Covers
  <2> QED BY <2>1, <2>2
<1>8. Len(new) >= c + k
  BY <1>1, <1>2 DEF Printed
<1>9. Len(new) = c + k => Runs(0, new)
  <2>1. SUFFICES ASSUME l = c PROVE Runs(0, new)
    BY <1>2
  <2>2. Runs(0, out) /\ 0 + Len(out) = c
    BY <1>1, <2>1 DEF Printed
  <2> QED BY <2>2, RunsJoin DEF new
<1>10. ASSUME NEW i \in 1 .. l + k, NEW b \in 1 .. new[i] PROVE \E j \in 1 .. i : new[j] = b
  <2>1. CASE i <= l
    <3>1. i \in 1 .. l
      BY <2>1
    <3>2. b \in 1 .. out[i]
      BY <1>3, <3>1
    <3>3. PICK j \in 1 .. i : out[j] = b
      BY <1>2, <3>1, <3>2 DEF Printed, Gapless
    <3>4. j \in 1 .. l
      BY <2>1
    <3> QED BY <1>3, <3>3, <3>4
  <2>2. CASE i > l
    <3>1. PICK m \in 1 .. k : i = l + m
      <4>1. i - l \in 1 .. k /\ i = l + (i - l)
        BY <2>2
      <4> QED BY <4>1
    <3>2. new[i] = c + m
      BY <1>4, <3>1
    <3> QED BY <1>6, <3>1, <3>2
  <2> QED BY <2>1, <2>2
<1>11. Gapless(new)
  BY <1>2, <1>10 DEF Gapless
<1> QED BY <1>1, <1>7, <1>8, <1>9, <1>11 DEF Printed, new

\* What is written to stdout continues what is counted there, whatever a loss leaves uncounted.
LEMMA OutStep == TypeInv /\ DownInv /\ OutInv /\ [Next]_vars => OutInv'
<1> SUFFICES ASSUME TypeInv, DownInv, OutInv, [Next]_vars PROVE OutInv'
  OBVIOUS
<1>0. /\ delivered \in Nat /\ uncounted \in Nat /\ hin \in Seq(Nat) /\ stdout \in Seq(Nat)
      /\ Counted \in Nat /\ Printed(stdout, Counted) /\ Runs(Counted, hin)
  BY DEF TypeInv, ClientTypes, Counted, OutInv, DownInv, Shown
<1>00. ASSUME NEW n \in Nat, n <= Len(hin)
       PROVE  Printed(stdout \o FirstN(hin, n), Counted + n)
  <2>1. FirstN(hin, n) \in Seq(Nat) /\ Len(FirstN(hin, n)) = n /\ Runs(Counted, FirstN(hin, n))
    BY <1>0, <1>00, FirstNIs, RunsSplit
  <2>2. Printed(stdout \o FirstN(hin, n), Counted + Len(FirstN(hin, n)))
    BY <1>0, <2>1, PrintedMore
  <2> QED BY <2>1, <2>2
<1> USE <1>0 DEF client, server, net
<1>1. ASSUME NEW n \in Chunks, WritesStdout(n) PROVE OutInv'
  <2>1. n \in Nat /\ n <= Len(hin) /\ stdout' = stdout \o FirstN(hin, n)
    BY <1>1, Counts DEF WritesStdout
  <2>2. Counted' = Counted + n
    BY <1>1, <2>1 DEF WritesStdout, Counted
  <2>3. Printed(stdout', Counted + n)
    BY <2>1, <1>00
  <2> QED BY <2>2, <2>3 DEF OutInv
<1>2. ASSUME CountsDelivered PROVE OutInv'
  <2>1. Counted' = Counted /\ stdout' = stdout
    BY <1>2 DEF CountsDelivered, Counted
  <2> QED BY <2>1 DEF OutInv
<1>3. ASSUME NEW k \in 0 .. MaxChunk, Disconnects(k) PROVE OutInv'
  <2>1. k \in Nat /\ k <= Len(hin) /\ stdout' = stdout \o FirstN(hin, k)
    BY <1>3, Counts DEF Disconnects
  <2>2. Printed(stdout', Counted + k)
    BY <2>1, <1>00
  <2>3. Counted' = delivered /\ Counted = delivered + uncounted
    BY <1>3 DEF Disconnects, Counted
  <2>4. Len(stdout') \in Nat
    <3>1. stdout' \in Seq(Nat)
      BY <2>1, Moves
    <3> QED BY <3>1
  <2>5. Printed(stdout', delivered)
    <3>1. delivered <= Counted + k /\ Len(stdout') >= Counted + k /\ Counted + k \in Nat
      BY <2>1, <2>2, <2>3 DEF Printed
    <3>2. Len(stdout') >= delivered /\ (Len(stdout') = delivered => Len(stdout') = Counted + k)
      BY <2>4, <3>1
    <3>3. Covers(stdout', delivered)
      <4>1. 1 .. delivered \subseteq 1 .. Counted + k
        BY <3>1
      <4> QED BY <2>2, <4>1 DEF Printed, Covers
    <3> QED BY <2>2, <3>2, <3>3 DEF Printed
  <2> QED BY <2>3, <2>5 DEF OutInv
<1>4. ASSUME \/ UNCHANGED vars
             \/ AckSenderStops \/ \E h \in ConnIds, task \in AckTasks : AckTaskFails(h, task)
             \/ TrimsReplay \/ ReadsEof \/ Finishes \/ SendsResume \/ AttemptFails \/
                GetsResumeAck \/ GivesUp \/ GivesUpReplay \/ TargetCloses \/ AckWritten \/
                AckFails \/ Sweeps \/ ControlTimesOut \/ SendsAppAck \/ GetsAppAck
             \/ \E n \in Chunks : ReadsStdin(n) \/ ReadsStream(n) \/ RelayReadsStream(n) \/
                WritesTarget(n) \/ RelayReadsTarget(n)
             \/ \E n \in Writes : SendsChunk(n) \/ SendsToClient(n)
             \/ \E opened \in BOOLEAN : ResumesPumping(opened)
             \/ \E fin \in BOOLEAN : RelayStops(fin) \/ TargetFails(fin)
             \/ \E g \in ConnIds : GrantsResume(g) \/ RejectsResume(g) \/ ServerGetsAppAck(g)
                \/ ServerSendsAppAck(g)
       PROVE  OutInv'
  <2>1. UNCHANGED <<delivered, uncounted, stdout>>
    BY <1>4 DEF TrimsReplay, ReadsStdin, ReadsEof, SendsChunk, ReadsStream, Finishes,
       SendsResume, AttemptFails, GetsResumeAck, ResumesPumping, GivesUp, RelayReadsStream,
       WritesTarget, RelayReadsTarget, SendsToClient, GivesUpReplay, RelayStops, TargetCloses,
       TargetFails, GrantsResume, RejectsResume, AckWritten, AckFails, Sweeps, ControlTimesOut,
       AckTaskFails, AckSenderStops, SendsAppAck, ServerGetsAppAck, ServerSendsAppAck,
       GetsAppAck, vars, client, server, net
  <2> QED BY <2>1 DEF OutInv, Counted
<1> HIDE <1>0 DEF client, server, net
<1> QED
  BY <1>1, <1>2, <1>3, <1>4
  DEF Next, ClientPumps, ClientResumes, ServerRelays, AppAcks, Failures

-----------------------------------------------------------------------------
(* The invariant and what it gives. *)

\* A session that has just been attached.
LEMMA InitInv == Init => IInv
<1> SUFFICES ASSUME Init PROVE IInv
  OBVIOUS
<1>1. load \in [stdin : Nat, target : Nat, conns : Nat \ {0}, frail : SUBSET AckTasks]
  BY SizesAssumption DEF Init
<1>2. /\ load.stdin \in Nat /\ load.target \in Nat /\ 1 \in ConnIds /\ ConnIds \subseteq Nat
  BY <1>1 DEF ConnIds, MaxConns
<1>3. NewBuffer \in Buffers /\ NewBuffer.start = 0 /\ NewBuffer.data = <<>> /\ NoReply \in Replies
  BY EmptyIs DEF NewBuffer, Buffers, NoReply, Replies
<1>4. ClientTypes
  <2>1. taken \in Nat /\ taken <= StdinBytes /\ uncounted \in Nat /\ delivered \in Nat /\ acked \in Nat
    BY <1>2 DEF Init, StdinBytes
  <2>2. cout \in Seq(Nat) /\ hin \in Seq(Nat) /\ stdout \in Seq(Nat) /\ cbuf \in Buffers
    BY <1>3, EmptyIs DEF Init
  <2>3. cst \in {"pump", "down", "asked", "replay", "over"} /\ conn \in ConnIds /\ eof \in BOOLEAN
    BY <1>2 DEF Init
  <2> QED BY <2>1, <2>2, <2>3 DEF ClientTypes
<1>5. ServerTypes
  <2>1. given \in Nat /\ given <= TargetBytes /\ committed \in Nat
    BY <1>2 DEF Init, TargetBytes
  <2>2. sout \in Seq(Nat) /\ sin \in Seq(Nat) /\ target \in Seq(Nat) /\ sbuf \in Buffers
    BY <1>3, EmptyIs DEF Init
  <2>3. sst \in {"relay", "ack", "parked", "gone"} /\ on \in ConnIds /\ hole \in BOOLEAN
    BY <1>2 DEF Init
  <2> QED BY <2>1, <2>2, <2>3 DEF ServerTypes
<1>6. NetTypes
  BY <1>1, <1>3, EmptyIs DEF Init, NetTypes
<1>7. PhaseInv
  BY DEF Init, PhaseInv
<1>8. LabelInv
  BY <1>3, EmptyIs, SizesAssumption DEF Init, LabelInv, ReplayIsLabelled, EndOffset
<1>9. AskInv
  BY <1>2 DEF Init, AskInv, AskOf, NoReply, Sending
<1>10. TrimInv
  BY <1>2, <1>3 DEF Init, TrimInv, TrimHere, TrimOf, NoReply
<1>11. UpInv
  BY <1>2, EmptyIs DEF Init, UpInv, Landed, UpFlows, UpWhole, UpAsked, Got, Serving, Sending
<1>12. DownInv
  BY <1>2, EmptyIs DEF Init, DownInv, Shown, DownFlows, DownWhole, Counted, Read, Serving, Reading
<1>13. OutInv
  BY EmptyIs DEF Init, OutInv, Printed, Covers, Gapless, Counted
<1> QED BY <1>4, <1>5, <1>6, <1>7, <1>8, <1>9, <1>10, <1>11, <1>12, <1>13 DEF IInv, TypeInv

\* Every step of either end keeps all of it.
LEMMA Inductive == IInv /\ [Next]_vars => IInv'
BY ClientTypesStep, ServerTypesStep, NetTypesStep, PhaseStep, LabelStep, AskStep, TrimStep, UpStep,
   DownStep, OutStep DEF IInv, TypeInv

\* The invariant holds throughout.
LEMMA Invariance == Spec => []IInv
BY InitInv, Inductive, PTL DEF Spec

\* pump_c2h, relay_buffered and handle_resume_stream keep their offsets and their buffers within
\* range: no buffer outgrows its capacity, and no RESUME asks for more than the target has said.
THEOREM Typed == Spec => []TypeOK
<1>1. IInv => TypeOK
  <2> SUFFICES ASSUME IInv PROVE TypeOK
    OBVIOUS
  <2>1. /\ delivered \in Nat /\ uncounted \in Nat /\ Len(hin) \in Nat /\ given \in Nat
        /\ TargetBytes \in Nat /\ StdinBytes \in Nat /\ given <= TargetBytes
        /\ delivered + uncounted + Len(hin) <= given
    BY DEF IInv, TypeInv, ClientTypes, ServerTypes, NetTypes, DownInv, Shown, Read, Counted,
       TargetBytes, StdinBytes
  <2>2. delivered <= TargetBytes
    BY <2>1
  <2>3. ask \in [ConnIds -> -1 .. TargetBytes]
    <3>1. ask \in [ConnIds -> Int]
      BY DEF IInv, TypeInv, NetTypes
    <3>2. ASSUME NEW g \in ConnIds PROVE ask[g] \in -1 .. TargetBytes
      <4>1. ask[g] \in Int /\ ask[g] >= -1 /\ (ask[g] >= 0 => ask[g] <= delivered)
        BY <3>1 DEF IInv, AskInv, AskOf
      <4> QED BY <2>1, <2>2, <4>1
    <3> QED BY <3>1, <3>2
  <2>4. IsBuffer(cbuf, ClientCap) /\ IsBuffer(sbuf, ServerCap)
    BY DEF IInv, TypeInv, ClientTypes, ServerTypes, LabelInv, IsBuffer, Buffers
  <2>5. taken \in 0 .. StdinBytes /\ given \in 0 .. TargetBytes
    BY <2>1 DEF IInv, TypeInv, ClientTypes
  <2>6. \A g \in ConnIds : reply[g].is \in {"none", "ack", "unknown", "gone"}
    BY DEF IInv, TypeInv, NetTypes, Replies
  <2> QED BY <2>3, <2>4, <2>5, <2>6 DEF TypeOK, IInv, TypeInv, ClientTypes, ServerTypes, NetTypes
<1> QED BY <1>1, Invariance, PTL

\* quicmux::ReplayBuffer at both ends: every byte it holds has the offset it is replayed under.
THEOREM BuffersAreLabelled == Spec => []ReplayIsLabelled
<1>1. IInv => ReplayIsLabelled
  BY DEF IInv, LabelInv
<1> QED BY <1>1, Invariance, PTL

\* Neither OffsetGone nor a committed offset the client cannot replay from is ever answered on
\* the connection the client waits on, whatever APP_ACKs come late and whichever end trims.
THEOREM OffsetsAgree == Spec => []NeverUnrecoverable
<1>1. IInv => NeverUnrecoverable
  <2> SUFFICES ASSUME IInv, cst = "asked", reply[conn].is = "ack"
               PROVE  InRange(cbuf, reply[conn].committed)
    BY DEF NeverUnrecoverable, Unrecoverable, IInv, TrimInv, TrimHere
  <2>1. /\ conn \in ConnIds /\ reply[conn].committed \in Nat /\ committed \in Nat /\ taken \in Nat
        /\ sin \in Seq(Nat)
    BY DEF IInv, TypeInv, ClientTypes, ServerTypes, NetTypes, Replies
  <2>2. /\ cbuf.start <= reply[conn].committed /\ reply[conn].committed <= committed
        /\ EndOffset(cbuf) = taken /\ committed + Len(sin) <= taken
    BY <2>1 DEF IInv, TrimInv, TrimHere, TrimOf, LabelInv, ReplayIsLabelled, UpInv, Landed, Got
  <2>3. Len(sin) \in Nat
    BY <2>1
  <2>4. reply[conn].committed <= taken
    BY <2>1, <2>2, <2>3
  <2> QED BY <2>2, <2>4 DEF InRange
<1> QED BY <1>1, Invariance, PTL

\* pump_h2c over all the connections of a session: stdout never has a byte before the bytes
\* that precede it, though a loss may show some of them twice.
THEOREM OutputIsGapless == Spec => []OutputHasNoGap
<1>1. IInv => OutputHasNoGap
  BY DEF IInv, OutInv, Printed, Gapless, OutputHasNoGap
<1> QED BY <1>1, Invariance, PTL

\* As long as h2c_client_delivered_offset accounts for what is on stdout, stdout is the
\* target's output: only bytes written and not yet counted at a loss can come again.
THEOREM CountedOutputIsExact == Spec => []OutputExactWhenCounted
<1>1. IInv => OutputExactWhenCounted
  BY DEF IInv, OutInv, Printed, Counted, OutputExactWhenCounted
<1> QED BY <1>1, Invariance, PTL

\* A sequence of the first bytes, in order.
LEMMA IsFirstBytes ==
  ASSUME NEW out \in Seq(Nat), Runs(0, out)
  PROVE  out = Upstream!FirstBytes(Len(out))
<1>1. out = [i \in 1 .. Len(out) |-> out[i]]
  OBVIOUS
<1>2. \A i \in 1 .. Len(out) : out[i] = i
  BY SeqDomain DEF Runs
<1> QED BY <1>1, <1>2 DEF Upstream!FirstBytes

\* Reading stdin takes bytes in, writing to the target makes them come out; nothing else does either.
LEMMA UpstreamStep == IInv /\ IInv' /\ [Next]_vars => [Upstream!Next]_(Upstream!stream)
<1> SUFFICES ASSUME IInv, IInv', [Next]_vars PROVE [Upstream!Next]_(Upstream!stream)
  OBVIOUS
<1>0. TypeInv /\ LabelInv
  BY DEF IInv
<1>1. ASSUME NEW n \in Chunks, ReadsStdin(n) PROVE [Upstream!Next]_(Upstream!stream)
  <2>1. taken \in Nat /\ taken' \in Nat /\ n \in Nat \ {0} /\ taken' = taken + n
    BY <1>1, <1>0, ReadsStdinIs DEF IInv, TypeInv, ClientTypes
  <2>2. target' = target
    BY <1>1 DEF ReadsStdin, server
  <2>3. taken' > taken
    BY <2>1
  <2>4. Upstream!TakeIn
    BY <2>1, <2>2, <2>3 DEF Upstream!TakeIn
  <2> QED BY <2>4 DEF Upstream!Next
<1>2. ASSUME NEW n \in Chunks, WritesTarget(n) PROVE [Upstream!Next]_(Upstream!stream)
  <2>1. /\ taken' = taken /\ n \in Nat \ {0} /\ committed' = committed + n
    BY <1>2, Counts DEF WritesTarget, client
  <2>2. /\ target' \in Seq(Nat) /\ Runs(0, target') /\ Len(target') = committed'
        /\ Len(target) = committed /\ committed \in Nat
        /\ sin' \in Seq(Nat) /\ committed' + Len(sin') <= taken' /\ taken \in Nat
    BY DEF IInv, TypeInv, ClientTypes, ServerTypes, UpInv, Landed, Got
  <2>3. PICK m \in Nat : m = Len(sin')
    BY <2>2
  <2>4. committed + n \in committed + 1 .. taken
    <3>1. (committed + n) + m <= taken
      BY <2>1, <2>2, <2>3
    <3> QED BY <2>1, <2>2, <3>1
  <2>5. target' = Upstream!FirstBytes(Len(target'))
    BY <2>2, IsFirstBytes
  <2>6. Upstream!ComeOut
    BY <2>1, <2>2, <2>4, <2>5 DEF Upstream!ComeOut
  <2> QED BY <2>6 DEF Upstream!Next
<1>3. ASSUME \/ UNCHANGED vars
             \/ AckSenderStops \/ \E h \in ConnIds, task \in AckTasks : AckTaskFails(h, task)
             \/ TrimsReplay \/ ReadsEof \/ CountsDelivered \/ Finishes \/ SendsResume \/
                AttemptFails \/ GetsResumeAck \/ GivesUp \/ GivesUpReplay \/ TargetCloses \/
                AckWritten \/ AckFails \/ Sweeps \/ ControlTimesOut \/ SendsAppAck \/
                GetsAppAck
             \/ \E n \in Writes : SendsChunk(n) \/ SendsToClient(n)
             \/ \E n \in Chunks : ReadsStream(n) \/ WritesStdout(n) \/ RelayReadsStream(n) \/
                RelayReadsTarget(n)
             \/ \E k \in 0 .. MaxChunk : Disconnects(k)
             \/ \E opened \in BOOLEAN : ResumesPumping(opened)
             \/ \E fin \in BOOLEAN : RelayStops(fin) \/ TargetFails(fin)
             \/ \E g \in ConnIds : GrantsResume(g) \/ RejectsResume(g) \/ ServerGetsAppAck(g)
                \/ ServerSendsAppAck(g)
       PROVE  [Upstream!Next]_(Upstream!stream)
  <2>1. UNCHANGED <<taken, target>>
    BY <1>3 DEF TrimsReplay, ReadsEof, SendsChunk, ReadsStream, WritesStdout, CountsDelivered,
       Finishes, Disconnects, SendsResume, AttemptFails, GetsResumeAck, ResumesPumping, GivesUp,
       RelayReadsStream, RelayReadsTarget, SendsToClient, GivesUpReplay, RelayStops,
       TargetCloses, TargetFails, GrantsResume, RejectsResume, AckWritten, AckFails, Sweeps,
       ControlTimesOut, AckTaskFails, AckSenderStops, SendsAppAck, ServerGetsAppAck,
       ServerSendsAppAck, GetsAppAck, vars, client, server, net
  <2> QED BY <2>1 DEF Upstream!stream
<1> QED
  BY <1>1, <1>2, <1>3
  DEF Next, ClientPumps, ClientResumes, ServerRelays, AppAcks, Failures

\* PLAN.md, Phase 8, for stdin to the target: pump_c2h, the replay and relay_buffered over any
\* number of lost connections implement a stream without loss, duplication or reordering.
THEOREM UpstreamRefines == Spec => InputIsReliable
<1>1. Init => Upstream!Init
  BY DEF Init, Upstream!Init
<1> QED BY <1>1, Invariance, UpstreamStep, PTL DEF Spec, InputIsReliable, Upstream!Spec
=============================================================================
