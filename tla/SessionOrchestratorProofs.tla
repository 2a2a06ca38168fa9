--------------------- MODULE SessionOrchestratorProofs ---------------------
(***************************************************************************)
(* Properties of the reconnect shell for every script, every number of     *)
(* generations and epochs and every interleaving of its threads.  Each is  *)
(* about what threads do to each other between two critical sections: the  *)
(* order in which the app sees the connection edges, whether all that was  *)
(* staged is delivered, whether a session that lost its place in the slot  *)
(* is told to end, and, in the second half, whether what the app is shown  *)
(* in the end agrees with the reducer and a connection it is shown is live.*)
(***************************************************************************)
EXTENDS SessionOrchestrator, FiniteSetTheorems, SequenceTheorems, TLAPS

(***************************************************************************)
(* The edges as a run of an automaton.  Its state is the generation whose  *)
(* edge is open (0 for none) and the generation established last.          *)
(***************************************************************************)
EdgeStates == {x \in Nat \X Nat : x[1] # 0 => x[2] = x[1]}
EdgeOf(r) == <<r.edge, r.lastEst>>

Legal(x, f, y) ==
  \/ f.op = "EdgeEstablished" /\ x[1] = 0 /\ f.n > x[2] /\ y = <<f.n, f.n>>
  \/ f.op = "EdgeLost" /\ x[1] # 0 /\ f.n = x[1] /\ y = <<0, x[2]>>
  \/ f.op \notin EdgeOps /\ y = x

Run(q, x, y) ==
  \E f \in [0 .. Len(q) -> EdgeStates] :
    /\ f[0] = x /\ f[Len(q)] = y
    /\ \A i \in 1 .. Len(q) : Legal(f[i - 1], q[i], f[i])

(***************************************************************************)
(* The effects of the reducer and the steps of a thread.                   *)
(***************************************************************************)
PublicationOps ==
  {"PublishDisconnected", "PublishConnected", "PublishConnecting", "PublishReconnecting",
   "PublishReconnectTimedOut", "EdgeEstablished", "EdgeLost"}
ShellOps ==
  {"InvalidatePathObserver", "WakeReconnectLoop", "StartReconnectLoop", "DisconnectSession",
   "AbortInFlightAttempt", "StartAttempt"}
Staged == [op : PublicationOps, n : Int]
Effects == [op : PublicationOps \cup ShellOps \cup {"ArmLoopTimer"}, n : Int]

-----------------------------------------------------------------------------
\* A run over one more effect.
LEMMA RunOneMore ==
  ASSUME NEW S, NEW q \in Seq(S), NEW f \in S, NEW x, NEW y, NEW z \in EdgeStates,
         Run(q, x, y), Legal(y, f, z)
  PROVE  Run(Append(q, f), x, z)
<1>1. PICK g \in [0 .. Len(q) -> EdgeStates] :
        /\ g[0] = x /\ g[Len(q)] = y
        /\ \A i \in 1 .. Len(q) : Legal(g[i - 1], q[i], g[i])
  BY DEF Run
<1>2. PICK n \in Nat : n = Len(q)
  OBVIOUS
<1>3. PICK p : p = Append(q, f)
  OBVIOUS
<1>4. Len(p) = n + 1 /\ p[n + 1] = f /\ \A i \in 1 .. n : p[i] = q[i]
  BY <1>2, <1>3
<1>5. PICK h : h = [i \in 0 .. (n + 1) |-> IF i = n + 1 THEN z ELSE g[i]]
  OBVIOUS
<1>6. /\ h \in [0 .. (n + 1) -> EdgeStates]
      /\ h[n + 1] = z /\ h[n] = y /\ h[0] = x
      /\ \A i \in 0 .. n : h[i] = g[i]
  BY <1>1, <1>2, <1>5
<1>7. \A i \in 1 .. (n + 1) : Legal(h[i - 1], p[i], h[i])
  <2> TAKE i \in 1 .. (n + 1)
  <2>1. CASE i = n + 1
    <3>1. i - 1 = n
      BY <1>2, <2>1
    <3> QED BY <1>4, <1>6, <2>1, <3>1
  <2>2. CASE i \in 1 .. n
    <3>1. i - 1 \in 0 .. n /\ i \in 0 .. n
      BY <1>2, <2>2
    <3> QED BY <1>1, <1>2, <1>4, <1>6, <2>2, <3>1
  <2> QED BY <1>2, <2>1, <2>2
<1> QED BY <1>3, <1>4, <1>6, <1>7 DEF Run

\* Nothing is run by nothing.
LEMMA RunNothing ==
  ASSUME NEW x \in EdgeStates
  PROVE  Run(<<>>, x, x)
<1>1. PICK f : f = [i \in 0 .. 0 |-> x]
  OBVIOUS
<1>2. f \in [0 .. Len(<<>>) -> EdgeStates] /\ f[0] = x /\ Len(<<>>) = 0
  BY <1>1
<1> QED BY <1>2 DEF Run

\* Runs add up.
LEMMA RunBoth ==
  ASSUME NEW S, NEW q \in Seq(S), NEW p \in Seq(S), NEW x, NEW y, NEW z,
         Run(q, x, y), Run(p, y, z)
  PROVE  Run(q \o p, x, z)
<1>1. PICK g \in [0 .. Len(q) -> EdgeStates] :
        /\ g[0] = x /\ g[Len(q)] = y
        /\ \A i \in 1 .. Len(q) : Legal(g[i - 1], q[i], g[i])
  BY DEF Run
<1>2. PICK h \in [0 .. Len(p) -> EdgeStates] :
        /\ h[0] = y /\ h[Len(p)] = z
        /\ \A i \in 1 .. Len(p) : Legal(h[i - 1], p[i], h[i])
  BY DEF Run
<1>3. PICK m \in Nat, n \in Nat : m = Len(q) /\ n = Len(p)
  OBVIOUS
<1>4. PICK c : c = q \o p
  OBVIOUS
<1>5. /\ Len(c) = m + n
      /\ \A i \in 1 .. m : c[i] = q[i]
      /\ \A i \in (m + 1) .. (m + n) : c[i] = p[i - m]
  BY <1>3, <1>4
<1>6. PICK k : k = [i \in 0 .. (m + n) |-> IF i <= m THEN g[i] ELSE h[i - m]]
  OBVIOUS
<1>7. /\ \A i \in 0 .. m : i \in 0 .. (m + n) /\ k[i] = g[i]
      /\ \A i \in (m + 1) .. (m + n) : i \in 0 .. (m + n) /\ i - m \in 0 .. n /\ k[i] = h[i - m]
  BY <1>3, <1>6
<1>8. k \in [0 .. (m + n) -> EdgeStates]
  <2>1. \A i \in 0 .. (m + n) : (IF i <= m THEN g[i] ELSE h[i - m]) \in EdgeStates
    <3> TAKE i \in 0 .. (m + n)
    <3>1. CASE i <= m
      <4>1. i \in 0 .. m
        BY <1>3, <3>1
      <4> QED BY <1>1, <1>3, <3>1, <4>1
    <3>2. CASE ~(i <= m)
      <4>1. i - m \in 0 .. n
        BY <1>3, <3>2
      <4> QED BY <1>2, <1>3, <3>2, <4>1
    <3> QED BY <3>1, <3>2
  <2> QED BY <1>6, <2>1
<1>9. k[0] = x /\ k[m + n] = z
  <2>1. k[0] = x
    BY <1>1, <1>3, <1>7
  <2>2. CASE n = 0
    BY <1>1, <1>2, <1>3, <1>7, <2>2
  <2>3. CASE n > 0
    <3>1. m + n \in (m + 1) .. (m + n) /\ (m + n) - m = n
      BY <1>3, <2>3
    <3> QED BY <1>2, <1>3, <1>7, <2>1, <3>1
  <2> QED BY <1>3, <2>1, <2>2, <2>3
<1>10. \A i \in 1 .. (m + n) : Legal(k[i - 1], c[i], k[i])
  <2> TAKE i \in 1 .. (m + n)
  <2>1. CASE i <= m
    <3>1. i \in 1 .. m /\ i \in 0 .. m /\ i - 1 \in 0 .. m
      BY <1>3, <2>1
    <3> QED BY <1>1, <1>3, <1>5, <1>7, <3>1
  <2>2. CASE i = m + 1
    <3>1. /\ i \in (m + 1) .. (m + n) /\ i - m = 1 /\ i - 1 = m /\ m \in 0 .. m
          /\ 1 \in 1 .. n /\ 1 - 1 = 0
      BY <1>3, <2>2
    <3>2. k[i - 1] = h[0] /\ k[i] = h[1] /\ c[i] = p[1]
      BY <1>1, <1>2, <1>3, <1>5, <1>7, <3>1
    <3> QED BY <1>2, <1>3, <3>1, <3>2
  <2>3. CASE i > m + 1
    <3>1. /\ i \in (m + 1) .. (m + n) /\ i - 1 \in (m + 1) .. (m + n)
          /\ i - m \in 1 .. n /\ (i - 1) - m = (i - m) - 1
      BY <1>3, <2>3
    <3>2. k[i - 1] = h[(i - m) - 1] /\ k[i] = h[i - m] /\ c[i] = p[i - m]
      BY <1>5, <1>7, <3>1
    <3> QED BY <1>2, <1>3, <3>1, <3>2
  <2> QED BY <1>3, <2>1, <2>2, <2>3
<1> QED BY <1>4, <1>5, <1>8, <1>9, <1>10 DEF Run

\* A run begins with a legal step, and the rest is a run.
LEMMA RunFirst ==
  ASSUME NEW S, NEW q \in Seq(S), NEW x, NEW z, Run(q, x, z), q # <<>>
  PROVE  \E y \in EdgeStates : Legal(x, Head(q), y) /\ Run(Tail(q), y, z)
<1>1. PICK g \in [0 .. Len(q) -> EdgeStates] :
        /\ g[0] = x /\ g[Len(q)] = z
        /\ \A i \in 1 .. Len(q) : Legal(g[i - 1], q[i], g[i])
  BY DEF Run
<1>2. PICK n \in Nat : n = Len(q) /\ n > 0
  <2>1. Len(q) \in Nat /\ Len(q) # 0
    OBVIOUS
  <2> QED BY <2>1
<1>3. Legal(x, Head(q), g[1]) /\ g[1] \in EdgeStates
  <2>1. 1 \in 1 .. n /\ 1 - 1 = 0 /\ 1 \in 0 .. n /\ Head(q) = q[1]
    BY <1>2
  <2> QED BY <1>1, <1>2, <2>1
<1>4. PICK p : p = Tail(q)
  OBVIOUS
<1>5. Len(p) = n - 1 /\ \A i \in 1 .. (n - 1) : p[i] = q[i + 1]
  BY <1>2, <1>4
<1>6. PICK h : h = [i \in 0 .. (n - 1) |-> g[i + 1]]
  OBVIOUS
<1>7. h \in [0 .. (n - 1) -> EdgeStates] /\ h[0] = g[1] /\ h[n - 1] = z
  BY <1>1, <1>2, <1>6
<1>8. \A i \in 1 .. (n - 1) : Legal(h[i - 1], p[i], h[i])
  <2> TAKE i \in 1 .. (n - 1)
  <2>1. /\ i + 1 \in 1 .. n /\ (i + 1) - 1 = i /\ i - 1 \in 0 .. (n - 1) /\ i \in 0 .. (n - 1)
        /\ (i - 1) + 1 = i
    BY <1>2
  <2>2. h[i - 1] = g[i] /\ h[i] = g[i + 1] /\ p[i] = q[i + 1]
    BY <1>5, <1>6, <2>1
  <2> QED BY <1>1, <1>2, <2>1, <2>2
<1>9. Run(p, g[1], z)
  BY <1>5, <1>7, <1>8 DEF Run
<1> QED BY <1>3, <1>4, <1>9

-----------------------------------------------------------------------------
\* The publications, effect by effect, of as many effects as an event has.
LEMMA PublicationsUnfold ==
  ASSUME NEW S, NEW fx \in Seq(S), Len(fx) <= 4
  PROVE  \E st \in [0 .. Len(fx) -> Seq(S)] :
           /\ st[0] = <<>> /\ st[Len(fx)] = Publications(fx)
           /\ \A i \in 1 .. Len(fx) :
                st[i] = IF IsPublication(fx[i]) THEN Append(st[i - 1], fx[i]) ELSE st[i - 1]
<1> DEFINE More(s, i) == IF IsPublication(fx[i]) THEN Append(s, fx[i]) ELSE s
           Rec(st) == [i \in 0 .. Len(fx) |->
                         IF i = 0 THEN <<>>
                         ELSE IF IsPublication(fx[i]) THEN Append(st[i - 1], fx[i])
                         ELSE st[i - 1]]
<1>1. PICK n \in Nat : n = Len(fx) /\ n <= 4
  OBVIOUS
<1>2. PICK s1, s2, s3, s4 : /\ s1 = More(<<>>, 1) /\ s2 = More(s1, 2)
                            /\ s3 = More(s2, 3) /\ s4 = More(s3, 4)
  OBVIOUS
<1>3. PICK g : g = [i \in 0 .. n |-> IF i = 0 THEN <<>> ELSE IF i = 1 THEN s1
                                     ELSE IF i = 2 THEN s2 ELSE IF i = 3 THEN s3 ELSE s4]
  OBVIOUS
<1>4. g = Rec(g)
  <2>1. \A i \in 0 .. n : g[i] = IF i = 0 THEN <<>> ELSE More(g[i - 1], i)
    <3> TAKE i \in 0 .. n
    <3>1. i = 0 \/ i = 1 \/ i = 2 \/ i = 3 \/ i = 4
      BY <1>1
    <3>2. /\ g[0] = <<>>
          /\ n >= 1 => g[1] = s1
          /\ n >= 2 => g[2] = s2
          /\ n >= 3 => g[3] = s3
          /\ n >= 4 => g[4] = s4
      BY <1>1, <1>3
    <3>3. CASE i = 0
      BY <3>2, <3>3
    <3>4. CASE i = 1
      <4>1. n >= 1 /\ i - 1 = 0 /\ i # 0
        BY <3>4
      <4>2. g[i] = s1 /\ g[i - 1] = <<>>
        BY <3>2, <3>4, <4>1
      <4> QED BY ONLY <1>2, <3>4, <4>1, <4>2
    <3>5. CASE i = 2
      <4>1. n >= 2 /\ n >= 1 /\ i - 1 = 1 /\ i # 0
        BY <3>5
      <4>2. g[i] = s2 /\ g[i - 1] = s1
        BY <3>2, <3>5, <4>1
      <4> QED BY ONLY <1>2, <3>5, <4>1, <4>2
    <3>6. CASE i = 3
      <4>1. n >= 3 /\ n >= 2 /\ i - 1 = 2 /\ i # 0
        BY <3>6
      <4>2. g[i] = s3 /\ g[i - 1] = s2
        BY <3>2, <3>6, <4>1
      <4> QED BY ONLY <1>2, <3>6, <4>1, <4>2
    <3>7. CASE i = 4
      <4>1. n >= 4 /\ n >= 3 /\ i - 1 = 3 /\ i # 0
        BY <3>7
      <4>2. g[i] = s4 /\ g[i - 1] = s3
        BY <3>2, <3>7, <4>1
      <4> QED BY ONLY <1>2, <3>7, <4>1, <4>2
    <3> QED BY <3>1, <3>3, <3>4, <3>5, <3>6, <3>7
  <2>2. g = [i \in 0 .. n |-> g[i]]
    BY <1>3
  <2>3. [i \in 0 .. n |-> g[i]] = [i \in 0 .. n |-> IF i = 0 THEN <<>> ELSE More(g[i - 1], i)]
    BY <2>1
  <2> QED BY <1>1, <2>2, <2>3
<1>5. PICK st : st = CHOOSE h : h = Rec(h)
  OBVIOUS
<1>6. st = Rec(st)
  BY <1>4, <1>5
<1>7. Publications(fx) = st[Len(fx)]
  BY <1>5 DEF Publications
<1>8. /\ st[0] = <<>>
      /\ \A i \in 1 .. n : st[i] = More(st[i - 1], i)
  <2>1. \A i \in 0 .. Len(fx) : st[i] = Rec(st)[i]
    BY <1>6, Zenon
  <2>2. \A i \in 0 .. Len(fx) : Rec(st)[i] = IF i = 0 THEN <<>> ELSE More(st[i - 1], i)
    OBVIOUS
  <2>3. \A i \in 0 .. n : st[i] = IF i = 0 THEN <<>> ELSE More(st[i - 1], i)
    BY <1>1, <2>1, <2>2, Zenon
  <2>4. 0 \in 0 .. n /\ \A i \in 1 .. n : i \in 0 .. n /\ i # 0
    BY <1>1
  <2> QED BY <2>3, <2>4, Zenon
<1>9. st \in [0 .. n -> Seq(S)]
  <2>1. \A i \in 1 .. n : fx[i] \in S
    BY <1>1
  <2>2. \A s \in Seq(S) : \A i \in 1 .. n : More(s, i) \in Seq(S)
    BY <2>1
  <2>3. n >= 0 => st[0] \in Seq(S)
    BY <1>8
  <2>4. n >= 1 => st[1] \in Seq(S)
    <3> SUFFICES ASSUME n >= 1 PROVE st[1] \in Seq(S)
      OBVIOUS
    <3>1. 1 \in 1 .. n /\ 1 - 1 = 0 /\ n >= 0
      BY <1>1
    <3>2. st[1] = More(st[0], 1) /\ st[0] \in Seq(S)
      BY <1>8, <2>3, <3>1
    <3> QED BY <2>2, <3>1, <3>2
  <2>5. n >= 2 => st[2] \in Seq(S)
    <3> SUFFICES ASSUME n >= 2 PROVE st[2] \in Seq(S)
      OBVIOUS
    <3>1. 2 \in 1 .. n /\ 2 - 1 = 1 /\ n >= 1
      BY <1>1
    <3>2. st[2] = More(st[1], 2) /\ st[1] \in Seq(S)
      BY <1>8, <2>4, <3>1
    <3> QED BY <2>2, <3>1, <3>2
  <2>6. n >= 3 => st[3] \in Seq(S)
    <3> SUFFICES ASSUME n >= 3 PROVE st[3] \in Seq(S)
      OBVIOUS
    <3>1. 3 \in 1 .. n /\ 3 - 1 = 2 /\ n >= 2
      BY <1>1
    <3>2. st[3] = More(st[2], 3) /\ st[2] \in Seq(S)
      BY <1>8, <2>5, <3>1
    <3> QED BY <2>2, <3>1, <3>2
  <2>7. n >= 4 => st[4] \in Seq(S)
    <3> SUFFICES ASSUME n >= 4 PROVE st[4] \in Seq(S)
      OBVIOUS
    <3>1. 4 \in 1 .. n /\ 4 - 1 = 3 /\ n >= 3
      BY <1>1
    <3>2. st[4] = More(st[3], 4) /\ st[3] \in Seq(S)
      BY <1>8, <2>6, <3>1
    <3> QED BY <2>2, <3>1, <3>2
  <2>8. \A i \in 0 .. n : st[i] \in Seq(S)
    BY <1>1, <2>3, <2>4, <2>5, <2>6, <2>7
  <2>9. st = [i \in 0 .. n |-> st[i]]
    <3>1. DOMAIN st = 0 .. n
      BY <1>1, <1>6
    <3> QED BY <1>1, <1>6
  <2> QED BY <2>8, <2>9
<1> QED BY <1>1, <1>7, <1>8, <1>9

\* The states of the automaton that a legal step leads to.
LEMMA LegalState ==
  ASSUME NEW x \in EdgeStates, NEW f \in Effects, NEW y, Legal(x, f, y)
  PROVE  y \in EdgeStates
BY DEF EdgeStates, Effects, Legal

\* What stage_publications takes for a publication.
LEMMA WhatIsPublished ==
  ASSUME NEW f \in Effects
  PROVE  /\ IsPublication(f) <=> f.op \in PublicationOps
         /\ IsPublication(f) => f \in Staged
<1>1. DOMAIN PublicState = {"PublishDisconnected", "PublishConnected", "PublishConnecting",
                            "PublishReconnecting", "PublishReconnectTimedOut"}
  BY DEF PublicState
<1>2. IsPublication(f) <=> f.op \in PublicationOps
  BY <1>1 DEF IsPublication, EdgeOps, PublicationOps
<1> QED BY <1>2 DEF Effects, Staged

\* Dropping what is not a publication changes nothing for the edges.
LEMMA StagedRun ==
  ASSUME NEW fx \in Seq(Effects), Len(fx) <= 4, NEW x, NEW y, Run(fx, x, y)
  PROVE  Publications(fx) \in Seq(Staged) /\ Run(Publications(fx), x, y)
<1>1. PICK st \in [0 .. Len(fx) -> Seq(Effects)] :
        /\ st[0] = <<>> /\ st[Len(fx)] = Publications(fx)
        /\ \A i \in 1 .. Len(fx) :
             st[i] = IF IsPublication(fx[i]) THEN Append(st[i - 1], fx[i]) ELSE st[i - 1]
  BY PublicationsUnfold
<1>2. PICK g \in [0 .. Len(fx) -> EdgeStates] :
        /\ g[0] = x /\ g[Len(fx)] = y
        /\ \A i \in 1 .. Len(fx) : Legal(g[i - 1], fx[i], g[i])
  BY DEF Run
<1>3. PICK n \in Nat : n = Len(fx) /\ n <= 4
  OBVIOUS
<1> DEFINE Fine(i) == st[i] \in Seq(Staged) /\ Run(st[i], x, g[i])
<1>4. Fine(0)
  <2>1. x \in EdgeStates
    BY <1>2, <1>3
  <2> QED BY <1>1, <1>2, <2>1, RunNothing
<1>5. ASSUME NEW i \in 1 .. n, Fine(i - 1) PROVE Fine(i)
  <2>1. PICK s, u, v, f : /\ s = st[i - 1] /\ u = g[i - 1] /\ v = g[i] /\ f = fx[i]
    OBVIOUS
  <2>2. f \in Effects /\ v \in EdgeStates /\ Legal(u, f, v) /\ s \in Seq(Staged) /\ Run(s, x, u)
    <3>1. i \in 1 .. Len(fx) /\ i \in 0 .. Len(fx)
      BY <1>3
    <3>2. f \in Effects
      BY <2>1, <3>1
    <3>3. v \in EdgeStates /\ Legal(u, f, v)
      BY <1>2, <2>1, <3>1
    <3>4. s \in Seq(Staged) /\ Run(s, x, u)
      BY <1>5, <2>1, Zenon
    <3> QED BY <3>2, <3>3, <3>4
  <2>3. st[i] = IF IsPublication(f) THEN Append(s, f) ELSE s
    BY <1>1, <1>3, <2>1
  <2>4. CASE IsPublication(f)
    <3>1. f \in Staged
      BY <2>2, <2>4, WhatIsPublished
    <3>2. Run(Append(s, f), x, v)
      BY <2>2, <3>1, RunOneMore
    <3> QED BY <2>1, <2>2, <2>3, <2>4, <3>1, <3>2
  <2>5. CASE ~IsPublication(f)
    <3>1. f.op \notin EdgeOps
      BY <2>5 DEF IsPublication
    <3>2. v = u
      BY <2>2, <3>1 DEF Legal, EdgeOps
    <3> QED BY <2>1, <2>2, <2>3, <2>5, <3>2
  <2> QED BY <2>4, <2>5
<1>6. n >= 1 => Fine(1)
  BY <1>3, <1>4, <1>5
<1>7. n >= 2 => Fine(2)
  BY <1>3, <1>5, <1>6
<1>8. n >= 3 => Fine(3)
  BY <1>3, <1>5, <1>7
<1>9. n >= 4 => Fine(4)
  BY <1>3, <1>5, <1>8
<1>10. Fine(n)
  <2>0. \A m \in Nat : m <= 4 => m = 0 \/ m = 1 \/ m = 2 \/ m = 3 \/ m = 4
    OBVIOUS
  <2>1. n = 0 \/ n = 1 \/ n = 2 \/ n = 3 \/ n = 4
    BY <1>3, <2>0, Zenon
  <2> QED BY <1>4, <1>6, <1>7, <1>8, <1>9, <2>1
<1> QED BY <1>1, <1>2, <1>3, <1>10

-----------------------------------------------------------------------------
(***************************************************************************)
(* What the reducer emits: at most k effects, of certain kinds, that move  *)
(* the automaton of the edges from one state to another.                   *)
(***************************************************************************)
PlainOps == PublicationOps \cup (ShellOps \ {"StartReconnectLoop"})
Emits(fx, x, y, k) ==
  /\ fx \in Seq(Effects) /\ Len(fx) <= k /\ Run(fx, x, y)
  /\ \A i \in 1 .. Len(fx) : fx[i].op \in PlainOps

LEMMA EmitsNothing ==
  ASSUME NEW x \in EdgeStates, NEW k \in Nat
  PROVE  Emits(<<>>, x, x, k)
BY RunNothing DEF Emits

LEMMA EmitsOne ==
  ASSUME NEW x \in EdgeStates, NEW f \in Effects, f.op \in PlainOps, NEW y \in EdgeStates,
         Legal(x, f, y)
  PROVE  Emits(<<f>>, x, y, 1)
<1>1. Run(<<>>, x, x)
  BY RunNothing
<1>2. Append(<<>>, f) = <<f>> /\ <<>> \in Seq(Effects)
  OBVIOUS
<1>3. Run(<<f>>, x, y)
  BY <1>1, <1>2, RunOneMore
<1> QED BY <1>3 DEF Emits

\* An effect that is no edge leaves the edges as they are.
LEMMA EmitsQuietly ==
  ASSUME NEW x \in EdgeStates, NEW op \in PlainOps \ EdgeOps, NEW n \in Int
  PROVE  Emits(<<Fx(op, n)>>, x, x, 1)
<1>1. PICK f : f = Fx(op, n)
  OBVIOUS
<1>2. f \in Effects /\ f.op = op
  BY <1>1 DEF Fx, Effects, PlainOps
<1>3. Legal(x, f, x)
  BY <1>2 DEF Legal
<1>4. Emits(<<f>>, x, x, 1)
  BY <1>2, <1>3, EmitsOne
<1> QED BY <1>1, <1>4

LEMMA EmitsBoth ==
  ASSUME NEW p, NEW q, NEW x, NEW y, NEW z, NEW j \in Nat, NEW k \in Nat,
         Emits(p, x, y, j), Emits(q, y, z, k)
  PROVE  Emits(p \o q, x, z, j + k)
<1>1. /\ p \in Seq(Effects) /\ Len(p) <= j /\ Run(p, x, y)
      /\ q \in Seq(Effects) /\ Len(q) <= k /\ Run(q, y, z)
  BY DEF Emits
<1>2. Run(p \o q, x, z)
  BY ONLY <1>1, RunBoth
<1>3. p \o q \in Seq(Effects) /\ Len(p \o q) <= j + k
  BY <1>1
<1>4. \A i \in 1 .. Len(p \o q) : (p \o q)[i].op \in PlainOps
  <2> TAKE i \in 1 .. Len(p \o q)
  <2>1. CASE i <= Len(p)
    <3>1. i \in 1 .. Len(p) /\ (p \o q)[i] = p[i]
      BY <1>1, <2>1
    <3> QED BY <3>1 DEF Emits
  <2>2. CASE i > Len(p)
    <3>1. i - Len(p) \in 1 .. Len(q) /\ (p \o q)[i] = q[i - Len(p)]
      BY <1>1, <2>2
    <3> QED BY <3>1 DEF Emits
  <2> QED BY <1>1, <2>1, <2>2
<1> QED BY <1>2, <1>3, <1>4 DEF Emits

LEMMA EmitsMore ==
  ASSUME NEW fx, NEW x, NEW y, NEW j \in Nat, NEW k \in Nat, j <= k, Emits(fx, x, y, j)
  PROVE  Emits(fx, x, y, k)
BY DEF Emits

\* One more effect that is no edge.
LEMMA EmitsLast ==
  ASSUME NEW p, NEW x, NEW y \in EdgeStates, NEW j \in Nat, Emits(p, x, y, j),
         NEW op \in PlainOps \ EdgeOps, NEW n \in Int
  PROVE  Emits(Append(p, Fx(op, n)), x, y, j + 1) /\ Emits(p \o <<Fx(op, n)>>, x, y, j + 1)
<1>1. PICK f : f = Fx(op, n)
  OBVIOUS
<1>2. Emits(<<f>>, y, y, 1)
  BY <1>1, EmitsQuietly
<1>3. Emits(p \o <<f>>, x, y, j + 1)
  BY <1>2, EmitsBoth
<1>4. p \o <<f>> = Append(p, f)
  BY DEF Emits
<1> QED BY <1>1, <1>3, <1>4

-----------------------------------------------------------------------------
(***************************************************************************)
(* The reducer.  Every event leads from a well-formed state to a           *)
(* well-formed one, never lowers the epoch, and emits effects under which  *)
(* the edges agree with the two states.  Only a loss spawns a loop, for    *)
(* the epoch it has just begun, and only the events of the loop arm its    *)
(* timer; either effect is the last one.                                   *)
(***************************************************************************)
Sound(r, next) == next \in ReconnectStates /\ WellFormed(next) /\ r.epoch <= next.epoch
Plain(r, out) == Sound(r, out.r) /\ Emits(out.fx, EdgeOf(r), EdgeOf(out.r), 4)
EndsIn(r, out, f) ==
  /\ Sound(r, out.r)
  /\ \E body : out.fx = Append(body, f) /\ Emits(body, EdgeOf(r), EdgeOf(out.r), 3)
Spawns(r, out) ==
  EndsIn(r, out, Fx("StartReconnectLoop", r.epoch + 1)) /\ out.r.epoch = r.epoch + 1
Arms(r, out, e) == EndsIn(r, out, Fx("ArmLoopTimer", e))

LEMMA EdgeTyped ==
  ASSUME NEW r \in ReconnectStates, WellFormed(r)
  PROVE  EdgeOf(r) \in EdgeStates /\ <<NoGeneration, r.lastEst>> \in EdgeStates
BY DEF ReconnectStates, WellFormed, EdgeOf, EdgeStates, NoGeneration

\* Closing the edge that is open, if there is one.
LEMMA CloseEdgeEmits ==
  ASSUME NEW r \in ReconnectStates, WellFormed(r)
  PROVE  /\ CloseEdge(r).r = [r EXCEPT !.edge = NoGeneration]
         /\ Sound(r, CloseEdge(r).r)
         /\ Emits(CloseEdge(r).fx, EdgeOf(r), EdgeOf(CloseEdge(r).r), 1)
<1>1. CloseEdge(r).r = [r EXCEPT !.edge = NoGeneration]
  BY DEF CloseEdge, Out
<1>2. Sound(r, [r EXCEPT !.edge = NoGeneration])
  BY DEF Sound, ReconnectStates, WellFormed, NoGeneration
<1>3. EdgeOf([r EXCEPT !.edge = NoGeneration]) = <<NoGeneration, r.lastEst>>
  BY DEF EdgeOf, ReconnectStates
<1>4. EdgeOf(r) \in EdgeStates /\ <<NoGeneration, r.lastEst>> \in EdgeStates
  BY EdgeTyped
<1>5. CASE r.edge = NoGeneration
  <2>1. CloseEdge(r).fx = <<>> /\ EdgeOf(r) = <<NoGeneration, r.lastEst>>
    BY <1>5 DEF CloseEdge, Out, EdgeOf
  <2>2. Emits(<<>>, EdgeOf(r), EdgeOf(r), 1)
    BY <1>4, EmitsNothing
  <2> QED BY <1>1, <1>2, <1>3, <2>1, <2>2
<1>6. CASE r.edge # NoGeneration
  <2>1. PICK f : f = Fx("EdgeLost", r.edge)
    OBVIOUS
  <2>2. CloseEdge(r).fx = <<f>>
    BY <1>6, <2>1 DEF CloseEdge, Out
  <2>3. f \in Effects /\ f.op = "EdgeLost" /\ f.op \in PlainOps /\ f.n = r.edge
    BY <2>1 DEF Fx, Effects, PublicationOps, PlainOps, ReconnectStates
  <2>4. Legal(EdgeOf(r), f, <<NoGeneration, r.lastEst>>)
    BY <1>6, <2>3 DEF Legal, EdgeOf, NoGeneration
  <2>5. Emits(<<f>>, EdgeOf(r), <<NoGeneration, r.lastEst>>, 1)
    BY <1>4, <2>3, <2>4, EmitsOne
  <2> QED BY <1>1, <1>2, <1>3, <2>2, <2>5
<1> QED BY <1>5, <1>6

\* set_phase closes the open edge when it leaves Connected.
LEMMA SetPhaseEmits ==
  ASSUME NEW r \in ReconnectStates, WellFormed(r), NEW p \in Phases
  PROVE  /\ SetPhase(r, p).r =
              [r EXCEPT !.edge = IF p = "Connected" THEN r.edge ELSE NoGeneration, !.phase = p]
         /\ Sound(r, SetPhase(r, p).r)
         /\ Emits(SetPhase(r, p).fx, EdgeOf(r), EdgeOf(SetPhase(r, p).r), 1)
<1>1. CASE p = "Connected"
  <2>1. SetPhase(r, p).r = [r EXCEPT !.phase = p] /\ SetPhase(r, p).fx = <<>>
    BY <1>1 DEF SetPhase, Out
  <2>2. [r EXCEPT !.phase = p] = [r EXCEPT !.edge = r.edge, !.phase = p]
    BY DEF ReconnectStates
  <2>3. Sound(r, [r EXCEPT !.phase = p]) /\ EdgeOf([r EXCEPT !.phase = p]) = EdgeOf(r)
    BY <1>1 DEF Sound, ReconnectStates, WellFormed, EdgeOf, NoGeneration
  <2>4. Emits(<<>>, EdgeOf(r), EdgeOf(r), 1)
    BY EdgeTyped, EmitsNothing
  <2> QED BY <1>1, <2>1, <2>2, <2>3, <2>4
<1>2. CASE p # "Connected"
  <2>1. PICK d : d = CloseEdge(r).r
    OBVIOUS
  <2>2. d = [r EXCEPT !.edge = NoGeneration] /\ Sound(r, d)
    BY <2>1, CloseEdgeEmits
  <2>3. SetPhase(r, p).r = [d EXCEPT !.phase = p] /\ SetPhase(r, p).fx = CloseEdge(r).fx
    BY <1>2, <2>1 DEF SetPhase, Out
  <2>4. [d EXCEPT !.phase = p] = [r EXCEPT !.edge = NoGeneration, !.phase = p]
    BY <2>2 DEF ReconnectStates
  <2>5. Sound(r, [d EXCEPT !.phase = p]) /\ EdgeOf([d EXCEPT !.phase = p]) = EdgeOf(d)
    BY <2>2 DEF Sound, ReconnectStates, WellFormed, EdgeOf, NoGeneration
  <2>6. Emits(CloseEdge(r).fx, EdgeOf(r), EdgeOf(d), 1)
    BY <2>1, CloseEdgeEmits
  <2> QED BY <1>2, <2>3, <2>4, <2>5, <2>6
<1> QED BY <1>1, <1>2

\* An event that is ignored, or that only writes fields the edges do not use.
LEMMA SilentlyPlain ==
  ASSUME NEW r \in ReconnectStates, WellFormed(r), NEW next, Sound(r, next),
         EdgeOf(next) = EdgeOf(r)
  PROVE  Plain(r, Out(next, <<>>)) /\ Emits(<<>>, EdgeOf(r), EdgeOf(next), 1)
<1>1. Emits(<<>>, EdgeOf(r), EdgeOf(next), 4) /\ Emits(<<>>, EdgeOf(r), EdgeOf(next), 1)
  BY EdgeTyped, EmitsNothing
<1> QED BY <1>1 DEF Plain, Out

LEMMA IgnoredPlain ==
  ASSUME NEW r \in ReconnectStates, WellFormed(r)
  PROVE  Plain(r, Out(r, <<>>)) /\ Sound(r, r)
<1>1. Sound(r, r)
  BY DEF Sound, ReconnectStates
<1> QED BY <1>1, SilentlyPlain

\* stop_loop begins a new epoch and touches no edge.
LEMMA StopLoopSound ==
  ASSUME NEW r \in ReconnectStates, WellFormed(r)
  PROVE  /\ Sound(r, StopLoop(r)) /\ EdgeOf(StopLoop(r)) = EdgeOf(r)
         /\ StopLoop(r).phase = r.phase /\ StopLoop(r).edge = r.edge
         /\ StopLoop(r).lastEst = r.lastEst
<1>1. PICK n : n = StopLoop(r)
  OBVIOUS
<1>2. /\ n.epoch = r.epoch + 1 /\ n.active = FALSE /\ n.clock = NoClock
      /\ n.phase = r.phase /\ n.edge = r.edge /\ n.lastEst = r.lastEst
  BY <1>1 DEF StopLoop, ReconnectStates
<1>3. n \in ReconnectStates
  <2>1. r.epoch + 1 \in Nat
    BY DEF ReconnectStates
  <2>2. PICK m \in Nat : m = r.epoch + 1
    BY <2>1
  <2>3. n = [r EXCEPT !.epoch = m, !.active = FALSE, !.inFlight = FALSE,
                      !.pendingWake = FALSE, !.clock = NoClock]
    BY <1>1, <2>2 DEF StopLoop
  <2> QED BY <2>3 DEF ReconnectStates
<1>4. r.epoch <= n.epoch
  BY <1>2 DEF ReconnectStates
<1>5. WellFormed(n) /\ EdgeOf(n) = EdgeOf(r)
  BY <1>2 DEF WellFormed, EdgeOf
<1> QED BY <1>1, <1>2, <1>3, <1>4, <1>5 DEF Sound

\* Fields that neither the edge nor the loop's clock depends on.
LEMMA HarmlessSound ==
  ASSUME NEW r \in ReconnectStates, WellFormed(r), NEW n \in ReconnectStates,
         n.phase = r.phase, n.epoch = r.epoch, n.edge = r.edge, n.lastEst = r.lastEst,
         n.clock = r.clock, n.active = r.active
  PROVE  Sound(r, n) /\ EdgeOf(n) = EdgeOf(r)
<1>1. WellFormed(n) /\ EdgeOf(n) = EdgeOf(r)
  BY DEF WellFormed, EdgeOf
<1>2. r.epoch <= n.epoch
  BY DEF ReconnectStates
<1> QED BY <1>1, <1>2 DEF Sound

\* Soundness adds up.
LEMMA SoundTwice ==
  ASSUME NEW a \in ReconnectStates, NEW b, NEW c, Sound(a, b), Sound(b, c)
  PROVE  Sound(a, c)
BY DEF Sound, ReconnectStates

\* The loop is stopped and the background state forgotten, by either call.
LEMMA StoppedInForeground ==
  ASSUME NEW r \in ReconnectStates, WellFormed(r), NEW d,
         \/ d = [StopLoop(r) EXCEPT !.background = "Foreground"]
         \/ d = [StopLoop(r) EXCEPT !.userDisc = FALSE, !.background = "Foreground"]
  PROVE  Sound(r, d) /\ EdgeOf(d) = EdgeOf(r)
<1>1. PICK b : b = StopLoop(r)
  OBVIOUS
<1>2. Sound(r, b) /\ EdgeOf(b) = EdgeOf(r) /\ b \in ReconnectStates /\ WellFormed(b)
  BY <1>1, StopLoopSound DEF Sound
<1>3. /\ d \in ReconnectStates
      /\ d.phase = b.phase /\ d.epoch = b.epoch /\ d.edge = b.edge
      /\ d.lastEst = b.lastEst /\ d.clock = b.clock /\ d.active = b.active
  BY <1>1, <1>2 DEF ReconnectStates, Backgrounds
<1>4. Sound(b, d) /\ EdgeOf(d) = EdgeOf(b)
  BY <1>2, <1>3, HarmlessSound
<1> QED BY <1>2, <1>4, SoundTwice

LEMMA AbortLoopAttemptEmits ==
  ASSUME NEW r \in ReconnectStates, WellFormed(r)
  PROVE  /\ Sound(r, AbortLoopAttempt(r).r)
         /\ Emits(AbortLoopAttempt(r).fx, EdgeOf(r), EdgeOf(AbortLoopAttempt(r).r), 2)
<1>1. PICK c : c = SetPhase(r, "Idle")
  OBVIOUS
<1>2. Sound(r, c.r) /\ Emits(c.fx, EdgeOf(r), EdgeOf(c.r), 1)
  BY <1>1, SetPhaseEmits DEF Phases
<1>3. EdgeOf(c.r) \in EdgeStates
  BY <1>2, EdgeTyped DEF Sound
<1>4. Emits(Append(c.fx, Fx("AbortInFlightAttempt", 0)), EdgeOf(r), EdgeOf(c.r), 1 + 1)
  <2>1. PICK op : op = "AbortInFlightAttempt"
    OBVIOUS
  <2>2. op \in PlainOps \ EdgeOps
    BY <2>1 DEF PlainOps, ShellOps, PublicationOps, EdgeOps
  <2>3. PICK p, x, y : p = c.fx /\ x = EdgeOf(r) /\ y = EdgeOf(c.r)
    OBVIOUS
  <2>4. Emits(p, x, y, 1) /\ y \in EdgeStates /\ 0 \in Int
    BY <1>2, <1>3, <2>3
  <2>5. Emits(Append(p, Fx(op, 0)), x, y, 1 + 1)
    BY <2>2, <2>4, EmitsLast
  <2> QED BY <2>1, <2>3, <2>5
<1> QED BY <1>1, <1>2, <1>4 DEF AbortLoopAttempt, Out

\* The abort after a step that kept the edges.
LEMMA AbortedFrom ==
  ASSUME NEW r \in ReconnectStates, WellFormed(r), NEW d, Sound(r, d), EdgeOf(d) = EdgeOf(r),
         NEW c, c = AbortLoopAttempt(d)
  PROVE  /\ Sound(r, c.r) /\ Emits(c.fx, EdgeOf(r), EdgeOf(c.r), 2)
         /\ EdgeOf(c.r) \in EdgeStates
<1>1. Sound(d, c.r) /\ Emits(c.fx, EdgeOf(d), EdgeOf(c.r), 2)
  BY AbortLoopAttemptEmits DEF Sound
<1>2. EdgeOf(c.r) \in EdgeStates
  BY <1>1, EdgeTyped DEF Sound
<1> QED BY <1>1, <1>2, SoundTwice

\* The path observer is told first, in several events.
LEMMA InvalidatesFirst ==
  ASSUME NEW x \in EdgeStates
  PROVE  Emits(<<Fx("InvalidatePathObserver", 0)>>, x, x, 1)
<1>1. PICK op : op = "InvalidatePathObserver"
  OBVIOUS
<1>2. op \in PlainOps \ EdgeOps
  BY <1>1 DEF PlainOps, ShellOps, EdgeOps
<1> QED BY <1>1, <1>2, EmitsQuietly

\* One of the published states after p.
LEMMA PublishesLast ==
  ASSUME NEW p, NEW x, NEW y \in EdgeStates, NEW j \in Nat, Emits(p, x, y, j),
         NEW op \in {"PublishDisconnected", "PublishConnected", "PublishConnecting",
                     "PublishReconnecting", "PublishReconnectTimedOut"}
  PROVE  /\ Emits(Append(p, Fx(op, 0)), x, y, j + 1)
         /\ Emits(p \o <<Fx(op, 0)>>, x, y, j + 1)
<1>1. op \in PlainOps \ EdgeOps
  BY DEF PlainOps, PublicationOps, EdgeOps
<1> QED BY <1>1, EmitsLast

LEMMA SessionCreatedPlain ==
  ASSUME NEW r \in ReconnectStates, WellFormed(r), NEW g
  PROVE  Plain(r, SessionCreated(r, g))
<1>1. Plain(r, CloseEdge(r))
  <2>1. /\ Sound(r, CloseEdge(r).r)
        /\ Emits(CloseEdge(r).fx, EdgeOf(r), EdgeOf(CloseEdge(r).r), 1)
    BY CloseEdgeEmits
  <2>2. Emits(CloseEdge(r).fx, EdgeOf(r), EdgeOf(CloseEdge(r).r), 4)
    BY <2>1, EmitsMore
  <2> QED BY <2>1, <2>2 DEF Plain
<1> QED BY <1>1, IgnoredPlain DEF SessionCreated

LEMMA SetPhasePlain ==
  ASSUME NEW r \in ReconnectStates, WellFormed(r), NEW p \in Phases
  PROVE  Plain(r, SetPhase(r, p))
<1>1. /\ Sound(r, SetPhase(r, p).r)
      /\ Emits(SetPhase(r, p).fx, EdgeOf(r), EdgeOf(SetPhase(r, p).r), 1)
  BY SetPhaseEmits
<1>2. Emits(SetPhase(r, p).fx, EdgeOf(r), EdgeOf(SetPhase(r, p).r), 4)
  BY <1>1, EmitsMore
<1> QED BY <1>1, <1>2 DEF Plain

LEMMA ForegroundFailedPlain ==
  ASSUME NEW r \in ReconnectStates, WellFormed(r)
  PROVE  Plain(r, ForegroundReconnectFailedSync(r))
<1>1. PICK c : c = SetPhase(r, "Idle")
  OBVIOUS
<1>2. Sound(r, c.r) /\ Emits(c.fx, EdgeOf(r), EdgeOf(c.r), 1)
  BY <1>1, SetPhaseEmits DEF Phases
<1>3. EdgeOf(c.r) \in EdgeStates
  BY <1>2, EdgeTyped DEF Sound
<1>4. Emits(Append(c.fx, Fx("PublishDisconnected", 0)), EdgeOf(r), EdgeOf(c.r), 1 + 1)
  BY <1>2, <1>3, PublishesLast
<1>5. Emits(Append(c.fx, Fx("PublishDisconnected", 0)), EdgeOf(r), EdgeOf(c.r), 4)
  BY <1>4, EmitsMore
<1> QED BY <1>1, <1>2, <1>5 DEF ForegroundReconnectFailedSync, Out, Plain

LEMMA FailedSyncPlain ==
  ASSUME NEW r \in ReconnectStates, WellFormed(r), NEW e
  PROVE  Plain(r, AttemptFailedSync(r, e)) /\ Plain(r, ManualConnectFailedSync(r))
<1>1. Plain(r, Out(r, <<>>)) /\ Plain(r, SetPhase(r, "Idle"))
  BY IgnoredPlain, SetPhasePlain DEF Phases
<1>2. PICK f : f = [r EXCEPT !.inFlight = FALSE]
  OBVIOUS
<1>3. Sound(r, f) /\ EdgeOf(f) = EdgeOf(r) /\ f.epoch = r.epoch
  <2>1. /\ f \in ReconnectStates
        /\ f.phase = r.phase /\ f.epoch = r.epoch /\ f.edge = r.edge
        /\ f.lastEst = r.lastEst /\ f.clock = r.clock /\ f.active = r.active
    BY <1>2 DEF ReconnectStates
  <2> QED BY <2>1, HarmlessSound
<1>4. Plain(r, Out(f, <<>>))
  BY <1>3, SilentlyPlain
<1>5. Plain(f, SetPhase(f, "Idle"))
  BY <1>3, SetPhasePlain DEF Phases, Sound
<1>6. Plain(r, SetPhase(f, "Idle"))
  BY <1>3, <1>5 DEF Plain, Sound
<1> QED BY <1>1, <1>2, <1>4, <1>6 DEF AttemptFailedSync, ManualConnectFailedSync

\* Lists of one, two and three.
LEMMA OneEffect ==
  ASSUME NEW a
  PROVE  Append(<<>>, a) = <<a>>
OBVIOUS

LEMMA TwoEffects ==
  ASSUME NEW a, NEW b
  PROVE  Append(<<a>>, b) = <<a, b>>
<1>1. PICK S : S = {a, b}
  OBVIOUS
<1>2. <<a>> \in Seq(S) /\ <<a, b>> \in Seq(S) /\ b \in S
  BY <1>1
<1>3. PICK s, u : s = Append(<<a>>, b) /\ u = <<a, b>>
  OBVIOUS
<1>4. s \in Seq(S) /\ Len(s) = 2 /\ s[1] = a /\ s[2] = b
  BY <1>2, <1>3
<1>5. u \in Seq(S) /\ Len(u) = 2 /\ u[1] = a /\ u[2] = b
  BY <1>2, <1>3
<1>6. \A i \in 1 .. Len(s) : s[i] = u[i]
  BY <1>4, <1>5
<1>7. s = u
  BY <1>4, <1>5, <1>6, SeqEqual
<1> QED BY <1>3, <1>7

LEMMA ThreeEffects ==
  ASSUME NEW a, NEW b, NEW c
  PROVE  Append(<<a, b>>, c) = <<a, b, c>>
<1>1. PICK S : S = {a, b, c}
  OBVIOUS
<1>2. <<a, b>> \in Seq(S) /\ <<a, b, c>> \in Seq(S) /\ c \in S
  BY <1>1
<1>3. PICK s, u : s = Append(<<a, b>>, c) /\ u = <<a, b, c>>
  OBVIOUS
<1>4. s \in Seq(S) /\ Len(s) = 3 /\ s[1] = a /\ s[2] = b /\ s[3] = c
  BY <1>2, <1>3
<1>5. u \in Seq(S) /\ Len(u) = 3 /\ u[1] = a /\ u[2] = b /\ u[3] = c
  BY <1>2, <1>3
<1>6. \A i \in 1 .. Len(s) : s[i] = u[i]
  BY <1>4, <1>5
<1>7. s = u
  BY <1>4, <1>5, <1>6, SeqEqual
<1> QED BY <1>3, <1>7

LEMMA ManualConnectPlain ==
  ASSUME NEW r \in ReconnectStates, WellFormed(r), r.phase # "Connecting"
  PROVE  Plain(r, ManualConnectStarted(r))
<1>1. PICK c : c = SetPhase(r, "Connecting")
  OBVIOUS
<1>2. Sound(r, c.r) /\ Emits(c.fx, EdgeOf(r), EdgeOf(c.r), 1)
  BY <1>1, SetPhaseEmits DEF Phases
<1>3. PICK d : d = [c.r EXCEPT !.lastAttempt = TRUE, !.userDisc = FALSE,
                               !.background = "Foreground"]
  OBVIOUS
<1>4. Sound(c.r, d) /\ EdgeOf(d) = EdgeOf(c.r)
  <2>1. PICK b : b = c.r
    OBVIOUS
  <2>2. b \in ReconnectStates /\ WellFormed(b)
    BY <1>2, <2>1 DEF Sound
  <2>3. /\ d \in ReconnectStates
        /\ d.phase = b.phase /\ d.epoch = b.epoch /\ d.edge = b.edge
        /\ d.lastEst = b.lastEst /\ d.clock = b.clock /\ d.active = b.active
    BY <1>3, <2>1, <2>2 DEF ReconnectStates, Backgrounds
  <2> QED BY <2>1, <2>2, <2>3, HarmlessSound
<1>5. Sound(d, StopLoop(d)) /\ EdgeOf(StopLoop(d)) = EdgeOf(c.r)
  BY <1>4, StopLoopSound DEF Sound
<1>6. Sound(r, StopLoop(d))
  <2>1. Sound(r, d)
    BY <1>2, <1>4, SoundTwice
  <2> QED BY <1>5, <2>1, SoundTwice
<1>7. EdgeOf(c.r) \in EdgeStates
  BY <1>2, EdgeTyped DEF Sound
<1>8. PICK y, fi, fp : /\ y = EdgeOf(c.r) /\ fi = Fx("InvalidatePathObserver", 0)
                       /\ fp = Fx("PublishConnecting", 0)
  OBVIOUS
<1>9. Emits(<<fi>>, y, y, 1)
  BY <1>7, <1>8, EmitsQuietly DEF PlainOps, ShellOps, EdgeOps
<1>10. Emits(Append(<<fi>>, fp), y, y, 1 + 1)
  BY <1>7, <1>8, <1>9, PublishesLast
<1>11. Append(<<fi>>, fp) = <<fi, fp>>
  BY TwoEffects
<1>12. Emits(<<fi, fp>>, y, y, 2)
  <2>1. 1 + 1 = 2
    OBVIOUS
  <2> QED BY <1>10, <1>11, <2>1, Zenon
<1>13. Emits(c.fx \o <<fi, fp>>, EdgeOf(r), y, 1 + 2)
  BY <1>2, <1>8, <1>12, EmitsBoth
<1>14. Emits(c.fx \o <<fi, fp>>, EdgeOf(r), y, 4)
  BY <1>13, EmitsMore
<1>15. ManualConnectStarted(r) = Out(StopLoop(d), c.fx \o <<fi, fp>>)
  BY <1>1, <1>3, <1>8 DEF ManualConnectStarted
<1> QED BY <1>5, <1>6, <1>8, <1>14, <1>15 DEF Plain, Out

\* cancel_reconnect and disconnect stop a loop that is active, abort its
\* attempt and publish Disconnected.
LEMMA CancelPlain ==
  ASSUME NEW r \in ReconnectStates, WellFormed(r)
  PROVE  Plain(r, CancelReconnect(r))
<1>1. CASE r.active
  <2>1. PICK d : d = [StopLoop(r) EXCEPT !.background = "Foreground"]
    OBVIOUS
  <2>2. Sound(r, d) /\ EdgeOf(d) = EdgeOf(r)
    BY <2>1, StoppedInForeground
  <2>3. PICK c : c = AbortLoopAttempt(d)
    OBVIOUS
  <2>4. Sound(r, c.r) /\ Emits(c.fx, EdgeOf(r), EdgeOf(c.r), 2) /\ EdgeOf(c.r) \in EdgeStates
    BY <2>2, <2>3, AbortedFrom
  <2>5. Emits(Append(c.fx, Fx("PublishDisconnected", 0)), EdgeOf(r), EdgeOf(c.r), 2 + 1)
    BY <2>4, PublishesLast
  <2>6. Emits(Append(c.fx, Fx("PublishDisconnected", 0)), EdgeOf(r), EdgeOf(c.r), 4)
    BY <2>5, EmitsMore
  <2>7. CancelReconnect(r) = Out(c.r, Append(c.fx, Fx("PublishDisconnected", 0)))
    BY <1>1, <2>1, <2>3 DEF CancelReconnect
  <2> QED BY <2>4, <2>6, <2>7 DEF Plain, Out
<1>2. CASE ~r.active
  <2>1. CancelReconnect(r) = Out(StopLoop(r), <<>>)
    BY <1>2 DEF CancelReconnect
  <2> QED BY <2>1, StopLoopSound, SilentlyPlain
<1> QED BY <1>1, <1>2

LEMMA UserDisconnectPlain ==
  ASSUME NEW r \in ReconnectStates, WellFormed(r)
  PROVE  Plain(r, UserDisconnect(r))
<1>0. EdgeOf(r) \in EdgeStates
  BY EdgeTyped
<1>1. CASE r.active
  <2>1. PICK d : d = [StopLoop(r) EXCEPT !.userDisc = FALSE, !.background = "Foreground"]
    OBVIOUS
  <2>2. Sound(r, d) /\ EdgeOf(d) = EdgeOf(r)
    BY <2>1, StoppedInForeground
  <2>3. PICK c : c = AbortLoopAttempt(d)
    OBVIOUS
  <2>4. Sound(r, c.r) /\ Emits(c.fx, EdgeOf(r), EdgeOf(c.r), 2) /\ EdgeOf(c.r) \in EdgeStates
    BY <2>2, <2>3, AbortedFrom
  <2>5. Emits(<<Fx("InvalidatePathObserver", 0)>>, EdgeOf(r), EdgeOf(r), 1)
    BY EdgeTyped, InvalidatesFirst
  <2>6. PICK p : p = <<Fx("InvalidatePathObserver", 0)>> \o c.fx
    OBVIOUS
  <2>7. Emits(p, EdgeOf(r), EdgeOf(c.r), 1 + 2)
    BY <2>4, <2>5, <2>6, EmitsBoth
  <2>8. Emits(p, EdgeOf(r), EdgeOf(c.r), 3)
    BY <2>7, EmitsMore
  <2>9. Emits(p \o <<Fx("PublishDisconnected", 0)>>, EdgeOf(r), EdgeOf(c.r), 3 + 1)
    BY <2>4, <2>8, PublishesLast
  <2>10. Emits(p \o <<Fx("PublishDisconnected", 0)>>, EdgeOf(r), EdgeOf(c.r), 4)
    BY <2>9, EmitsMore
  <2>11. UserDisconnect(r) = Out(c.r, p \o <<Fx("PublishDisconnected", 0)>>)
    BY <1>1, <2>1, <2>3, <2>6 DEF UserDisconnect
  <2> QED BY <2>4, <2>10, <2>11 DEF Plain, Out
<1>2. CASE ~r.active
  <2>1. PICK n : n = [r EXCEPT !.userDisc = TRUE]
    OBVIOUS
  <2>2. /\ n \in ReconnectStates
        /\ n.phase = r.phase /\ n.epoch = r.epoch /\ n.edge = r.edge
        /\ n.lastEst = r.lastEst /\ n.clock = r.clock /\ n.active = r.active
    BY <2>1 DEF ReconnectStates
  <2>3. Sound(r, n) /\ EdgeOf(n) = EdgeOf(r)
    BY <2>2, HarmlessSound
  <2>4. PICK op : op = "DisconnectSession"
    OBVIOUS
  <2>5. op \in PlainOps \ EdgeOps
    BY <2>4 DEF PlainOps, ShellOps, EdgeOps
  <2>6. Emits(<<Fx(op, 0)>>, EdgeOf(r), EdgeOf(r), 1)
    <3>1. PICK x : x = EdgeOf(r)
      OBVIOUS
    <3>2. Emits(<<Fx(op, 0)>>, x, x, 1)
      BY <1>0, <2>5, <3>1, EmitsQuietly
    <3> QED BY <3>1, <3>2
  <2>7. Emits(<<Fx(op, 0)>>, EdgeOf(r), EdgeOf(r), 4)
    BY <2>6, EmitsMore
  <2>8. UserDisconnect(r) = Out(n, <<Fx(op, 0)>>)
    BY <1>2, <2>1, <2>4 DEF UserDisconnect
  <2> QED BY <2>3, <2>7, <2>8 DEF Plain, Out
<1> QED BY <1>1, <1>2

\* attempt_connected: the edge of an older generation is closed before the new
\* one opens, and a generation opens once.
LEMMA AttemptConnectedPlain ==
  ASSUME NEW r \in ReconnectStates, WellFormed(r), NEW g \in Nat
  PROVE  Plain(r, AttemptConnected(r, g))
<1>1. PICK c : c = IF r.edge \notin {NoGeneration, g} THEN CloseEdge(r) ELSE Out(r, <<>>)
  OBVIOUS
<1>2. Sound(r, c.r) /\ Emits(c.fx, EdgeOf(r), EdgeOf(c.r), 1)
  <2>1. Sound(r, Out(r, <<>>).r) /\ Emits(Out(r, <<>>).fx, EdgeOf(r), EdgeOf(Out(r, <<>>).r), 1)
    BY IgnoredPlain, SilentlyPlain DEF Out
  <2>2. Sound(r, CloseEdge(r).r) /\ Emits(CloseEdge(r).fx, EdgeOf(r), EdgeOf(CloseEdge(r).r), 1)
    BY CloseEdgeEmits
  <2> QED BY <1>1, <2>1, <2>2
<1>3. PICK b, d, up : b = c.r /\ d = SetPhase(b, "Connected").r /\ up = StopLoop(d)
  OBVIOUS
<1>4. b \in ReconnectStates /\ WellFormed(b) /\ EdgeOf(b) \in EdgeStates
  BY <1>2, <1>3, EdgeTyped DEF Sound
<1>5. d = [b EXCEPT !.edge = b.edge, !.phase = "Connected"] /\ Sound(b, d)
  BY <1>3, <1>4, SetPhaseEmits DEF Phases
<1>6. d.edge = b.edge /\ d.lastEst = b.lastEst /\ d.phase = "Connected"
  BY <1>4, <1>5 DEF ReconnectStates
<1>7. /\ Sound(d, up) /\ up.edge = b.edge /\ up.lastEst = b.lastEst /\ up.phase = "Connected"
      /\ EdgeOf(up) = EdgeOf(b)
  <2>1. /\ Sound(d, up) /\ up.edge = d.edge /\ up.lastEst = d.lastEst /\ up.phase = d.phase
    BY <1>3, <1>5, StopLoopSound DEF Sound
  <2> QED BY <1>6, <2>1 DEF EdgeOf
<1>8. Sound(r, up) /\ up \in ReconnectStates /\ WellFormed(up)
  <2>1. Sound(b, up)
    BY <1>4, <1>5, <1>7, SoundTwice
  <2> QED BY <1>2, <1>3, <2>1, SoundTwice DEF Sound
<1>9. PICK p : p = c.fx \o <<Fx("PublishConnected", 0)>>
  OBVIOUS
<1>10. Emits(p, EdgeOf(r), EdgeOf(up), 1 + 1)
  BY <1>2, <1>3, <1>4, <1>7, <1>9, PublishesLast
<1>11. CASE up.edge = NoGeneration /\ g > up.lastEst
  <2>1. PICK n, f : n = [up EXCEPT !.edge = g, !.lastEst = g] /\ f = Fx("EdgeEstablished", g)
    OBVIOUS
  <2>2. /\ n \in ReconnectStates /\ n.phase = up.phase /\ n.epoch = up.epoch
        /\ n.edge = g /\ n.lastEst = g /\ n.clock = up.clock /\ n.active = up.active
    BY <1>8, <2>1 DEF ReconnectStates
  <2>3. WellFormed(n)
    BY <1>7, <1>8, <2>2 DEF WellFormed
  <2>4. Sound(r, n)
    BY <1>8, <2>2, <2>3 DEF Sound
  <2>5. f \in Effects /\ f.op = "EdgeEstablished" /\ f.op \in PlainOps /\ f.n = g
    BY <2>1 DEF Fx, Effects, PublicationOps, PlainOps
  <2>6. EdgeOf(n) = <<g, g>> /\ EdgeOf(n) \in EdgeStates /\ EdgeOf(up) \in EdgeStates
    BY <1>8, <2>2, <2>3, EdgeTyped DEF EdgeOf
  <2>7. Legal(EdgeOf(up), f, EdgeOf(n))
    BY <1>11, <2>5, <2>6 DEF Legal, EdgeOf, NoGeneration
  <2>8. Emits(<<f>>, EdgeOf(up), EdgeOf(n), 1)
    BY <2>5, <2>6, <2>7, EmitsOne
  <2>9. Emits(p \o <<f>>, EdgeOf(r), EdgeOf(n), (1 + 1) + 1)
    BY <1>10, <2>8, EmitsBoth
  <2>10. Emits(p \o <<f>>, EdgeOf(r), EdgeOf(n), 4)
    BY <2>9, EmitsMore
  <2>11. AttemptConnected(r, g) = Out(n, p \o <<f>>)
    BY <1>1, <1>3, <1>9, <1>11, <2>1 DEF AttemptConnected
  <2> QED BY <2>4, <2>10, <2>11 DEF Plain, Out
<1>12. CASE ~(up.edge = NoGeneration /\ g > up.lastEst)
  <2>1. AttemptConnected(r, g) = Out(up, p \o <<>>)
    BY <1>1, <1>3, <1>9, <1>12 DEF AttemptConnected
  <2>2. p \o <<>> = p
    BY <1>10, ConcatEmptySeq DEF Emits
  <2>3. Emits(p, EdgeOf(r), EdgeOf(up), 4)
    BY <1>10, EmitsMore
  <2> QED BY <1>8, <2>1, <2>2, <2>3 DEF Plain, Out
<1> QED BY <1>11, <1>12

\* attempt_disconnected: only a loss of an established session without a loop
\* begins one.
LEMMA AttemptDisconnectedEffects ==
  ASSUME NEW r \in ReconnectStates, WellFormed(r), NEW kind
  PROVE  \/ Plain(r, AttemptDisconnected(r, kind))
         \/ Spawns(r, AttemptDisconnected(r, kind))
<1>1. PICK d : d = [r EXCEPT !.userDisc = FALSE, !.inFlight = FALSE]
  OBVIOUS
<1>2. /\ d \in ReconnectStates
      /\ d.phase = r.phase /\ d.epoch = r.epoch /\ d.edge = r.edge
      /\ d.lastEst = r.lastEst /\ d.clock = r.clock /\ d.active = r.active
  BY <1>1 DEF ReconnectStates
<1>3. Sound(r, d) /\ EdgeOf(d) = EdgeOf(r) /\ WellFormed(d)
  BY <1>2, HarmlessSound DEF Sound
<1>4. PICK idle, b : idle = SetPhase(d, "Idle") /\ b = idle.r
  OBVIOUS
<1>5. /\ b = [d EXCEPT !.edge = NoGeneration, !.phase = "Idle"]
      /\ Sound(d, b) /\ Emits(idle.fx, EdgeOf(r), EdgeOf(b), 1)
  BY <1>2, <1>3, <1>4, SetPhaseEmits DEF Phases
<1>6. /\ b \in ReconnectStates /\ WellFormed(b) /\ Sound(r, b) /\ EdgeOf(b) \in EdgeStates
      /\ b.epoch = r.epoch /\ b.edge = NoGeneration /\ b.active = r.active /\ b.clock = r.clock
  <2>1. b \in ReconnectStates /\ WellFormed(b) /\ EdgeOf(b) \in EdgeStates
    BY <1>5, EdgeTyped DEF Sound
  <2>2. b.epoch = d.epoch /\ b.edge = NoGeneration /\ b.active = d.active /\ b.clock = d.clock
    BY <1>2, <1>5 DEF ReconnectStates
  <2> QED BY <1>2, <1>3, <1>5, <2>1, <2>2, SoundTwice
<1>7. PICK first : first = <<Fx("InvalidatePathObserver", 0)>> \o idle.fx
  OBVIOUS
<1>8. Emits(first, EdgeOf(r), EdgeOf(b), 2)
  <2>1. Emits(<<Fx("InvalidatePathObserver", 0)>>, EdgeOf(r), EdgeOf(r), 1)
    BY EdgeTyped, InvalidatesFirst
  <2>2. Emits(first, EdgeOf(r), EdgeOf(b), 1 + 1)
    BY <1>5, <1>7, <2>1, EmitsBoth
  <2> QED BY <2>2, EmitsMore
<1>9. CASE r.active
  <2>1. PICK more : more = IF r.pendingWake THEN <<Fx("WakeReconnectLoop", 0)>> ELSE <<>>
    OBVIOUS
  <2>2. Emits(more, EdgeOf(b), EdgeOf(b), 1)
    <3>1. PICK op, x : op = "WakeReconnectLoop" /\ x = EdgeOf(b)
      OBVIOUS
    <3>2. op \in PlainOps \ EdgeOps /\ x \in EdgeStates
      BY <1>6, <3>1 DEF PlainOps, ShellOps, EdgeOps
    <3>3. Emits(<<Fx(op, 0)>>, x, x, 1) /\ Emits(<<>>, x, x, 1)
      BY <3>2, EmitsQuietly, EmitsNothing
    <3> QED BY <2>1, <3>1, <3>3
  <2>3. Emits(first \o more, EdgeOf(r), EdgeOf(b), 2 + 1)
    BY <1>8, <2>2, EmitsBoth
  <2>4. Emits(first \o more, EdgeOf(r), EdgeOf(b), 4)
    BY <2>3, EmitsMore
  <2>5. AttemptDisconnected(r, kind) = Out(b, first \o more)
    BY <1>1, <1>4, <1>7, <1>9, <2>1 DEF AttemptDisconnected
  <2> QED BY <1>6, <2>4, <2>5 DEF Plain, Out
<1>10. CASE ~r.active /\ r.phase = "Connected" /\ ~r.userDisc /\ kind # "GracefulRemoteExit"
            /\ r.lastAttempt
  <2>1. PICK m \in Nat : m = r.epoch + 1
    <3>1. r.epoch + 1 \in Nat
      BY DEF ReconnectStates
    <3> QED BY <3>1
  <2>2. PICK n : n = [b EXCEPT !.pendingWake = FALSE, !.active = TRUE, !.epoch = m,
                               !.clock = NoClock]
    OBVIOUS
  <2>3. /\ n \in ReconnectStates /\ n.epoch = m /\ n.edge = NoGeneration /\ n.clock = NoClock
        /\ n.lastEst = b.lastEst
    BY <1>6, <2>2 DEF ReconnectStates
  <2>4. WellFormed(n) /\ EdgeOf(n) = EdgeOf(b)
    BY <1>6, <2>3 DEF WellFormed, EdgeOf
  <2>5. Sound(r, n)
    BY <2>1, <2>3, <2>4 DEF Sound, ReconnectStates
  <2>6. AttemptDisconnected(r, kind) = Out(n, Append(first, Fx("StartReconnectLoop", r.epoch + 1)))
    BY <1>1, <1>4, <1>6, <1>7, <1>10, <2>1, <2>2 DEF AttemptDisconnected
  <2>7. Emits(first, EdgeOf(r), EdgeOf(n), 3)
    BY <1>8, <2>4, EmitsMore
  <2> QED BY <2>1, <2>3, <2>5, <2>6, <2>7 DEF Spawns, EndsIn, Out
<1>11. CASE ~r.active /\ ~(r.phase = "Connected" /\ ~r.userDisc /\ kind # "GracefulRemoteExit"
                           /\ r.lastAttempt)
  <2>1. PICK n : n = [b EXCEPT !.pendingWake = FALSE, !.background = "Foreground"]
    OBVIOUS
  <2>2. /\ n \in ReconnectStates
        /\ n.phase = b.phase /\ n.epoch = b.epoch /\ n.edge = b.edge
        /\ n.lastEst = b.lastEst /\ n.clock = b.clock /\ n.active = b.active
    BY <1>6, <2>1 DEF ReconnectStates, Backgrounds
  <2>3. Sound(b, n) /\ EdgeOf(n) = EdgeOf(b)
    BY <1>6, <2>2, HarmlessSound
  <2>4. Sound(r, n)
    BY <1>6, <2>3, SoundTwice
  <2>5. Emits(Append(first, Fx("PublishDisconnected", 0)), EdgeOf(r), EdgeOf(b), 2 + 1)
    BY <1>6, <1>8, PublishesLast
  <2>6. Emits(Append(first, Fx("PublishDisconnected", 0)), EdgeOf(r), EdgeOf(n), 4)
    BY <2>3, <2>5, EmitsMore
  <2>7. AttemptDisconnected(r, kind) = Out(n, Append(first, Fx("PublishDisconnected", 0)))
    BY <1>1, <1>4, <1>7, <1>11, <2>1 DEF AttemptDisconnected
  <2> QED BY <2>4, <2>6, <2>7 DEF Plain, Out
<1> QED BY <1>9, <1>10, <1>11

\* A loop event that keeps the loop going: the clock moves or the attempt is
\* recorded, the timer is armed last.
LEMMA LoopGoesOn ==
  ASSUME NEW r \in ReconnectStates, WellFormed(r), NEW n \in ReconnectStates, r.active,
         n.phase = r.phase, n.epoch = r.epoch, n.edge = r.edge, n.lastEst = r.lastEst,
         n.active = r.active, NEW e \in Int, NEW out, NEW fx, out = Out(n, fx),
         \/ fx = <<Fx("ArmLoopTimer", e)>>
         \/ fx = <<Fx("PublishReconnecting", 0), Fx("ArmLoopTimer", e)>>
         \/ fx = <<Fx("StartAttempt", e), Fx("ArmLoopTimer", e)>>
         \/ fx = <<Fx("PublishReconnecting", 0), Fx("StartAttempt", e), Fx("ArmLoopTimer", e)>>
  PROVE  Arms(r, out, e)
<1>1. WellFormed(n) /\ EdgeOf(n) = EdgeOf(r)
  BY DEF WellFormed, EdgeOf
<1>2. Sound(r, n)
  BY <1>1 DEF Sound, ReconnectStates
<1>3. PICK p, s, a, x, opp, ops :
        /\ p = Fx("PublishReconnecting", 0) /\ s = Fx("StartAttempt", e)
        /\ a = Fx("ArmLoopTimer", e) /\ x = EdgeOf(r)
        /\ opp = "PublishReconnecting" /\ ops = "StartAttempt"
  OBVIOUS
<1>4. opp \in PlainOps \ EdgeOps /\ ops \in PlainOps \ EdgeOps /\ x \in EdgeStates
  BY <1>3, EdgeTyped DEF PlainOps, PublicationOps, ShellOps, EdgeOps
<1>5. Emits(<<>>, x, x, 3)
  BY <1>4, EmitsNothing
<1>6. Emits(<<Fx(opp, 0)>>, x, x, 1) /\ Emits(<<Fx(ops, e)>>, x, x, 1)
  BY <1>4, EmitsQuietly
<1>7. Emits(<<p>>, x, x, 1) /\ Emits(<<s>>, x, x, 1)
  BY <1>3, <1>6
<1>8. Emits(Append(<<p>>, s), x, x, 2)
  <2>1. Emits(Append(<<p>>, Fx(ops, e)), x, x, 1 + 1)
    BY <1>4, <1>7, EmitsLast
  <2>2. Fx(ops, e) = s /\ 1 + 1 = 2
    BY <1>3
  <2> QED BY <2>1, <2>2
<1>9. Emits(<<p>>, x, x, 3) /\ Emits(<<s>>, x, x, 3) /\ Emits(<<p, s>>, x, x, 3)
  <2>1. Append(<<p>>, s) = <<p, s>>
    BY TwoEffects
  <2>2. Emits(<<p, s>>, x, x, 2)
    BY <1>8, <2>1
  <2>3. Emits(<<p>>, x, x, 3) /\ Emits(<<s>>, x, x, 3)
    BY <1>7, EmitsMore
  <2>4. Emits(<<p, s>>, x, x, 3)
    BY <2>2, EmitsMore
  <2> QED BY <2>3, <2>4
<1>10. /\ <<a>> = Append(<<>>, a) /\ <<p, a>> = Append(<<p>>, a)
       /\ <<s, a>> = Append(<<s>>, a) /\ <<p, s, a>> = Append(<<p, s>>, a)
  BY OneEffect, TwoEffects, ThreeEffects
<1>11. \E body : fx = Append(body, a) /\ Emits(body, x, x, 3)
  BY <1>3, <1>5, <1>9, <1>10
<1> QED BY <1>1, <1>2, <1>3, <1>11 DEF Arms, EndsIn, Out

LEMMA LoopStartedEffects ==
  ASSUME NEW r \in ReconnectStates, WellFormed(r), NEW e \in Int
  PROVE  Plain(r, LoopStarted(r, e)) \/ Arms(r, LoopStarted(r, e), e)
<1>1. CASE e # r.epoch \/ ~r.active \/ r.clock # NoClock
  BY <1>1, IgnoredPlain DEF LoopStarted
<1>2. CASE ~(e # r.epoch \/ ~r.active \/ r.clock # NoClock)
  <2>1. PICK n, fx : /\ n = [r EXCEPT !.clock = 0]
                     /\ fx = <<Fx("PublishReconnecting", 0), Fx("ArmLoopTimer", e)>>
    OBVIOUS
  <2>2. /\ n \in ReconnectStates
        /\ n.phase = r.phase /\ n.epoch = r.epoch /\ n.edge = r.edge
        /\ n.lastEst = r.lastEst /\ n.active = r.active
    BY <2>1 DEF ReconnectStates
  <2>3. LoopStarted(r, e) = Out(n, fx) /\ r.active
    BY <1>2, <2>1 DEF LoopStarted
  <2> QED BY <2>1, <2>2, <2>3, LoopGoesOn
<1> QED BY <1>1, <1>2

LEMMA ReconnectWakeEffects ==
  ASSUME NEW r \in ReconnectStates, WellFormed(r), NEW e \in Int
  PROVE  Plain(r, ReconnectWake(r, e)) \/ Arms(r, ReconnectWake(r, e), e)
<1>1. CASE ~LoopIsLive(r, e)
  BY <1>1, IgnoredPlain DEF ReconnectWake
<1>2. CASE LoopIsLive(r, e)
  <2>1. PICK n, fx :
          /\ n = IF r.inFlight THEN [r EXCEPT !.pendingWake = TRUE]
                 ELSE [r EXCEPT !.inFlight = TRUE, !.pendingWake = FALSE]
          /\ fx = IF r.inFlight THEN <<Fx("ArmLoopTimer", e)>>
                  ELSE <<Fx("StartAttempt", e), Fx("ArmLoopTimer", e)>>
    OBVIOUS
  <2>2. /\ n \in ReconnectStates
        /\ n.phase = r.phase /\ n.epoch = r.epoch /\ n.edge = r.edge
        /\ n.lastEst = r.lastEst /\ n.active = r.active
    BY <2>1 DEF ReconnectStates
  <2>3. ReconnectWake(r, e) = Out(n, fx) /\ r.active
    BY <1>2, <2>1 DEF ReconnectWake, LoopIsLive
  <2> QED BY <2>1, <2>2, <2>3, LoopGoesOn
<1> QED BY <1>1, <1>2

LEMMA ReconnectTickEffects ==
  ASSUME NEW r \in ReconnectStates, WellFormed(r), NEW e \in Int, NEW policy
  PROVE  Plain(r, ReconnectTick(r, e, policy)) \/ Arms(r, ReconnectTick(r, e, policy), e)
<1>1. CASE ~LoopIsLive(r, e)
  BY <1>1, IgnoredPlain DEF ReconnectTick
<1>2. CASE LoopIsLive(r, e)
  <2>1. PICK k : k = [r EXCEPT !.clock = @ + 1]
    OBVIOUS
  <2>2. /\ k \in ReconnectStates
        /\ k.phase = r.phase /\ k.epoch = r.epoch /\ k.edge = r.edge
        /\ k.lastEst = r.lastEst /\ k.active = r.active
    <3>1. r.clock \in Nat
      BY <1>2 DEF LoopIsLive, ReconnectStates
    <3>2. PICK m \in Nat : m = r.clock + 1
      BY <3>1
    <3>3. k = [r EXCEPT !.clock = m]
      BY <2>1, <3>2
    <3> QED BY <3>3 DEF ReconnectStates
  <2>3. CASE k.clock >= policy.timeout
    <3>1. PICK d, c : d = StopLoop(r) /\ c = AbortLoopAttempt(d)
      OBVIOUS
    <3>2. Sound(r, d) /\ EdgeOf(d) = EdgeOf(r)
      BY <3>1, StopLoopSound
    <3>3. Sound(r, c.r) /\ Emits(c.fx, EdgeOf(r), EdgeOf(c.r), 2) /\ EdgeOf(c.r) \in EdgeStates
      BY <3>1, <3>2, AbortedFrom
    <3>4. Emits(Append(c.fx, Fx("PublishReconnectTimedOut", 0)), EdgeOf(r), EdgeOf(c.r), 2 + 1)
      BY <3>3, PublishesLast
    <3>5. Emits(Append(c.fx, Fx("PublishReconnectTimedOut", 0)), EdgeOf(r), EdgeOf(c.r), 4)
      BY <3>4, EmitsMore
    <3>6. ReconnectTick(r, e, policy) = Out(c.r, Append(c.fx, Fx("PublishReconnectTimedOut", 0)))
      BY <1>2, <2>1, <2>3, <3>1 DEF ReconnectTick
    <3> QED BY <3>3, <3>5, <3>6 DEF Plain, Out
  <2>4. CASE ~(k.clock >= policy.timeout)
    <3>1. PICK n, fx :
            \/ /\ n = [k EXCEPT !.inFlight = TRUE, !.pendingWake = FALSE]
               /\ fx = <<Fx("PublishReconnecting", 0), Fx("StartAttempt", e), Fx("ArmLoopTimer", e)>>
               /\ ReconnectTick(r, e, policy) = Out(n, fx)
            \/ /\ n = k
               /\ fx = <<Fx("PublishReconnecting", 0), Fx("ArmLoopTimer", e)>>
               /\ ReconnectTick(r, e, policy) = Out(n, fx)
      BY <1>2, <2>1, <2>4 DEF ReconnectTick
    <3>2. /\ n \in ReconnectStates
          /\ n.phase = r.phase /\ n.epoch = r.epoch /\ n.edge = r.edge
          /\ n.lastEst = r.lastEst /\ n.active = r.active
      BY <2>2, <3>1 DEF ReconnectStates
    <3>3. r.active
      BY <1>2 DEF LoopIsLive
    <3> QED BY <3>1, <3>2, <3>3, LoopGoesOn
  <2> QED BY <2>3, <2>4
<1> QED BY <1>1, <1>2

-----------------------------------------------------------------------------
(***************************************************************************)
(* The threads.  Some steps end a thread's program; a thread delivers at   *)
(* the head of its program; a loop is spawned once for an epoch, into a    *)
(* thread that has not run yet.                                            *)
(***************************************************************************)
StepOps == ShellOps \cup {"Flush", "Sleep", "LoopStarted", "LostHandle", "NewAdapter", "Build",
                          "Store", "WakeIfActive", "ObservePath"}
Items == [op : StepOps, n : Int] \cup [op : {"LostCheck"}, n : Phases \X Int]
         \cup [op : {"Deliver"}, n : Staged]
LastOps == {"LostCheck", "LostHandle", "LoopStarted", "Sleep"}
Spawn == "StartReconnectLoop"

ShapeInv ==
  \A t \in Threads : \A i \in 1 .. Len(thr[t]) :
    /\ thr[t][i].op \in LastOps => i = Len(thr[t])
    /\ thr[t][i].op = "Deliver" => i = 1

SpawnInv ==
  /\ \A e \in 1 .. MaxEpoch : e > rs.epoch => thr[Loop(e)] = <<>>
  /\ \A t \in Threads : \A i \in 1 .. Len(thr[t]) :
       thr[t][i].op = Spawn =>
         /\ thr[t][i].n <= rs.epoch
         /\ thr[t][i].n \in 1 .. MaxEpoch => thr[Loop(thr[t][i].n)] = <<>>
  /\ \A t \in Threads, u \in Threads : \A i \in 1 .. Len(thr[t]), j \in 1 .. Len(thr[u]) :
       thr[t][i].op = Spawn /\ thr[u][j].op = Spawn /\ thr[t][i].n = thr[u][j].n
         => t = u /\ i = j

ThreadInv == thr \in [Threads -> Seq(Items)] /\ ShapeInv /\ SpawnInv

After(t) == IF thr[t] = <<>> THEN <<>> ELSE Tail(thr[t])

\* What a thread may be given to do next, in front of what it had left.
Admissible(t, P) ==
  /\ P \in Seq(Items)
  /\ thr[t] # <<>> \/ \A e \in 1 .. MaxEpoch : t # Loop(e)
  /\ \A i \in 1 .. Len(P) :
       /\ P[i].op = "Deliver" => i = 1
       /\ P[i].op \in LastOps => i = Len(P) /\ After(t) = <<>>
       /\ P[i].op = Spawn => /\ i = Len(P) /\ P[i].n = rs.epoch + 1 /\ rs'.epoch = rs.epoch + 1
                             /\ t # Loop(rs.epoch + 1)

-----------------------------------------------------------------------------
\* The names of the threads are different.
LEMMA ThreadNames ==
  /\ \A e \in 1 .. MaxEpoch : Loop(e) \in Threads
  /\ \A g \in Generations : Session(g) \in Threads /\ \A e : Session(g) # Loop(e)
  /\ Ui \in Threads /\ Os \in Threads /\ Debouncer \in Threads
  /\ \A e : Ui # Loop(e) /\ Os # Loop(e) /\ Debouncer # Loop(e)
  /\ \A e, f : Loop(e) = Loop(f) => e = f
  /\ \A e : Loop(e) \in Threads => e \in 1 .. MaxEpoch
BY DEF Threads, Loop, Session, Ui, Os, Debouncer

\* What is left of a program is its items from the second on.
LEMMA AfterItems ==
  ASSUME NEW t \in Threads, thr[t] \in Seq(Items)
  PROVE  /\ After(t) \in Seq(Items)
         /\ thr[t] = <<>> => After(t) = <<>>
         /\ thr[t] # <<>> => /\ Len(After(t)) = Len(thr[t]) - 1 /\ Len(thr[t]) \in Nat \ {0}
                             /\ Head(thr[t]) = thr[t][1]
         /\ \A i \in 1 .. Len(After(t)) : /\ After(t)[i] = thr[t][i + 1]
                                          /\ i + 1 \in 1 .. Len(thr[t])
<1>1. CASE thr[t] = <<>>
  BY <1>1 DEF After
<1>2. CASE thr[t] # <<>>
  BY <1>2 DEF After
<1> QED BY <1>1, <1>2

\* The items of a concatenation.
LEMMA JoinedItems ==
  ASSUME NEW P \in Seq(Items), NEW R \in Seq(Items)
  PROVE  /\ P \o R \in Seq(Items) /\ Len(P \o R) = Len(P) + Len(R)
         /\ \A i \in 1 .. Len(P \o R) :
              \/ i \in 1 .. Len(P) /\ (P \o R)[i] = P[i]
              \/ i - Len(P) \in 1 .. Len(R) /\ i > Len(P) /\ (P \o R)[i] = R[i - Len(P)]
         /\ \A i \in 1 .. Len(P) : i \in 1 .. Len(P \o R) /\ (P \o R)[i] = P[i]
         /\ \A i \in 1 .. Len(R) :
              Len(P) + i \in 1 .. Len(P \o R) /\ (P \o R)[Len(P) + i] = R[i]
OBVIOUS

\* A thread goes on with an admissible program.
LEMMA ThreadStep ==
  ASSUME ThreadInv, rs.epoch \in Nat, rs'.epoch \in Nat, rs.epoch <= rs'.epoch,
         NEW t \in Threads, NEW P, Admissible(t, P),
         thr' = [thr EXCEPT ![t] = P \o After(t)]
  PROVE  ThreadInv'
<1> DEFINE R == After(t)
<1>0. PICK Q : Q = P \o R
  OBVIOUS
<1>1. /\ thr[t] \in Seq(Items) /\ P \in Seq(Items) /\ R \in Seq(Items)
      /\ thr[t] # <<>> \/ \A e \in 1 .. MaxEpoch : t # Loop(e)
  BY AfterItems DEF ThreadInv, Admissible
<1>2. PICK m \in Nat, n \in Nat : m = Len(P) /\ n = Len(R)
  BY <1>1
<1>3. /\ Q \in Seq(Items) /\ Len(Q) = m + n
      /\ \A i \in 1 .. Len(Q) : \/ i \in 1 .. m /\ Q[i] = P[i]
                                \/ i - m \in 1 .. n /\ i > m /\ Q[i] = R[i - m]
  BY <1>0, <1>1, <1>2, JoinedItems
<1>4. thr' \in [Threads -> Seq(Items)] /\ thr'[t] = Q /\ \A u \in Threads : u # t => thr'[u] = thr[u]
  BY <1>0, <1>3 DEF ThreadInv
<1>5. \A i \in 1 .. n : /\ R[i] = thr[t][i + 1] /\ i + 1 \in 1 .. Len(thr[t]) /\ i + 1 # 1
                        /\ n = Len(thr[t]) - 1
  BY <1>1, <1>2, AfterItems
<1>6. \A i \in 1 .. m :
        /\ P[i].op = "Deliver" => i = 1
        /\ P[i].op \in LastOps => i = m /\ n = 0
        /\ P[i].op = Spawn => /\ i = m /\ P[i].n = rs.epoch + 1 /\ rs'.epoch = rs.epoch + 1
                              /\ t # Loop(rs.epoch + 1)
  <2>1. R = <<>> => n = 0
    BY <1>2
  <2> QED BY <1>2, <2>1 DEF Admissible
<1>7. \A i \in 1 .. n : /\ R[i].op # "Deliver"
                        /\ R[i].op \in LastOps => i = n
  <2> TAKE i \in 1 .. n
  <2>1. /\ thr[t][i + 1].op \in LastOps => i + 1 = Len(thr[t])
        /\ thr[t][i + 1].op = "Deliver" => i + 1 = 1
    BY <1>5 DEF ThreadInv, ShapeInv
  <2> QED BY <1>2, <1>5, <2>1
<1>8. ShapeInv'
  <2> SUFFICES ASSUME NEW u \in Threads, NEW i \in 1 .. Len(thr'[u])
               PROVE  /\ thr'[u][i].op \in LastOps => i = Len(thr'[u])
                      /\ thr'[u][i].op = "Deliver" => i = 1
    BY DEF ShapeInv
  <2>1. CASE u # t
    BY <1>4, <2>1 DEF ThreadInv, ShapeInv
  <2>2. CASE u = t
    <3>1. i \in 1 .. Len(Q)
      BY <1>4, <2>2
    <3>2. CASE i \in 1 .. m /\ Q[i] = P[i]
      BY <1>2, <1>3, <1>4, <1>6, <2>2, <3>2
    <3>3. CASE i - m \in 1 .. n /\ i > m /\ Q[i] = R[i - m]
      <4>1. PICK k \in 1 .. n : k = i - m
        BY <3>3
      <4>2. R[k].op # "Deliver" /\ (R[k].op \in LastOps => k = n)
        BY <1>7
      <4> QED BY <1>2, <1>3, <1>4, <2>2, <3>3, <4>1, <4>2
    <3> QED BY <1>3, <3>1, <3>2, <3>3
  <2> QED BY <2>1, <2>2
<1>9. \A e \in 1 .. MaxEpoch : thr[Loop(e)] = <<>> => t # Loop(e) /\ thr'[Loop(e)] = <<>>
  BY <1>1, <1>4, ThreadNames
<1>10. \A e \in 1 .. MaxEpoch : e > rs'.epoch => thr'[Loop(e)] = <<>>
  <2> SUFFICES ASSUME NEW e \in 1 .. MaxEpoch, e > rs'.epoch PROVE thr'[Loop(e)] = <<>>
    OBVIOUS
  <2>1. e > rs.epoch
    OBVIOUS
  <2> QED BY <1>9, <2>1 DEF ThreadInv, SpawnInv
<1>11. \A u \in Threads : \A i \in 1 .. Len(thr'[u]) :
         thr'[u][i].op = Spawn =>
           \/ \E j \in 1 .. Len(thr[u]) :
                /\ thr'[u][i] = thr[u][j] /\ (u # t => i = j) /\ (u = t => i = m + j - 1)
           \/ u = t /\ i = m /\ thr'[u][i].n = rs.epoch + 1 /\ rs'.epoch = rs.epoch + 1
  <2> SUFFICES ASSUME NEW u \in Threads, NEW i \in 1 .. Len(thr'[u]), thr'[u][i].op = Spawn
               PROVE  \/ \E j \in 1 .. Len(thr[u]) :
                           /\ thr'[u][i] = thr[u][j] /\ (u # t => i = j) /\ (u = t => i = m + j - 1)
                      \/ u = t /\ i = m /\ thr'[u][i].n = rs.epoch + 1 /\ rs'.epoch = rs.epoch + 1
    OBVIOUS
  <2>1. CASE u # t
    BY <1>4, <2>1
  <2>2. CASE u = t
    <3>1. i \in 1 .. Len(Q) /\ thr'[u][i] = Q[i]
      BY <1>4, <2>2
    <3>2. CASE i \in 1 .. m /\ Q[i] = P[i]
      BY <1>6, <2>2, <3>1, <3>2
    <3>3. CASE i - m \in 1 .. n /\ i > m /\ Q[i] = R[i - m]
      <4>1. PICK k \in 1 .. n : k = i - m
        BY <3>3
      <4>2. R[k] = thr[t][k + 1] /\ k + 1 \in 1 .. Len(thr[t])
        BY <1>5
      <4>3. i = m + (k + 1) - 1 /\ thr'[u][i] = thr[u][k + 1]
        BY <1>2, <2>2, <3>1, <3>3, <4>1, <4>2
      <4> QED BY <2>2, <4>2, <4>3
    <3> QED BY <1>3, <3>1, <3>2, <3>3
  <2> QED BY <2>1, <2>2
<1>12. \A u \in Threads : \A j \in 1 .. Len(thr[u]) : thr[u][j].op = Spawn =>
         /\ thr[u][j].n <= rs.epoch
         /\ thr[u][j].n \in 1 .. MaxEpoch => thr[Loop(thr[u][j].n)] = <<>>
  BY DEF ThreadInv, SpawnInv
<1>13. \A u \in Threads : \A j \in 1 .. Len(thr[u]) : thr[u][j].op = Spawn => thr[u][j].n \in Int
  <2> SUFFICES ASSUME NEW u \in Threads, NEW j \in 1 .. Len(thr[u]), thr[u][j].op = Spawn
               PROVE  thr[u][j].n \in Int
    OBVIOUS
  <2>1. thr[u][j] \in Items
    BY DEF ThreadInv
  <2> QED BY <2>1 DEF Items, Spawn
<1>14. \A u \in Threads : \A i \in 1 .. Len(thr'[u]) :
         thr'[u][i].op = Spawn =>
           /\ thr'[u][i].n <= rs'.epoch
           /\ thr'[u][i].n \in 1 .. MaxEpoch => thr'[Loop(thr'[u][i].n)] = <<>>
  <2> SUFFICES ASSUME NEW u \in Threads, NEW i \in 1 .. Len(thr'[u]), thr'[u][i].op = Spawn
               PROVE  /\ thr'[u][i].n <= rs'.epoch
                      /\ thr'[u][i].n \in 1 .. MaxEpoch => thr'[Loop(thr'[u][i].n)] = <<>>
    OBVIOUS
  <2>1. CASE \E j \in 1 .. Len(thr[u]) : thr'[u][i] = thr[u][j]
    <3>1. PICK j \in 1 .. Len(thr[u]) : thr'[u][i] = thr[u][j]
      BY <2>1
    <3>2. PICK e : e = thr'[u][i].n
      OBVIOUS
    <3>3. e \in Int /\ e <= rs.epoch /\ (e \in 1 .. MaxEpoch => thr[Loop(e)] = <<>>)
      BY <1>12, <1>13, <3>1, <3>2
    <3> QED BY <1>9, <3>2, <3>3
  <2>2. CASE thr'[u][i].n = rs.epoch + 1 /\ rs'.epoch = rs.epoch + 1
    <3>1. rs.epoch + 1 \in 1 .. MaxEpoch => thr[Loop(rs.epoch + 1)] = <<>>
      BY DEF ThreadInv, SpawnInv
    <3> QED BY <1>9, <2>2, <3>1
  <2> QED BY <1>11, <2>1, <2>2
<1>15. \A u \in Threads, v \in Threads : \A i \in 1 .. Len(thr'[u]), j \in 1 .. Len(thr'[v]) :
         thr'[u][i].op = Spawn /\ thr'[v][j].op = Spawn /\ thr'[u][i].n = thr'[v][j].n
           => u = v /\ i = j
  <2> DEFINE Old(w, k, a) == /\ a \in 1 .. Len(thr[w]) /\ thr'[w][k] = thr[w][a]
                             /\ (w # t => k = a) /\ (w = t => k = m + a - 1)
             New(w, k) == w = t /\ k = m /\ thr'[w][k].n = rs.epoch + 1
  <2> TAKE u \in Threads, v \in Threads
  <2> TAKE i \in 1 .. Len(thr'[u]), j \in 1 .. Len(thr'[v])
  <2> HAVE thr'[u][i].op = Spawn /\ thr'[v][j].op = Spawn /\ thr'[u][i].n = thr'[v][j].n
  <2>1. (\E a : Old(u, i, a)) \/ New(u, i)
    <3>1. CASE \E a \in 1 .. Len(thr[u]) :
                 /\ thr'[u][i] = thr[u][a] /\ (u # t => i = a) /\ (u = t => i = m + a - 1)
      BY <3>1, Zenon
    <3>2. CASE u = t /\ i = m /\ thr'[u][i].n = rs.epoch + 1 /\ rs'.epoch = rs.epoch + 1
      BY <3>2
    <3> QED BY <1>11, <3>1, <3>2, Zenon
  <2>2. (\E b : Old(v, j, b)) \/ New(v, j)
    <3>1. CASE \E b \in 1 .. Len(thr[v]) :
                 /\ thr'[v][j] = thr[v][b] /\ (v # t => j = b) /\ (v = t => j = m + b - 1)
      BY <3>1, Zenon
    <3>2. CASE v = t /\ j = m /\ thr'[v][j].n = rs.epoch + 1 /\ rs'.epoch = rs.epoch + 1
      BY <3>2
    <3> QED BY <1>11, <3>1, <3>2, Zenon
  <2>3. CASE New(u, i) /\ New(v, j)
    BY <2>3
  <2>4. CASE (\E a : Old(u, i, a)) /\ (\E b : Old(v, j, b))
    <3>1. PICK a, b : Old(u, i, a) /\ Old(v, j, b)
      BY <2>4
    <3>2. thr[u][a].op = Spawn /\ thr[v][b].op = Spawn /\ thr[u][a].n = thr[v][b].n
      BY <3>1
    <3>3. \A k \in 1 .. Len(thr[u]), l \in 1 .. Len(thr[v]) :
            thr[u][k].op = Spawn /\ thr[v][l].op = Spawn /\ thr[u][k].n = thr[v][l].n
              => u = v /\ k = l
      BY Zenon DEF ThreadInv, SpawnInv
    <3>4. u = v /\ a = b
      BY <3>1, <3>2, <3>3
    <3> QED BY <3>1, <3>4
  <2>5. CASE (\E a : Old(u, i, a)) /\ New(v, j)
    <3>1. PICK a : Old(u, i, a)
      BY <2>5
    <3>2. thr[u][a].n <= rs.epoch /\ thr[u][a].n \in Int /\ thr[u][a].n = rs.epoch + 1
      BY <1>12, <1>13, <2>5, <3>1
    <3> QED BY <3>2
  <2>6. CASE New(u, i) /\ (\E b : Old(v, j, b))
    <3>1. PICK b : Old(v, j, b)
      BY <2>6
    <3>2. thr[v][b].n <= rs.epoch /\ thr[v][b].n \in Int /\ thr[v][b].n = rs.epoch + 1
      BY <1>12, <1>13, <2>6, <3>1
    <3> QED BY <3>2
  <2> QED BY <2>1, <2>2, <2>3, <2>4, <2>5, <2>6
<1>16. SpawnInv'
  BY <1>10, <1>14, <1>15 DEF SpawnInv
<1> QED BY <1>4, <1>8, <1>16 DEF ThreadInv

-----------------------------------------------------------------------------
(***************************************************************************)
(* The invariant.  One thread at a time delivers.  Between the edges that  *)
(* the app has seen, the one being delivered and the ones in the queue,    *)
(* the automaton goes all the way to the state of the reducer.             *)
(***************************************************************************)
TypeInv ==
  /\ rs \in ReconnectStates /\ WellFormed(rs)
  /\ gen \in Nat /\ armed \in Int
  /\ queue \in Seq(Staged) /\ edges \in Seq(Staged)
  /\ sess \in [Generations -> Sessions]

Waits(f) == \E t \in Threads : \E i \in 1 .. Len(thr[t]) : thr[t][i] = f

DrainInv ==
  /\ \A t \in Threads : At(t, "Deliver") =>
       draining /\ \A u \in Threads : At(u, "Deliver") => u = t
  /\ draining => \E t \in Threads : At(t, "Deliver")

StrandInv == queue # <<>> => draining \/ Waits(Flush)

Delivered(es, x) ==
  /\ x[1] = 0 \/ Len(es) % 2 = 1
  /\ Len(es) % 2 = 1 => x[1] # 0
  /\ Len(es) > 0 => x[2] = es[Len(es)].n

LedgerInv ==
  \E x \in EdgeStates, y \in EdgeStates :
    /\ Delivered(edges, x) /\ Run(queue, y, EdgeOf(rs))
    /\ (\A t \in Threads : ~At(t, "Deliver")) => y = x
    /\ \A t \in Threads : At(t, "Deliver") => Legal(x, Arg(t), y)

Inv ==
  /\ TypeInv /\ ThreadInv /\ DrainInv /\ StrandInv
  /\ EdgesWellFormed /\ LedgerInv /\ ReplacedSessionsEnd

Stored(g) == Waits(Fx("Store", g))

-----------------------------------------------------------------------------
\* What it is to be at a step.
LEMMA AtHead ==
  ASSUME NEW t \in Threads, thr[t] \in Seq(Items), NEW op
  PROVE  At(t, op) <=> 1 \in 1 .. Len(thr[t]) /\ thr[t][1].op = op
<1>1. CASE thr[t] = <<>>
  BY <1>1 DEF At, Idle
<1>2. CASE thr[t] # <<>>
  <2>1. Head(thr[t]) = thr[t][1] /\ 1 \in 1 .. Len(thr[t])
    BY <1>2
  <2> QED BY <1>2, <2>1 DEF At, Idle
<1> QED BY <1>1, <1>2

\* Where the properties look for a step.
LEMMA WhereItWaits ==
  ASSUME NEW h \in [Threads -> Seq(Items)], NEW f
  PROVE  \A t \in Threads : f \in {h[t][i] : i \in DOMAIN h[t]}
                               <=> \E i \in 1 .. Len(h[t]) : h[t][i] = f
<1>1. \A t \in Threads : DOMAIN h[t] = 1 .. Len(h[t])
  OBVIOUS
<1> QED BY <1>1, Zenon

\* Which thread is at which step after a thread was given a program that does not
\* deliver.
LEMMA HeadsStay ==
  ASSUME ThreadInv, NEW t \in Threads, NEW P \in Seq(Items),
         \A i \in 1 .. Len(P) : P[i].op # "Deliver",
         thr' = [thr EXCEPT ![t] = P \o After(t)]
  PROVE  /\ ~At(t, "Deliver")'
         /\ \A u \in Threads : u # t =>
               (At(u, "Deliver")' <=> At(u, "Deliver")) /\ (At(u, "Deliver") => Arg(u)' = Arg(u))
<1>1. PICK R, Q : R = After(t) /\ Q = P \o R
  OBVIOUS
<1>2. thr[t] \in Seq(Items) /\ R \in Seq(Items)
  BY <1>1, AfterItems DEF ThreadInv
<1>3. thr'[t] = Q /\ \A u \in Threads : u # t => thr'[u] = thr[u]
  BY <1>1 DEF ThreadInv
<1>4. Q \in Seq(Items) /\ \A i \in 1 .. Len(Q) :
                            \/ i \in 1 .. Len(P) /\ Q[i] = P[i]
                            \/ i - Len(P) \in 1 .. Len(R) /\ Q[i] = R[i - Len(P)]
  BY <1>1, <1>2, JoinedItems
<1>5. \A i \in 1 .. Len(R) : R[i].op # "Deliver"
  <2> TAKE i \in 1 .. Len(R)
  <2>1. R[i] = thr[t][i + 1] /\ i + 1 \in 1 .. Len(thr[t]) /\ i + 1 # 1
    BY <1>1, <1>2, AfterItems
  <2> QED BY <2>1 DEF ThreadInv, ShapeInv
<1>6. Q # <<>> => Head(Q).op # "Deliver"
  <2>1. Q # <<>> => 1 \in 1 .. Len(Q) /\ Head(Q) = Q[1]
    BY <1>4
  <2>2. \A i \in 1 .. Len(Q) : Q[i].op # "Deliver"
    BY <1>4, <1>5
  <2> QED BY <2>1, <2>2
<1>7. ~At(t, "Deliver")'
  BY <1>3, <1>6 DEF At, Idle
<1> QED BY <1>3, <1>7 DEF At, Idle, Arg

\* A step of a thread loses no step that waits but the one it executes.
LEMMA WaitsStay ==
  ASSUME ThreadInv, NEW t \in Threads, NEW P \in Seq(Items), NEW f,
         thr' = [thr EXCEPT ![t] = P \o After(t)],
         \/ \E i \in 1 .. Len(P) : P[i] = f
         \/ Waits(f) /\ ~(thr[t] # <<>> /\ Head(thr[t]) = f)
  PROVE  Waits(f)'
<1>1. PICK R, Q : R = After(t) /\ Q = P \o R
  OBVIOUS
<1>2. thr[t] \in Seq(Items) /\ R \in Seq(Items)
  BY <1>1, AfterItems DEF ThreadInv
<1>3. thr'[t] = Q /\ \A u \in Threads : u # t => thr'[u] = thr[u]
  BY <1>1 DEF ThreadInv
<1>4. /\ \A i \in 1 .. Len(P) : i \in 1 .. Len(Q) /\ Q[i] = P[i]
      /\ \A i \in 1 .. Len(R) : Len(P) + i \in 1 .. Len(Q) /\ Q[Len(P) + i] = R[i]
  BY <1>1, <1>2, JoinedItems
<1>5. SUFFICES \E u \in Threads : \E i \in 1 .. Len(thr'[u]) : thr'[u][i] = f
  BY DEF Waits
<1>6. CASE \E i \in 1 .. Len(P) : P[i] = f
  BY <1>3, <1>4, <1>6
<1>7. CASE Waits(f) /\ ~(thr[t] # <<>> /\ Head(thr[t]) = f)
  <2>1. PICK u \in Threads : \E i \in 1 .. Len(thr[u]) : thr[u][i] = f
    BY <1>7 DEF Waits
  <2>2. PICK i \in 1 .. Len(thr[u]) : thr[u][i] = f
    BY <2>1
  <2>3. CASE u # t
    BY <1>3, <2>2, <2>3
  <2>4. CASE u = t /\ i = 1
    <3>1. thr[t] # <<>> /\ Head(thr[t]) = f
      BY <1>2, <2>2, <2>4
    <3> QED BY <1>7, <3>1
  <2>5. CASE u = t /\ i # 1
    <3>1. thr[t] # <<>> /\ Len(R) = Len(thr[t]) - 1
      BY <1>1, <1>2, <2>2, <2>5, AfterItems
    <3>2. PICK k \in 1 .. Len(R) : k = i - 1
      BY <1>2, <2>2, <2>5, <3>1
    <3>3. \A l \in 1 .. Len(R) : R[l] = thr[t][l + 1]
      BY <1>1, <1>2, AfterItems
    <3>4. k + 1 = i
      BY <1>2, <2>2, <3>2
    <3>5. R[k] = f
      BY <2>2, <2>5, <3>3, <3>4
    <3> QED BY <1>3, <1>4, <3>5
  <2> QED BY <2>3, <2>4, <2>5
<1> QED BY <1>6, <1>7

LEMMA StoresStay ==
  ASSUME ThreadInv, NEW t \in Threads, NEW P \in Seq(Items), NEW g,
         thr' = [thr EXCEPT ![t] = P \o After(t)],
         \/ \E i \in 1 .. Len(P) : P[i] = Fx("Store", g)
         \/ Stored(g) /\ ~(At(t, "Store") /\ Arg(t) = g)
  PROVE  Stored(g)'
<1>1. PICK f : f = Fx("Store", g)
  OBVIOUS
<1>2. thr[t] # <<>> /\ Head(thr[t]) = f => At(t, "Store") /\ Arg(t) = g
  BY <1>1 DEF At, Idle, Arg, Fx
<1>3. \/ \E i \in 1 .. Len(P) : P[i] = f
      \/ Waits(f) /\ ~(thr[t] # <<>> /\ Head(thr[t]) = f)
  BY <1>1, <1>2 DEF Stored
<1>4. Waits(f)'
  BY <1>3, WaitsStay
<1> QED BY <1>1, <1>4 DEF Stored

LEMMA FlushesStay ==
  ASSUME ThreadInv, NEW t \in Threads, NEW P \in Seq(Items),
         thr' = [thr EXCEPT ![t] = P \o After(t)],
         \/ \E i \in 1 .. Len(P) : P[i] = Flush
         \/ Waits(Flush) /\ ~At(t, "Flush")
  PROVE  Waits(Flush)'
<1>1. PICK f : f = Flush
  OBVIOUS
<1>2. thr[t] # <<>> /\ Head(thr[t]) = f => At(t, "Flush")
  BY <1>1 DEF At, Idle, Flush, Fx
<1>3. \/ \E i \in 1 .. Len(P) : P[i] = f
      \/ Waits(f) /\ ~(thr[t] # <<>> /\ Head(thr[t]) = f)
  BY <1>1, <1>2
<1>4. Waits(f)'
  BY <1>3, WaitsStay
<1>5. Waits(Flush)' = Waits(f)'
  BY <1>1 DEF Waits
<1> QED BY <1>4, <1>5

\* A step of a thread that does not deliver.
LEMMA OrdinaryStep ==
  ASSUME Inv, NEW t \in Threads, NEW P, Admissible(t, P), ~At(t, "Deliver"),
         \A i \in 1 .. Len(P) : P[i].op # "Deliver",
         thr' = [thr EXCEPT ![t] = P \o After(t)],
         draining' = draining, edges' = edges, Sound(rs, rs'),
         queue' \in Seq(Staged), gen' \in Nat, armed' \in Int,
         queue' = <<>> \/ draining \/ (\E i \in 1 .. Len(P) : P[i] = Flush)
           \/ (queue' = queue /\ ~At(t, "Flush")),
         \A y : Run(queue, y, EdgeOf(rs)) => Run(queue', y, EdgeOf(rs')),
         sess' \in [Generations -> Sessions],
         \A g \in Generations : sess'[g] \in {"dialing", "up"} /\ g # slot' =>
           \/ g \in disc'
           \/ \E i \in 1 .. Len(P) : P[i] = Fx("Store", g)
           \/ /\ sess[g] \in {"dialing", "up"} /\ g # slot /\ (g \in disc => g \in disc')
              /\ ~(At(t, "Store") /\ Arg(t) = g)
  PROVE  Inv'
<1>1. TypeInv'
  BY DEF Inv, TypeInv, Sound
<1>2. ThreadInv'
  <2>1. /\ ThreadInv /\ rs.epoch \in Nat /\ rs'.epoch \in Nat /\ rs.epoch <= rs'.epoch
    BY DEF Inv, TypeInv, Sound, ReconnectStates
  <2> QED BY <2>1, ThreadStep
<1>3. P \in Seq(Items) /\ ThreadInv
  BY DEF Admissible, Inv
<1>4. \A u \in Threads :
      (At(u, "Deliver")' <=> At(u, "Deliver")) /\ (At(u, "Deliver") => Arg(u)' = Arg(u))
  <2>1. /\ ~At(t, "Deliver")'
        /\ \A u \in Threads : u # t =>
              (At(u, "Deliver")' <=> At(u, "Deliver")) /\ (At(u, "Deliver") => Arg(u)' = Arg(u))
    BY <1>3, HeadsStay
  <2> TAKE u \in Threads
  <2>2. CASE u = t
    BY <2>1, <2>2, Zenon
  <2>3. CASE u # t
    BY <2>1, <2>3
  <2> QED BY <2>2, <2>3
<1>5. DrainInv'
  <2>0. draining' => \E u \in Threads : At(u, "Deliver")'
    BY <1>4 DEF Inv, DrainInv
  <2> SUFFICES ASSUME NEW u \in Threads, At(u, "Deliver")'
               PROVE  draining' /\ \A v \in Threads : At(v, "Deliver")' => v = u
    BY <2>0 DEF DrainInv
  <2>1. At(u, "Deliver")
    BY <1>4
  <2>2. draining /\ \A v \in Threads : At(v, "Deliver") => v = u
    BY <2>1 DEF Inv, DrainInv
  <2> QED BY <1>4, <2>2
<1>6. EdgesWellFormed'
  BY DEF Inv, EdgesWellFormed
<1>7. LedgerInv'
  <2>1. PICK x \in EdgeStates, y \in EdgeStates :
          /\ Delivered(edges, x) /\ Run(queue, y, EdgeOf(rs))
          /\ (\A u \in Threads : ~At(u, "Deliver")) => y = x
          /\ \A u \in Threads : At(u, "Deliver") => Legal(x, Arg(u), y)
    BY DEF Inv, LedgerInv
  <2>2. Delivered(edges', x) /\ Run(queue', y, EdgeOf(rs'))
    BY <2>1
  <2>3. (\A u \in Threads : ~At(u, "Deliver")') => y = x
    BY <1>4, <2>1
  <2>4. \A u \in Threads : At(u, "Deliver")' => Legal(x, Arg(u)', y)
    <3> TAKE u \in Threads
    <3> HAVE At(u, "Deliver")'
    <3>1. At(u, "Deliver") /\ Arg(u)' = Arg(u)
      BY <1>4
    <3> QED BY <2>1, <3>1
  <2>5. EdgeOf(rs)' = EdgeOf(rs')
    BY DEF EdgeOf
  <2> QED BY <2>2, <2>3, <2>4, <2>5, Zenon DEF LedgerInv
<1>8. ReplacedSessionsEnd'
  <2> SUFFICES ASSUME NEW g \in Generations, sess'[g] \in {"dialing", "up"}, g # slot',
                      g \notin disc'
               PROVE  Stored(g)'
    <3>1. thr' \in [Threads -> Seq(Items)]
      BY <1>2 DEF ThreadInv
    <3>2. \A g \in Generations :
            (\E u \in Threads : Fx("Store", g) \in {thr'[u][i] : i \in DOMAIN thr'[u]}) <=> Stored(g)'
      BY <3>1, WhereItWaits DEF Stored, Waits
    <3> QED BY <3>2 DEF ReplacedSessionsEnd
  <2>1. CASE \E i \in 1 .. Len(P) : P[i] = Fx("Store", g)
    BY <1>3, <2>1, StoresStay
  <2>2. CASE /\ sess[g] \in {"dialing", "up"} /\ g # slot /\ g \notin disc
             /\ ~(At(t, "Store") /\ Arg(t) = g)
    <3>1. \E u \in Threads : Fx("Store", g) \in {thr[u][i] : i \in DOMAIN thr[u]}
      BY <2>2 DEF Inv, ReplacedSessionsEnd
    <3>2. Stored(g)
      BY <1>3, <3>1, WhereItWaits DEF ThreadInv, Stored, Waits
    <3> QED BY <1>3, <2>2, <3>2, StoresStay
  <2> QED BY <2>1, <2>2
<1>9. StrandInv'
  <2> SUFFICES ASSUME queue' # <<>>, ~draining PROVE Waits(Flush)'
    BY DEF StrandInv
  <2>1. CASE \E i \in 1 .. Len(P) : P[i] = Flush
    BY <1>3, <2>1, FlushesStay
  <2>2. CASE queue' = queue /\ ~At(t, "Flush")
    <3>1. Waits(Flush)
      BY <2>2 DEF Inv, StrandInv
    <3> QED BY <1>3, <2>2, <3>1, FlushesStay
  <2> QED BY <2>1, <2>2
<1> QED BY <1>1, <1>2, <1>5, <1>6, <1>7, <1>8, <1>9 DEF Inv

-----------------------------------------------------------------------------
(***************************************************************************)
(* What apply_reconnect does to the queue and to the thread.               *)
(***************************************************************************)
Carries(r, out) == Plain(r, out) \/ \E f : EndsIn(r, out, f) /\ f \in Effects /\ f.op \notin EdgeOps

\* The effects of a transition, its last one included.
LEMMA CarriesRun ==
  ASSUME NEW r \in ReconnectStates, WellFormed(r), NEW out, Carries(r, out)
  PROVE  /\ Sound(r, out.r) /\ out.fx \in Seq(Effects) /\ Len(out.fx) <= 4
         /\ Run(out.fx, EdgeOf(r), EdgeOf(out.r))
<1>1. CASE Plain(r, out)
  BY <1>1 DEF Plain, Emits
<1>2. CASE ~Plain(r, out)
  <2>1. PICK f : EndsIn(r, out, f) /\ f \in Effects /\ f.op \notin EdgeOps
    BY <1>2 DEF Carries
  <2>2. PICK body : out.fx = Append(body, f) /\ Emits(body, EdgeOf(r), EdgeOf(out.r), 3)
    BY <2>1 DEF EndsIn
  <2>3. Sound(r, out.r) /\ EdgeOf(out.r) \in EdgeStates
    BY <2>1, EdgeTyped DEF EndsIn, Sound
  <2>4. body \in Seq(Effects) /\ Len(body) <= 3 /\ Run(body, EdgeOf(r), EdgeOf(out.r))
    BY <2>2 DEF Emits
  <2>5. Legal(EdgeOf(out.r), f, EdgeOf(out.r))
    BY <2>1 DEF Legal
  <2>6. Run(Append(body, f), EdgeOf(r), EdgeOf(out.r))
    BY <2>1, <2>3, <2>4, <2>5, RunOneMore
  <2>7. Append(body, f) \in Seq(Effects) /\ Len(Append(body, f)) <= 4
    BY <2>1, <2>4
  <2> QED BY <2>2, <2>3, <2>6, <2>7
<1> QED BY <1>1, <1>2

\* Staging the publications of a transition keeps the queue up with the reducer.
LEMMA StagingRuns ==
  ASSUME rs \in ReconnectStates, WellFormed(rs), queue \in Seq(Staged), NEW out, Carries(rs, out),
         queue' = queue \o Publications(out.fx), rs' = out.r
  PROVE  /\ Sound(rs, rs') /\ queue' \in Seq(Staged)
         /\ \A y : Run(queue, y, EdgeOf(rs)) => Run(queue', y, EdgeOf(rs'))
<1>1. /\ Sound(rs, out.r) /\ out.fx \in Seq(Effects) /\ Len(out.fx) <= 4
      /\ Run(out.fx, EdgeOf(rs), EdgeOf(out.r))
  BY CarriesRun
<1>2. PICK p : p = Publications(out.fx)
  OBVIOUS
<1>3. p \in Seq(Staged) /\ Run(p, EdgeOf(rs), EdgeOf(out.r))
  BY <1>1, <1>2, StagedRun
<1>4. ASSUME NEW y, Run(queue, y, EdgeOf(rs))
      PROVE  Run(queue \o p, y, EdgeOf(out.r))
  BY <1>3, <1>4, RunBoth
<1> QED BY <1>1, <1>2, <1>3, <1>4

\* session_generation after a transition.
LEMMA GenerationTyped ==
  ASSUME gen \in Nat, NEW fx \in Seq(Effects), StagePublications(fx)
  PROVE  gen' \in Nat
<1>1. PICK S : S = {i \in DOMAIN fx : fx[i].op = "AbortInFlightAttempt"}
  OBVIOUS
<1>2. IsFiniteSet(1 .. Len(fx)) /\ S \subseteq 1 .. Len(fx)
  BY <1>1, FS_Interval
<1>3. Cardinality(S) \in Nat
  BY <1>2, FS_Subset, FS_CardinalityType
<1> QED BY <1>1, <1>3 DEF StagePublications

-----------------------------------------------------------------------------
\* The steps that a plain effect becomes.
QuietOps == (ShellOps \ {Spawn}) \cup {"Flush", "NewAdapter", "Build"}
Quiet(P) == P \in Seq(Items) /\ \A i \in 1 .. Len(P) : P[i].op \in QuietOps

LEMMA QuietOpsAre ==
  /\ \A op \in QuietOps : /\ op # "Deliver" /\ op # Spawn /\ op \notin LastOps
                          /\ op # "Store" /\ op \in StepOps
BY DEF QuietOps, ShellOps, Spawn, LastOps, StepOps

LEMMA QuietProgram ==
  ASSUME NEW fx \in Seq(Effects), \A i \in 1 .. Len(fx) : fx[i].op \in PlainOps
  PROVE  Quiet(Program(fx))
<1>1. \A i \in 1 .. Len(fx) : StepOf(fx[i]) \in Items /\ StepOf(fx[i]).op \in QuietOps
  <2> TAKE i \in 1 .. Len(fx)
  <2>1. PICK f \in Effects : f = fx[i]
    OBVIOUS
  <2>2. f.op \in PlainOps /\ f.n \in Int /\ f = [op |-> f.op, n |-> f.n]
    BY <2>1 DEF Effects
  <2>3. CASE IsPublication(f)
    <3>1. StepOf(f) = [op |-> "Flush", n |-> 0]
      BY <2>3 DEF StepOf, Flush, Fx
    <3>2. "Flush" \in StepOps /\ "Flush" \in QuietOps
      BY DEF StepOps, QuietOps
    <3>3. PICK h : h = StepOf(f)
      OBVIOUS
    <3>4. h \in [op : StepOps, n : Int] /\ h.op \in QuietOps
      BY <3>1, <3>2, <3>3
    <3> QED BY <2>1, <3>3, <3>4 DEF Items
  <2>4. CASE ~IsPublication(f)
    <3>1. f.op \in ShellOps \ {Spawn}
      BY <2>2, <2>4, WhatIsPublished DEF PlainOps, Spawn
    <3>2. f.op # "ArmLoopTimer" /\ f.op \in StepOps /\ f.op \in QuietOps
      BY <3>1 DEF ShellOps, StepOps, QuietOps
    <3>3. StepOf(f) = f
      BY <2>4, <3>2 DEF StepOf
    <3>4. f \in [op : StepOps, n : Int]
      BY <2>2, <3>2
    <3> QED BY <2>1, <3>2, <3>3, <3>4 DEF Items
  <2> QED BY <2>3, <2>4
<1>2. PICK P : P = Program(fx)
  OBVIOUS
<1>3. P = [i \in 1 .. Len(fx) |-> StepOf(fx[i])]
  BY <1>2 DEF Program
<1>4. P \in Seq(Items) /\ Len(P) = Len(fx) /\ \A i \in 1 .. Len(P) : P[i] = StepOf(fx[i])
  BY <1>1, <1>3
<1> QED BY <1>1, <1>2, <1>4 DEF Quiet

\* A program whose last step is the one of effect f.
LEMMA ProgramEnds ==
  ASSUME NEW body \in Seq(Effects), NEW f \in Effects, NEW h \in Items, h = StepOf(f)
  PROVE  Program(Append(body, f)) = Append(Program(body), h)
<1>1. PICK fx : fx = Append(body, f)
  OBVIOUS
<1>2. PICK n \in Nat : n = Len(body)
  OBVIOUS
<1>3. /\ fx \in Seq(Effects) /\ Len(fx) = n + 1 /\ fx[n + 1] = f
      /\ \A i \in 1 .. n : fx[i] = body[i]
  BY <1>1, <1>2
<1>4. PICK P, Q : P = Program(fx) /\ Q = Program(body)
  OBVIOUS
<1>5. P = [i \in 1 .. (n + 1) |-> StepOf(fx[i])] /\ Q = [i \in 1 .. n |-> StepOf(body[i])]
  BY <1>2, <1>3, <1>4 DEF Program
<1>6. P = [i \in 1 .. (n + 1) |-> IF i = n + 1 THEN h ELSE Q[i]]
  <2>1. \A i \in 1 .. (n + 1) : StepOf(fx[i]) = IF i = n + 1 THEN h ELSE Q[i]
    <3> TAKE i \in 1 .. (n + 1)
    <3>1. CASE i = n + 1
      BY <1>3, <3>1
    <3>2. CASE i # n + 1
      <4>1. i \in 1 .. n
        BY <1>2, <3>2
      <4>2. fx[i] = body[i] /\ Q[i] = StepOf(body[i])
        BY <1>3, <1>5, <4>1
      <4> QED BY <3>2, <4>2
    <3> QED BY <3>1, <3>2
  <2> QED BY <1>5, <2>1
<1>7. PICK T : T = {StepOf(e) : e \in Effects}
  OBVIOUS
<1>8. h \in T /\ \A i \in 1 .. n : StepOf(body[i]) \in T
  BY <1>2, <1>7
<1>9. Q \in Seq(T) /\ Len(Q) = n
  BY <1>2, <1>5, <1>8
<1>10. PICK A : A = Append(Q, h)
  OBVIOUS
<1>11. A \in Seq(T) /\ Len(A) = n + 1 /\ A[n + 1] = h /\ \A i \in 1 .. n : A[i] = Q[i]
  BY <1>8, <1>9, <1>10
<1>12. P \in Seq(T) /\ Len(P) = n + 1
  <2>1. \A i \in 1 .. (n + 1) : (IF i = n + 1 THEN h ELSE Q[i]) \in T
    BY <1>2, <1>5, <1>8
  <2> QED BY <1>2, <1>6, <2>1
<1>13. \A i \in 1 .. (n + 1) : P[i] = A[i]
  BY <1>2, <1>6, <1>11
<1>14. P = A
  BY <1>11, <1>12, <1>13, SeqEqual
<1> QED BY <1>1, <1>4, <1>10, <1>14

\* What is staged has a flush in the program of the thread that staged it.
LEMMA ProgramFlushes ==
  ASSUME NEW fx \in Seq(Effects), Len(fx) <= 4
  PROVE  Publications(fx) = <<>> \/ \E i \in 1 .. Len(Program(fx)) : Program(fx)[i] = Flush
<1>1. PICK n \in Nat : n = Len(fx) /\ n <= 4
  OBVIOUS
<1>2. CASE \E i \in 1 .. n : IsPublication(fx[i])
  <2>1. PICK i \in 1 .. n : IsPublication(fx[i])
    BY <1>2
  <2>2. PICK P : P = Program(fx)
    OBVIOUS
  <2>3. P = [j \in 1 .. n |-> StepOf(fx[j])]
    BY <1>1, <2>2 DEF Program
  <2>4. Len(P) = n /\ P[i] = StepOf(fx[i])
    <3>1. PICK T : T = {StepOf(e) : e \in Effects}
      OBVIOUS
    <3>2. \A j \in 1 .. n : StepOf(fx[j]) \in T
      BY <1>1, <3>1
    <3> QED BY <2>3, <3>2
  <2>5. StepOf(fx[i]) = Flush
    BY <2>1 DEF StepOf
  <2> QED BY <2>2, <2>4, <2>5
<1>3. CASE \A i \in 1 .. n : ~IsPublication(fx[i])
  <2>1. PICK st \in [0 .. n -> Seq(Effects)] :
          /\ st[0] = <<>> /\ st[n] = Publications(fx)
          /\ \A i \in 1 .. n :
               st[i] = IF IsPublication(fx[i]) THEN Append(st[i - 1], fx[i]) ELSE st[i - 1]
    BY <1>1, PublicationsUnfold
  <2>2. \A i \in 1 .. n : st[i] = st[i - 1]
    BY <1>3, <2>1
  <2>3. n >= 1 => st[1] = <<>>
    BY <2>1, <2>2
  <2>4. n >= 2 => st[2] = <<>>
    BY <2>2, <2>3
  <2>5. n >= 3 => st[3] = <<>>
    BY <2>2, <2>4
  <2>6. n >= 4 => st[4] = <<>>
    BY <2>2, <2>5
  <2>7. n = 0 \/ n = 1 \/ n = 2 \/ n = 3 \/ n = 4
    BY <1>1
  <2>8. st[n] = <<>>
    BY <2>1, <2>3, <2>4, <2>5, <2>6, <2>7
  <2> QED BY <2>1, <2>8
<1> QED BY <1>2, <1>3

\* A thread may go on with quiet steps.
LEMMA QuietAdmissible ==
  ASSUME NEW t \in Threads, NEW P, Quiet(P),
         thr[t] # <<>> \/ \A e \in 1 .. MaxEpoch : t # Loop(e)
  PROVE  Admissible(t, P) /\ \A i \in 1 .. Len(P) : P[i].op # "Deliver"
<1>1. \A i \in 1 .. Len(P) : /\ P[i].op # "Deliver" /\ P[i].op # Spawn /\ P[i].op \notin LastOps
  BY QuietOpsAre DEF Quiet
<1> QED BY <1>1 DEF Admissible, Quiet

LEMMA QuietBoth ==
  ASSUME NEW P, NEW M, Quiet(P), Quiet(M)
  PROVE  Quiet(P \o M)
<1>1. P \in Seq(Items) /\ M \in Seq(Items)
  BY DEF Quiet
<1>2. /\ P \o M \in Seq(Items)
      /\ \A i \in 1 .. Len(P \o M) :
           \/ i \in 1 .. Len(P) /\ (P \o M)[i] = P[i]
           \/ i - Len(P) \in 1 .. Len(M) /\ (P \o M)[i] = M[i - Len(P)]
  BY <1>1, JoinedItems
<1> QED BY <1>2 DEF Quiet

LEMMA QuietNothing == Quiet(<<>>)
BY DEF Quiet

\* The last step of a program.
LEMMA EndAdmissible ==
  ASSUME NEW t \in Threads, NEW P, Quiet(P), NEW h \in Items, After(t) = <<>>,
         thr[t] # <<>> \/ \A e \in 1 .. MaxEpoch : t # Loop(e), h.op # "Deliver",
         h.op = Spawn => /\ h.n = rs.epoch + 1 /\ rs'.epoch = rs.epoch + 1
                         /\ t # Loop(rs.epoch + 1)
  PROVE  /\ Admissible(t, Append(P, h))
         /\ \A i \in 1 .. Len(Append(P, h)) : Append(P, h)[i].op # "Deliver"
<1>1. PICK A : A = Append(P, h)
  OBVIOUS
<1>2. PICK n \in Nat : n = Len(P)
  BY DEF Quiet
<1>3. /\ A \in Seq(Items) /\ Len(A) = n + 1 /\ A[n + 1] = h
      /\ \A i \in 1 .. n : A[i] = P[i]
  BY <1>1, <1>2 DEF Quiet
<1>4. \A i \in 1 .. n : A[i].op # "Deliver" /\ A[i].op # Spawn /\ A[i].op \notin LastOps
  BY <1>2, <1>3, QuietOpsAre DEF Quiet
<1>5. \A i \in 1 .. (n + 1) : i = n + 1 \/ i \in 1 .. n
  OBVIOUS
<1>6. \A i \in 1 .. Len(A) : /\ A[i].op # "Deliver"
                             /\ A[i].op \in LastOps => i = Len(A)
                             /\ A[i].op = Spawn => i = Len(A) /\ A[i] = h
  BY <1>3, <1>4, <1>5
<1>7. Admissible(t, A)
  BY <1>3, <1>6 DEF Admissible
<1> QED BY <1>1, <1>6, <1>7

LEMMA Regroup ==
  ASSUME NEW P \in Seq(Items), NEW M \in Seq(Items), NEW R \in Seq(Items)
  PROVE  P \o (M \o R) = (P \o M) \o R
<1>1. PICK A, B, C, D : A = M \o R /\ B = P \o A /\ C = P \o M /\ D = C \o R
  OBVIOUS
<1>2. PICK k \in Nat, l \in Nat, m \in Nat : k = Len(P) /\ l = Len(M) /\ m = Len(R)
  OBVIOUS
<1>3. /\ A \in Seq(Items) /\ Len(A) = l + m
      /\ \A i \in 1 .. (l + m) : A[i] = IF i <= l THEN M[i] ELSE R[i - l]
  BY <1>1, <1>2
<1>4. /\ C \in Seq(Items) /\ Len(C) = k + l
      /\ \A i \in 1 .. (k + l) : C[i] = IF i <= k THEN P[i] ELSE M[i - k]
  BY <1>1, <1>2
<1>5. /\ B \in Seq(Items) /\ Len(B) = k + (l + m)
      /\ \A i \in 1 .. (k + (l + m)) : B[i] = IF i <= k THEN P[i] ELSE A[i - k]
  BY <1>1, <1>2, <1>3
<1>6. /\ D \in Seq(Items) /\ Len(D) = (k + l) + m
      /\ \A i \in 1 .. ((k + l) + m) : D[i] = IF i <= k + l THEN C[i] ELSE R[i - (k + l)]
  BY <1>1, <1>2, <1>4
<1>7. \A i \in 1 .. Len(B) : B[i] = D[i]
  <2> TAKE i \in 1 .. Len(B)
  <2>1. CASE i <= k
    BY <1>2, <1>4, <1>5, <1>6, <2>1
  <2>2. CASE i > k /\ i <= k + l
    <3>1. PICK j \in 1 .. l : j = i - k
      BY <1>2, <1>5, <2>2
    <3>2. B[i] = A[j] /\ A[j] = M[j]
      BY <1>2, <1>3, <1>5, <2>2, <3>1
    <3>3. D[i] = C[i] /\ C[i] = M[j]
      BY <1>2, <1>4, <1>5, <1>6, <2>2, <3>1
    <3> QED BY <3>2, <3>3
  <2>3. CASE i > k + l
    <3>0. i \in Nat /\ i <= k + (l + m) /\ i \in 1 .. (k + (l + m))
      BY <1>2, <1>5
    <3>1. PICK j \in Nat : j = i - k
      <4>1. i - k \in Nat
        BY <1>2, <2>3, <3>0
      <4> QED BY <4>1
    <3>2. B[i] = A[j] /\ A[j] = R[j - l]
      <4>1. j \in 1 .. (l + m) /\ ~(j <= l) /\ ~(i <= k)
        BY <1>2, <2>3, <3>0, <3>1
      <4>2. A[j] = R[j - l]
        BY <1>3, <4>1
      <4> QED BY <1>5, <3>0, <3>1, <4>1, <4>2
    <3>3. D[i] = R[j - l]
      <4>1. j - l = i - (k + l) /\ i \in 1 .. ((k + l) + m) /\ ~(i <= k + l)
        BY <1>2, <2>3, <3>0, <3>1
      <4> QED BY <1>6, <4>1
    <3> QED BY <3>2, <3>3
  <2> QED BY <1>2, <1>5, <2>1, <2>2, <2>3
<1>8. Len(B) = Len(D)
  BY <1>2, <1>5, <1>6
<1>9. B = D
  BY <1>5, <1>6, <1>7, <1>8, SeqEqual
<1> QED BY <1>1, <1>9

\* The sessions go on or end, and those told to disconnect stay told.
SessionsKept ==
  /\ sess' \in [Generations -> Sessions] /\ slot' = slot
  /\ \A g \in Generations : sess'[g] \in {"dialing", "up"} =>
       sess[g] \in {"dialing", "up"} /\ (g \in disc => g \in disc')

\* A transition of the reducer made by thread t.
LEMMA ReducerStep ==
  ASSUME Inv, NEW t \in Threads, NEW out, NEW M, Quiet(M), ~At(t, "Deliver"), ~At(t, "Store"), ~At(t, "Flush"),
         thr[t] # <<>> \/ \A e \in 1 .. MaxEpoch : t # Loop(e),
         \/ Plain(rs, out)
         \/ M = <<>> /\ After(t) = <<>> /\ (Spawns(rs, out) \/ \E e \in Int : Arms(rs, out, e)),
         rs' = out.r, queue' = queue \o Publications(out.fx), gen' \in Nat, armed' = armed,
         draining' = draining, edges' = edges, SessionsKept,
         thr' = [thr EXCEPT ![t] = Program(out.fx) \o (M \o After(t))]
  PROVE  Inv'
<1>1. /\ rs \in ReconnectStates /\ WellFormed(rs) /\ queue \in Seq(Staged) /\ armed' \in Int
      /\ rs.epoch \in Nat /\ ThreadInv
  BY DEF Inv, TypeInv, ReconnectStates
<1>2. After(t) \in Seq(Items) /\ M \in Seq(Items)
  BY <1>1, AfterItems DEF ThreadInv, Quiet
<1>3. ASSUME NEW P, Admissible(t, P), \A i \in 1 .. Len(P) : P[i].op # "Deliver",
             Carries(rs, out), thr' = [thr EXCEPT ![t] = P \o After(t)],
             Publications(out.fx) = <<>> \/ \E i \in 1 .. Len(P) : P[i] = Flush
      PROVE  Inv'
  <2>1. /\ Sound(rs, rs') /\ queue' \in Seq(Staged)
        /\ \A y : Run(queue, y, EdgeOf(rs)) => Run(queue', y, EdgeOf(rs'))
    BY <1>1, <1>3, StagingRuns
  <2>2. \A g \in Generations : sess'[g] \in {"dialing", "up"} /\ g # slot' =>
          /\ sess[g] \in {"dialing", "up"} /\ g # slot /\ (g \in disc => g \in disc')
          /\ ~(At(t, "Store") /\ Arg(t) = g)
    BY DEF SessionsKept
  <2>3. sess' \in [Generations -> Sessions]
    BY DEF SessionsKept
  <2>4. Publications(out.fx) = <<>> => queue' = queue
    BY <1>1, ConcatEmptySeq
  <2>5. (\E i \in 1 .. Len(P) : P[i] = Flush) \/ (queue' = queue /\ ~At(t, "Flush"))
    BY <1>3, <2>4
  <2> QED BY <1>1, <1>3, <2>1, <2>2, <2>3, <2>5, OrdinaryStep
<1>4. CASE Plain(rs, out)
  <2>1. Quiet(Program(out.fx))
    BY <1>4, QuietProgram DEF Plain, Emits
  <2>2. PICK Q, P : Q = Program(out.fx) /\ P = Q \o M
    OBVIOUS
  <2>3. Quiet(P) /\ Q \in Seq(Items)
    BY <2>1, <2>2, QuietBoth DEF Quiet
  <2>4. Admissible(t, P) /\ \A i \in 1 .. Len(P) : P[i].op # "Deliver"
    BY <2>3, QuietAdmissible
  <2>5. Q \o (M \o After(t)) = P \o After(t)
    <3>1. PICK R : R = After(t) /\ R \in Seq(Items)
      BY <1>2
    <3>2. Q \o (M \o R) = (Q \o M) \o R
      BY <1>2, <2>3, <3>1, Regroup, Zenon
    <3> QED BY <2>2, <3>1, <3>2
  <2>6. Carries(rs, out)
    BY <1>4 DEF Carries
  <2>7. Publications(out.fx) = <<>> \/ \E i \in 1 .. Len(P) : P[i] = Flush
    <3>1. Publications(out.fx) = <<>> \/ \E i \in 1 .. Len(Q) : Q[i] = Flush
      BY <1>4, <2>2, ProgramFlushes DEF Plain, Emits
    <3>2. \A i \in 1 .. Len(Q) : i \in 1 .. Len(P) /\ P[i] = Q[i]
      BY <1>2, <2>2, <2>3, JoinedItems
    <3> QED BY <3>1, <3>2
  <2> QED BY <1>3, <2>2, <2>4, <2>5, <2>6, <2>7
<1>5. ASSUME M = <<>>, After(t) = <<>>, NEW f \in Effects, NEW h \in Items, f.op \notin EdgeOps,
             h = StepOf(f), EndsIn(rs, out, f), h.op # "Deliver",
             h.op = Spawn => /\ h.n = rs.epoch + 1 /\ rs'.epoch = rs.epoch + 1
                             /\ t # Loop(rs.epoch + 1)
      PROVE  Inv'
  <2>1. PICK body : out.fx = Append(body, f) /\ Emits(body, EdgeOf(rs), EdgeOf(out.r), 3)
    BY <1>5 DEF EndsIn
  <2>2. body \in Seq(Effects) /\ Quiet(Program(body))
    BY <2>1, QuietProgram DEF Emits
  <2>3. PICK Q, P : Q = Program(body) /\ P = Append(Q, h)
    OBVIOUS
  <2>4. Program(out.fx) = P
    BY <1>5, <2>1, <2>2, <2>3, ProgramEnds
  <2>5. Admissible(t, P) /\ \A i \in 1 .. Len(P) : P[i].op # "Deliver"
    BY <1>5, <2>2, <2>3, EndAdmissible
  <2>6. M \o After(t) = After(t)
    BY <1>5
  <2>7. Carries(rs, out)
    BY <1>5 DEF Carries
  <2>8. Publications(out.fx) = <<>> \/ \E i \in 1 .. Len(P) : P[i] = Flush
    <3>1. out.fx \in Seq(Effects) /\ Len(out.fx) <= 4
      BY <1>5, <2>1 DEF Emits
    <3> QED BY <2>4, <3>1, ProgramFlushes
  <2> QED BY <1>3, <2>4, <2>5, <2>6, <2>7, <2>8
<1>6. CASE M = <<>> /\ After(t) = <<>> /\ Spawns(rs, out)
  <2>1. PICK m \in Nat : m = rs.epoch + 1
    BY <1>1
  <2>2. PICK f : f = Fx("StartReconnectLoop", m)
    OBVIOUS
  <2>3. /\ f \in Effects /\ f \in Items /\ f.op = "StartReconnectLoop" /\ f.n = m
    <3>1. "StartReconnectLoop" \in ShellOps
      BY DEF ShellOps
    <3>2. f = [op |-> "StartReconnectLoop", n |-> m]
      BY <2>2 DEF Fx
    <3>3. f \in Effects
      BY <3>1, <3>2 DEF Effects
    <3>4. "StartReconnectLoop" \in StepOps
      BY <3>1 DEF StepOps
    <3>5. f \in Items
      BY <3>2, <3>4 DEF Items
    <3> QED BY <3>2, <3>3, <3>5
  <2>4. f.op \notin EdgeOps /\ f.op \notin PublicationOps /\ f.op # "ArmLoopTimer" /\ f.op # "Deliver"
    BY <2>3 DEF EdgeOps, PublicationOps
  <2>5. f = StepOf(f)
    BY <2>3, <2>4, WhatIsPublished DEF StepOf
  <2>6. t # Loop(m)
    <3>1. CASE m \in 1 .. MaxEpoch
      <4>1. m > rs.epoch
        BY <1>1, <2>1
      <4>2. thr[Loop(m)] = <<>>
        BY <1>1, <3>1, <4>1 DEF ThreadInv, SpawnInv
      <4> QED BY <3>1, <4>2
    <3>2. CASE m \notin 1 .. MaxEpoch
      BY <3>2, ThreadNames
    <3> QED BY <3>1, <3>2
  <2>7. EndsIn(rs, out, f) /\ rs'.epoch = m
    BY <1>6, <2>1, <2>2 DEF Spawns
  <2> QED BY <1>5, <1>6, <2>1, <2>3, <2>4, <2>5, <2>6, <2>7
<1>7. CASE M = <<>> /\ After(t) = <<>> /\ \E e \in Int : Arms(rs, out, e)
  <2>1. PICK e \in Int : Arms(rs, out, e)
    BY <1>7
  <2>2. PICK f, h : f = Fx("ArmLoopTimer", e) /\ h = Fx("Sleep", 0)
    OBVIOUS
  <2>3. /\ f \in Effects /\ f.op = "ArmLoopTimer" /\ h \in Items /\ h.op = "Sleep"
    <3>1. f = [op |-> "ArmLoopTimer", n |-> e] /\ h = [op |-> "Sleep", n |-> 0]
      BY <2>2 DEF Fx
    <3>2. f \in Effects
      BY <3>1 DEF Effects
    <3>3. "Sleep" \in StepOps
      BY DEF StepOps
    <3>4. h \in Items
      BY <3>1, <3>3 DEF Items
    <3> QED BY <3>1, <3>2, <3>4
  <2>4. f.op \notin EdgeOps /\ f.op \notin PublicationOps /\ h.op # "Deliver" /\ h.op # Spawn
    BY <2>3 DEF EdgeOps, PublicationOps, Spawn
  <2>5. h = StepOf(f)
    BY <2>2, <2>3, <2>4, WhatIsPublished DEF StepOf
  <2>6. EndsIn(rs, out, f)
    BY <2>1, <2>2 DEF Arms
  <2> QED BY <1>5, <1>7, <2>3, <2>4, <2>5, <2>6
<1> QED BY <1>4, <1>6, <1>7

-----------------------------------------------------------------------------
(***************************************************************************)
(* The steps of the threads, by kind.                                      *)
(***************************************************************************)
\* A thread at a step.
LEMMA AtStep ==
  ASSUME ThreadInv, NEW t \in Threads, NEW op, At(t, op)
  PROVE  /\ thr[t] # <<>> /\ After(t) = Rest(t) /\ Head(thr[t]) \in Items
         /\ After(t) \in Seq(Items)
         /\ Head(thr[t]).op = op /\ Arg(t) = Head(thr[t]).n
         /\ op \in LastOps => After(t) = <<>>
         /\ op \in StepOps => Arg(t) \in Int
         /\ \A o : o # op => ~At(t, o)
<1>1. thr[t] \in Seq(Items) /\ thr[t] # <<>> /\ Head(thr[t]).op = op
  BY DEF ThreadInv, At, Idle
<1>2. Head(thr[t]) \in Items /\ Head(thr[t]) = thr[t][1] /\ 1 \in 1 .. Len(thr[t])
  BY <1>1
<1>3. op \in LastOps => After(t) = <<>>
  <2>1. op \in LastOps => Len(thr[t]) = 1
    BY <1>1, <1>2 DEF ThreadInv, ShapeInv
  <2>2. After(t) \in Seq(Items) /\ Len(After(t)) = Len(thr[t]) - 1
    BY <1>1, AfterItems
  <2>3. op \in LastOps => Len(After(t)) = 0
    BY <2>1, <2>2
  <2>4. \A s \in Seq(Items) : Len(s) = 0 => s = <<>>
    OBVIOUS
  <2> QED BY <2>2, <2>3, <2>4
<1>4. op \in StepOps => Arg(t) \in Int
  <2>1. "LostCheck" \notin StepOps /\ "Deliver" \notin StepOps
    BY DEF StepOps, ShellOps
  <2>2. PICK h \in Items : h = Head(thr[t]) /\ h.op = op
    BY <1>1, <1>2
  <2>3. op \in StepOps => h.n \in Int
    BY <2>1, <2>2 DEF Items
  <2> QED BY <2>2, <2>3 DEF Arg
<1>5. After(t) \in Seq(Items)
  BY <1>1, AfterItems
<1> QED BY <1>1, <1>2, <1>3, <1>4, <1>5 DEF After, Rest, Arg, At

\* A step that leaves the queue and the reducer's edges alone.
LEMMA GivenStep ==
  ASSUME Inv, NEW t \in Threads, NEW P, Admissible(t, P), ~At(t, "Deliver"),
         \A i \in 1 .. Len(P) : P[i].op # "Deliver",
         thr' = [thr EXCEPT ![t] = P \o After(t)],
         Sound(rs, rs'), EdgeOf(rs') = EdgeOf(rs), gen' = gen, queue' = queue, edges' = edges,
         ~At(t, "Flush") \/ draining \/ queue = <<>>,
         draining' = draining, armed' \in Int, sess' \in [Generations -> Sessions],
         \A g \in Generations : sess'[g] \in {"dialing", "up"} /\ g # slot' =>
           \/ g \in disc'
           \/ \E i \in 1 .. Len(P) : P[i] = Fx("Store", g)
           \/ /\ sess[g] \in {"dialing", "up"} /\ g # slot /\ (g \in disc => g \in disc')
              /\ ~(At(t, "Store") /\ Arg(t) = g)
  PROVE  Inv'
<1>1. /\ queue' \in Seq(Staged) /\ gen' \in Nat
      /\ \A y : Run(queue, y, EdgeOf(rs)) => Run(queue', y, EdgeOf(rs'))
      /\ queue' = <<>> \/ draining \/ (queue' = queue /\ ~At(t, "Flush"))
  BY DEF Inv, TypeInv
<1> QED BY <1>1, OrdinaryStep

\* A step of which nothing is left to do.
LEMMA SkipStep ==
  ASSUME Inv, NEW t \in Threads, NEW op, At(t, op), op # "Deliver", Skip(t),
         op # "Flush" \/ draining \/ queue = <<>>,
         rs' = rs, gen' = gen, queue' = queue, edges' = edges, draining' = draining,
         armed' \in Int, sess' = sess,
         \A g \in Generations : sess[g] \in {"dialing", "up"} /\ g # slot' =>
           g \in disc' \/ (g # slot /\ (g \in disc => g \in disc') /\ ~(op = "Store" /\ Arg(t) = g))
  PROVE  Inv'
<1>1. ThreadInv /\ Sound(rs, rs') /\ EdgeOf(rs') = EdgeOf(rs) /\ sess' \in [Generations -> Sessions]
  BY IgnoredPlain DEF Inv, TypeInv
<1>2. /\ thr[t] # <<>> /\ After(t) = Rest(t) /\ After(t) \in Seq(Items)
      /\ \A o : o # op => ~At(t, o)
  BY <1>1, AtStep
<1>3. PICK P : P = <<>>
  OBVIOUS
<1>4. Admissible(t, P) /\ \A i \in 1 .. Len(P) : P[i].op # "Deliver"
  BY <1>2, <1>3, QuietNothing, QuietAdmissible
<1>5. P \o After(t) = Rest(t)
  BY <1>2, <1>3
<1>6. thr' = [thr EXCEPT ![t] = P \o After(t)]
  BY <1>5 DEF Skip
<1>7. \A g \in Generations : sess'[g] \in {"dialing", "up"} /\ g # slot' =>
        \/ g \in disc'
        \/ /\ sess[g] \in {"dialing", "up"} /\ g # slot /\ (g \in disc => g \in disc')
           /\ ~(At(t, "Store") /\ Arg(t) = g)
  BY <1>2
<1> QED BY <1>1, <1>2, <1>4, <1>6, <1>7, GivenStep

\* A thread of the app's own that is idle takes on one step, or none.
LEMMA IdleStep ==
  ASSUME Inv, NEW t \in Threads, Idle(t), \A e \in 1 .. MaxEpoch : t # Loop(e),
         NEW P, P = <<>> \/ \E h \in Items : P = <<h>> /\ h.op # "Deliver" /\ h.op # Spawn,
         thr' = [thr EXCEPT ![t] = P],
         Sound(rs, rs'), EdgeOf(rs') = EdgeOf(rs), gen' = gen, queue' = queue, edges' = edges,
         draining' = draining, armed' \in Int, SessionsKept
  PROVE  Inv'
<1>1. thr[t] = <<>> /\ After(t) = <<>> /\ \A op : ~At(t, op)
  BY DEF Idle, After, At
<1>2. P \in Seq(Items) /\ P \o After(t) = P
  <2>1. P \in Seq(Items)
    <3>1. <<>> \in Seq(Items) /\ \A h \in Items : <<h>> \in Seq(Items)
      OBVIOUS
    <3> QED BY <3>1
  <2> QED BY <1>1, <2>1, ConcatEmptySeq
<1>3. Admissible(t, P) /\ \A i \in 1 .. Len(P) : P[i].op # "Deliver"
  <2>1. CASE P = <<>>
    BY <2>1 DEF Admissible
  <2>2. CASE \E h \in Items : P = <<h>> /\ h.op # "Deliver" /\ h.op # Spawn
    <3>1. PICK h \in Items : P = <<h>> /\ h.op # "Deliver" /\ h.op # Spawn
      BY <2>2
    <3>2. Len(P) = 1 /\ \A i \in 1 .. Len(P) : i = 1 /\ P[i] = h
      BY <3>1
    <3> QED BY <1>1, <1>2, <3>1, <3>2 DEF Admissible
  <2> QED BY <2>1, <2>2
<1>4. \A g \in Generations : sess'[g] \in {"dialing", "up"} /\ g # slot' =>
        /\ sess[g] \in {"dialing", "up"} /\ g # slot /\ (g \in disc => g \in disc')
        /\ ~(At(t, "Store") /\ Arg(t) = g)
  BY <1>1 DEF SessionsKept
<1>5. thr' = [thr EXCEPT ![t] = P \o After(t)] /\ sess' \in [Generations -> Sessions]
  BY <1>2 DEF SessionsKept
<1> QED BY <1>1, <1>3, <1>4, <1>5, GivenStep

\* apply_reconnect by a thread that has nothing else left to do but M and then R.
LEMMA ApplyStep ==
  ASSUME Inv, NEW t \in Threads, NEW out, NEW M, Quiet(M), ~At(t, "Deliver"), ~At(t, "Store"), ~At(t, "Flush"),
         thr[t] # <<>> \/ \A e \in 1 .. MaxEpoch : t # Loop(e),
         \/ Plain(rs, out)
         \/ M = <<>> /\ After(t) = <<>> /\ (Spawns(rs, out) \/ \E e \in Int : Arms(rs, out, e)),
         NEW rest, rest = M \o After(t), ApplyReconnect(t, out, rest),
         armed' = armed, draining' = draining, edges' = edges, SessionsKept
  PROVE  Inv'
<1>1. /\ rs \in ReconnectStates /\ WellFormed(rs) /\ gen \in Nat /\ rs.epoch \in Nat
  BY DEF Inv, TypeInv, ReconnectStates
<1>2. out.fx \in Seq(Effects)
  <2>1. CASE Plain(rs, out)
    BY <2>1 DEF Plain, Emits
  <2>2. CASE Spawns(rs, out)
    <3>1. PICK m \in Nat : m = rs.epoch + 1
      BY <1>1
    <3>2. PICK f : f = Fx("StartReconnectLoop", m)
      OBVIOUS
    <3>3. f \in Effects
      <4>1. "StartReconnectLoop" \in ShellOps
        BY DEF ShellOps
      <4> QED BY <3>2, <4>1 DEF Fx, Effects
    <3>4. PICK body : out.fx = Append(body, f) /\ body \in Seq(Effects)
      BY <2>2, <3>1, <3>2 DEF Spawns, EndsIn, Emits
    <3> QED BY <3>3, <3>4
  <2>3. CASE \E e \in Int : Arms(rs, out, e)
    <3>1. PICK e \in Int : Arms(rs, out, e)
      BY <2>3
    <3>2. PICK f : f = Fx("ArmLoopTimer", e)
      OBVIOUS
    <3>3. f \in Effects
      BY <3>2 DEF Fx, Effects
    <3>4. PICK body : out.fx = Append(body, f) /\ body \in Seq(Effects)
      BY <3>1, <3>2 DEF Arms, EndsIn, Emits
    <3> QED BY <3>3, <3>4
  <2> QED BY <2>1, <2>2, <2>3
<1>3. StagePublications(out.fx) /\ rs' = out.r /\ queue' = queue \o Publications(out.fx)
  BY DEF ApplyReconnect, StagePublications
<1>4. gen' \in Nat
  BY <1>1, <1>2, <1>3, GenerationTyped
<1>5. thr' = [thr EXCEPT ![t] = Program(out.fx) \o (M \o After(t))]
  BY DEF ApplyReconnect
<1> QED BY <1>3, <1>4, <1>5, ReducerStep

-----------------------------------------------------------------------------
(***************************************************************************)
(* Delivering.                                                             *)
(***************************************************************************)
\* The app sees one more edge.
LEMMA OneMoreEdge ==
  ASSUME edges \in Seq(Staged), EdgesWellFormed, NEW x \in EdgeStates, NEW y \in EdgeStates,
         Delivered(edges, x), NEW f \in Staged, Legal(x, f, y), f.op \in EdgeOps,
         edges' = Append(edges, f)
  PROVE  edges' \in Seq(Staged) /\ EdgesWellFormed' /\ Delivered(edges', y)
<1>1. PICK n \in Nat : n = Len(edges)
  OBVIOUS
<1>2. PICK es : es = edges'
  OBVIOUS
<1>3. /\ es \in Seq(Staged) /\ Len(es) = n + 1 /\ es[n + 1] = f
      /\ \A i \in 1 .. n : es[i] = edges[i]
      /\ DOMAIN es = 1 .. (n + 1) /\ DOMAIN edges = 1 .. n
  BY <1>1, <1>2
<1>4. /\ x[1] \in Nat /\ x[2] \in Nat /\ (x[1] # 0 => x[2] = x[1]) /\ f.n \in Int
      /\ f = [op |-> f.op, n |-> f.n]
  BY DEF EdgeStates, Staged
<1>5. /\ n % 2 = 0 \/ n % 2 = 1
      /\ (n % 2 = 1 => (n + 1) % 2 = 0) /\ (n % 2 = 0 => (n + 1) % 2 = 1)
  OBVIOUS
<1>6. /\ f.op = "EdgeEstablished" => /\ n % 2 = 0 /\ y[1] = f.n /\ y[2] = f.n /\ f.n > x[2]
                                     /\ y[1] # 0
      /\ f.op = "EdgeLost" => n % 2 = 1 /\ f.n = x[1] /\ x[1] # 0 /\ y[1] = 0 /\ y[2] = f.n
      /\ f.op = "EdgeEstablished" \/ f.op = "EdgeLost"
      /\ n > 0 => x[2] = edges[n].n
  BY <1>1, <1>4, <1>5 DEF Legal, Delivered, EdgeOps
<1>7. Delivered(es, y)
  BY <1>3, <1>5, <1>6 DEF Delivered
<1>8. ASSUME NEW i \in 1 .. (n + 1)
      PROVE  IF i % 2 = 1
               THEN /\ es[i].op = "EdgeEstablished"
                    /\ i > 1 => es[i].n > es[i - 1].n
               ELSE es[i] = Fx("EdgeLost", es[i - 1].n)
  <2>1. CASE i \in 1 .. n
    <3>1. i > 1 => i - 1 \in 1 .. n
      BY <1>1, <2>1
    <3>2. i = 1 => i % 2 = 1
      OBVIOUS
    <3>3. es[i] = edges[i] /\ (i > 1 => es[i - 1] = edges[i - 1]) /\ (i > 1 \/ i = 1)
      BY <1>1, <1>3, <2>1, <3>1
    <3>4. IF i % 2 = 1
            THEN /\ edges[i].op = "EdgeEstablished"
                 /\ i > 1 => edges[i].n > edges[i - 1].n
            ELSE edges[i] = Fx("EdgeLost", edges[i - 1].n)
      BY <1>3, <2>1 DEF EdgesWellFormed
    <3> QED BY <3>2, <3>3, <3>4
  <2>2. CASE i = n + 1 /\ f.op = "EdgeEstablished"
    <3>1. i % 2 = 1 /\ es[i] = f
      BY <1>3, <1>5, <1>6, <2>2
    <3>2. i > 1 => n > 0 /\ i - 1 = n /\ es[n] = edges[n]
      BY <1>1, <1>3, <2>2
    <3> QED BY <1>6, <2>2, <3>1, <3>2
  <2>3. CASE i = n + 1 /\ f.op = "EdgeLost"
    <3>1. i % 2 # 1 /\ es[i] = f /\ n > 0 /\ i - 1 = n
      BY <1>1, <1>3, <1>5, <1>6, <2>3
    <3>2. es[n] = edges[n] /\ f.n = edges[n].n
      BY <1>1, <1>3, <1>4, <1>6, <2>3, <3>1
    <3> QED BY <1>4, <2>3, <3>1, <3>2 DEF Fx
  <2> QED BY <1>1, <1>6, <2>1, <2>2, <2>3
<1>9. \A i \in DOMAIN es : IF i % 2 = 1
                             THEN /\ es[i].op = "EdgeEstablished"
                                  /\ i > 1 => es[i].n > es[i - 1].n
                             ELSE es[i] = Fx("EdgeLost", es[i - 1].n)
  BY <1>3, <1>8
<1>10. EdgesWellFormed'
  BY <1>2, <1>9 DEF EdgesWellFormed
<1> QED BY <1>2, <1>3, <1>7, <1>10

\* A step that is not a Store and moves no session.
LEMMA SessionsStay ==
  ASSUME Inv, NEW t \in Threads, NEW P \in Seq(Items), ~At(t, "Store"),
         thr' = [thr EXCEPT ![t] = P \o After(t)], ThreadInv',
         sess' = sess, slot' = slot, disc' = disc
  PROVE  ReplacedSessionsEnd'
<1>1. thr' \in [Threads -> Seq(Items)] /\ thr \in [Threads -> Seq(Items)] /\ ThreadInv
  BY DEF ThreadInv, Inv
<1>2. ASSUME NEW g \in Generations, Stored(g)
      PROVE  Stored(g)'
  BY <1>1, <1>2, StoresStay
<1>3. \A g \in Generations :
        (\E u \in Threads : Fx("Store", g) \in {thr'[u][i] : i \in DOMAIN thr'[u]}) <=> Stored(g)'
  BY <1>1, WhereItWaits DEF Stored, Waits
<1>4. \A g \in Generations :
        (\E u \in Threads : Fx("Store", g) \in {thr[u][i] : i \in DOMAIN thr[u]}) <=> Stored(g)
  BY <1>1, WhereItWaits DEF Stored, Waits
<1>5. \A g \in Generations : sess[g] \in {"dialing", "up"} /\ g # slot => g \in disc \/ Stored(g)
  BY <1>4 DEF Inv, ReplacedSessionsEnd
<1>6. \A g \in Generations : sess'[g] \in {"dialing", "up"} /\ g # slot' => g \in disc' \/ Stored(g)'
  BY <1>2, <1>5
<1> QED BY <1>3, <1>6 DEF ReplacedSessionsEnd

\* A thread takes the first publication of the queue.
LEMMA TakesFirst ==
  ASSUME Inv, NEW t \in Threads, NEW op \in {"Flush", "Deliver"}, At(t, op), queue # <<>>,
         rs' = rs, thr' = [thr EXCEPT ![t] = <<Fx("Deliver", Head(queue))>> \o Rest(t)],
         sess' = sess, slot' = slot, disc' = disc
  PROVE  /\ ThreadInv' /\ ReplacedSessionsEnd'
         /\ At(t, "Deliver")' /\ Arg(t)' = Head(queue)
         /\ \A u \in Threads : u # t =>
               (At(u, "Deliver")' <=> At(u, "Deliver")) /\ (At(u, "Deliver") => Arg(u)' = Arg(u))
<1>1. ThreadInv /\ rs.epoch \in Nat /\ queue \in Seq(Staged)
  BY DEF Inv, TypeInv, ReconnectStates
<1>2. /\ thr[t] # <<>> /\ After(t) = Rest(t) /\ After(t) \in Seq(Items) /\ ~At(t, "Store")
  BY <1>1, AtStep
<1>3. PICK f, h, P, R : /\ f = Head(queue) /\ h = Fx("Deliver", f) /\ P = <<h>> /\ R = After(t)
  OBVIOUS
<1>4. h \in Items /\ h.op = "Deliver" /\ h.n = f
  <2>1. f \in Staged
    BY <1>1, <1>3
  <2>2. h = [op |-> "Deliver", n |-> f]
    BY <1>3 DEF Fx
  <2>3. h \in [op : {"Deliver"}, n : Staged]
    BY <2>1, <2>2
  <2> QED BY <2>2, <2>3 DEF Items
<1>5. P \in Seq(Items) /\ Len(P) = 1 /\ \A i \in 1 .. Len(P) : i = 1 /\ P[i] = h
  BY <1>3, <1>4
<1>6. Admissible(t, P)
  <2>1. "Deliver" \notin LastOps /\ "Deliver" # Spawn
    BY DEF LastOps, Spawn
  <2> QED BY <1>2, <1>4, <1>5, <2>1 DEF Admissible
<1>7. thr' = [thr EXCEPT ![t] = P \o After(t)]
  BY <1>2, <1>3
<1>8. ThreadInv'
  <2>1. rs'.epoch \in Nat /\ rs.epoch <= rs'.epoch
    BY <1>1
  <2> QED BY <1>1, <1>6, <1>7, <2>1, ThreadStep
<1>9. ReplacedSessionsEnd'
  BY <1>2, <1>5, <1>7, <1>8, SessionsStay
<1>10. thr'[t] = P \o R /\ \A u \in Threads : u # t => thr'[u] = thr[u]
  BY <1>1, <1>3, <1>7 DEF ThreadInv
<1>11. P \o R # <<>> /\ Head(P \o R) = h
  BY <1>2, <1>3
<1>12. At(t, "Deliver")' /\ Arg(t)' = f
  BY <1>4, <1>10, <1>11 DEF At, Idle, Arg
<1>13. \A u \in Threads : u # t =>
      (At(u, "Deliver")' <=> At(u, "Deliver")) /\ (At(u, "Deliver") => Arg(u)' = Arg(u))
  BY <1>10 DEF At, Idle, Arg
<1> QED BY <1>3, <1>8, <1>9, <1>12, <1>13

\* flush_publications.
LEMMA FlushInv ==
  ASSUME Inv, NEW t \in Threads, FlushPublications(t)
  PROVE  Inv'
<1>1. CASE draining \/ queue = <<>>
  <2>1. /\ At(t, "Flush") /\ Skip(t) /\ rs' = rs /\ gen' = gen /\ queue' = queue /\ edges' = edges
        /\ draining' = draining /\ armed' = armed /\ sess' = sess /\ slot' = slot /\ disc' = disc
    BY <1>1 DEF FlushPublications
  <2>2. armed' \in Int
    BY <2>1 DEF Inv, TypeInv
  <2> QED BY <1>1, <2>1, <2>2, SkipStep
<1>2. CASE ~draining /\ queue # <<>>
  <2>1. /\ At(t, "Flush") /\ rs' = rs /\ gen' = gen /\ queue' = Tail(queue) /\ edges' = edges
        /\ draining' /\ armed' = armed /\ sess' = sess /\ slot' = slot /\ disc' = disc
        /\ thr' = [thr EXCEPT ![t] = <<Fx("Deliver", Head(queue))>> \o Rest(t)]
    BY <1>2 DEF FlushPublications
  <2>2. /\ ThreadInv' /\ ReplacedSessionsEnd'
        /\ At(t, "Deliver")' /\ Arg(t)' = Head(queue)
        /\ \A u \in Threads : u # t =>
              (At(u, "Deliver")' <=> At(u, "Deliver")) /\ (At(u, "Deliver") => Arg(u)' = Arg(u))
    BY <1>2, <2>1, TakesFirst
  <2>3. \A u \in Threads : ~At(u, "Deliver")
    BY <1>2 DEF Inv, DrainInv
  <2>4. queue \in Seq(Staged) /\ queue' \in Seq(Staged) /\ TypeInv'
    BY <1>2, <2>1 DEF Inv, TypeInv
  <2>5. DrainInv' /\ StrandInv'
    BY <2>1, <2>2, <2>3 DEF DrainInv, StrandInv
  <2>6. EdgesWellFormed'
    BY <2>1 DEF Inv, EdgesWellFormed
  <2>7. LedgerInv'
    <3>1. PICK x \in EdgeStates : Delivered(edges, x) /\ Run(queue, x, EdgeOf(rs))
      BY <2>3 DEF Inv, LedgerInv
    <3>2. PICK y \in EdgeStates : Legal(x, Head(queue), y) /\ Run(Tail(queue), y, EdgeOf(rs))
      BY <1>2, <2>4, <3>1, RunFirst
    <3>3. /\ Delivered(edges', x) /\ Run(queue', y, EdgeOf(rs)')
          /\ \A u \in Threads : At(u, "Deliver")' => Legal(x, Arg(u)', y)
          /\ ~(\A u \in Threads : ~At(u, "Deliver")')
      BY <2>1, <2>2, <2>3, <3>1, <3>2 DEF EdgeOf
    <3> QED BY <3>3, Zenon DEF LedgerInv
  <2> QED BY <2>2, <2>4, <2>5, <2>6, <2>7 DEF Inv
<1> QED BY <1>1, <1>2

\* The drainer delivers and takes the next publication, or stops.
LEMMA DeliverInv ==
  ASSUME Inv, NEW t \in Threads, Deliver(t)
  PROVE  Inv'
<1>1. /\ At(t, "Deliver") /\ rs' = rs /\ gen' = gen /\ armed' = armed /\ sess' = sess
      /\ slot' = slot /\ disc' = disc
  BY DEF Deliver
<1>2. ThreadInv /\ queue \in Seq(Staged) /\ edges \in Seq(Staged) /\ EdgesWellFormed /\ rs.epoch \in Nat
  BY DEF Inv, TypeInv, ReconnectStates
<1>3. PICK f : f = Arg(t)
  OBVIOUS
<1>4. f \in Staged
  <2>1. PICK h \in Items : h.op = "Deliver" /\ h.n = f
    BY <1>1, <1>2, <1>3, AtStep
  <2>2. "Deliver" \notin StepOps
    BY DEF StepOps, ShellOps
  <2> QED BY <2>1, <2>2 DEF Items
<1>5. draining /\ \A u \in Threads : u # t => ~At(u, "Deliver")
  BY <1>1 DEF Inv, DrainInv
<1>6. PICK x \in EdgeStates, y \in EdgeStates :
        Delivered(edges, x) /\ Run(queue, y, EdgeOf(rs)) /\ Legal(x, f, y)
  BY <1>1, <1>3 DEF Inv, LedgerInv
<1>7. edges' \in Seq(Staged) /\ EdgesWellFormed' /\ Delivered(edges', y)
  <2>1. CASE f.op \in EdgeOps
    <3>1. edges' = Append(edges, f)
      BY <1>3, <2>1 DEF Deliver
    <3> QED BY <1>2, <1>4, <1>6, <2>1, <3>1, OneMoreEdge
  <2>2. CASE f.op \notin EdgeOps
    <3>1. edges' = edges
      BY <1>3, <2>2 DEF Deliver
    <3>2. y = x
      BY <1>6, <2>2 DEF Legal, EdgeOps
    <3> QED BY <1>2, <1>6, <3>1, <3>2 DEF EdgesWellFormed
  <2> QED BY <2>1, <2>2
<1>8. CASE queue = <<>>
  <2>1. Skip(t) /\ draining' = FALSE /\ queue' = queue
    BY <1>8 DEF Deliver
  <2>2. /\ thr[t] # <<>> /\ After(t) = Rest(t) /\ After(t) \in Seq(Items) /\ ~At(t, "Store")
    BY <1>1, <1>2, AtStep
  <2>3. PICK P : P = <<>>
    OBVIOUS
  <2>4. /\ Admissible(t, P) /\ P \in Seq(Items) /\ \A i \in 1 .. Len(P) : P[i].op # "Deliver"
    BY <2>2, <2>3, QuietNothing, QuietAdmissible
  <2>5. P \o After(t) = Rest(t)
    BY <2>2, <2>3
  <2>6. thr' = [thr EXCEPT ![t] = P \o After(t)]
    BY <2>1, <2>5 DEF Skip
  <2>7. ThreadInv'
    <3>1. rs'.epoch \in Nat /\ rs.epoch <= rs'.epoch
      BY <1>1, <1>2
    <3> QED BY <1>2, <2>4, <2>6, <3>1, ThreadStep
  <2>8. ReplacedSessionsEnd'
    BY <1>1, <2>2, <2>4, <2>6, <2>7, SessionsStay
  <2>9. \A u \in Threads : ~At(u, "Deliver")'
    <3>1. /\ ~At(t, "Deliver")'
          /\ \A u \in Threads : u # t =>
                (At(u, "Deliver")' <=> At(u, "Deliver")) /\ (At(u, "Deliver") => Arg(u)' = Arg(u))
      BY <1>2, <2>4, <2>6, HeadsStay
    <3> QED BY <1>5, <3>1
  <2>10. DrainInv' /\ StrandInv'
    BY <1>8, <2>1, <2>9 DEF DrainInv, StrandInv
  <2>11. TypeInv'
    BY <1>1, <1>7, <2>1 DEF Inv, TypeInv
  <2>12. Run(queue', y, EdgeOf(rs)')
    BY <1>1, <1>6, <2>1 DEF EdgeOf
  <2>13. LedgerInv'
    BY <1>7, <2>9, <2>12, Zenon DEF LedgerInv
  <2> QED BY <1>7, <2>7, <2>8, <2>10, <2>11, <2>13 DEF Inv
<1>9. CASE queue # <<>>
  <2>1. /\ thr' = [thr EXCEPT ![t] = <<Fx("Deliver", Head(queue))>> \o Rest(t)]
        /\ queue' = Tail(queue) /\ draining' = draining
    BY <1>9 DEF Deliver
  <2>2. /\ ThreadInv' /\ ReplacedSessionsEnd'
        /\ At(t, "Deliver")' /\ Arg(t)' = Head(queue)
        /\ \A u \in Threads : u # t =>
              (At(u, "Deliver")' <=> At(u, "Deliver")) /\ (At(u, "Deliver") => Arg(u)' = Arg(u))
    BY <1>1, <1>9, <2>1, TakesFirst
  <2>3. \A u \in Threads : At(u, "Deliver")' => u = t
    BY <1>5, <2>2
  <2>4. DrainInv' /\ StrandInv'
    BY <1>5, <2>1, <2>2, <2>3 DEF DrainInv, StrandInv
  <2>5. TypeInv'
    <3>1. queue' \in Seq(Staged)
      BY <1>2, <1>9, <2>1
    <3> QED BY <1>1, <1>7, <3>1 DEF Inv, TypeInv
  <2>6. PICK z \in EdgeStates : Legal(y, Head(queue), z) /\ Run(Tail(queue), z, EdgeOf(rs))
    BY <1>2, <1>6, <1>9, RunFirst
  <2>7. /\ Run(queue', z, EdgeOf(rs)')
        /\ \A u \in Threads : At(u, "Deliver")' => Legal(y, Arg(u)', z)
        /\ ~(\A u \in Threads : ~At(u, "Deliver")')
    BY <1>1, <2>1, <2>2, <2>3, <2>6 DEF EdgeOf
  <2>8. LedgerInv'
    BY <1>7, <2>7, Zenon DEF LedgerInv
  <2> QED BY <1>7, <2>2, <2>4, <2>5, <2>8 DEF Inv
<1> QED BY <1>8, <1>9

-----------------------------------------------------------------------------
\* A loop is spawned into a thread that has not run yet.
LEMMA SpawnLoopInv ==
  ASSUME Inv, NEW t \in Threads, SpawnReconnectLoop(t)
  PROVE  Inv'
<1>1. /\ At(t, Spawn) /\ rs' = rs /\ gen' = gen /\ queue' = queue /\ edges' = edges
      /\ draining' = draining /\ armed' = armed /\ sess' = sess /\ slot' = slot /\ disc' = disc
  BY DEF SpawnReconnectLoop, Spawn
<1>2. ThreadInv /\ rs.epoch \in Nat /\ thr \in [Threads -> Seq(Items)]
  BY DEF Inv, TypeInv, ReconnectStates, ThreadInv
<1>3. "Deliver" # Spawn /\ "Store" # Spawn /\ "Flush" # Spawn /\ Spawn \in StepOps /\ "LoopStarted" # Spawn
  BY DEF Spawn, StepOps, ShellOps
<1>4. PICK m, R : m \in Int /\ m = Arg(t) /\ R = Rest(t) /\ R = After(t)
  BY <1>1, <1>2, <1>3, AtStep
<1>5. /\ thr[t] # <<>> /\ R \in Seq(Items) /\ ~At(t, "Store") /\ ~At(t, "Deliver")
      /\ Head(thr[t]).op = Spawn /\ Head(thr[t]).n = m
  BY <1>1, <1>2, <1>3, <1>4, AtStep
<1>6. m \in 1 .. MaxEpoch
  BY <1>4 DEF SpawnReconnectLoop
<1>7. Inv'
  <2>1. PICK l \in Threads : l = Loop(m)
    BY <1>6, ThreadNames
  <2>2. /\ 1 \in 1 .. Len(thr[t]) /\ thr[t][1].op = Spawn /\ thr[t][1].n = m
    BY <1>2, <1>5
  <2>3. thr[l] = <<>> /\ m <= rs.epoch
    BY <1>2, <1>6, <2>1, <2>2 DEF ThreadInv, SpawnInv
  <2>4. l # t
    BY <1>5, <2>3
  <2>5. PICK h : h = Fx("LoopStarted", 0)
    OBVIOUS
  <2>6. h \in Items /\ h.op = "LoopStarted"
    <3>1. h = [op |-> "LoopStarted", n |-> 0]
      BY <2>5 DEF Fx
    <3>2. "LoopStarted" \in StepOps
      BY DEF StepOps
    <3> QED BY <3>1, <3>2 DEF Items
  <2>7. /\ thr' \in [Threads -> Seq(Items)] /\ thr'[t] = R /\ thr'[l] = <<h>>
        /\ \A u \in Threads : u # t /\ u # l => thr'[u] = thr[u]
    <3>1. thr' = [thr EXCEPT ![t] = R, ![l] = <<h>>] /\ <<h>> \in Seq(Items)
      BY <1>4, <2>1, <2>5, <2>6 DEF SpawnReconnectLoop
    <3> QED BY <1>2, <1>5, <2>4, <3>1
  <2>8. \A i \in 1 .. Len(R) : R[i] = thr[t][i + 1] /\ i + 1 \in 1 .. Len(thr[t]) /\ i + 1 # 1
    BY <1>2, <1>4, AfterItems
  <2>9. Len(R) = Len(thr[t]) - 1
    BY <1>2, <1>4, <1>5, AfterItems
  <2>10. Len(<<h>>) = 1 /\ \A i \in 1 .. Len(<<h>>) : i = 1 /\ <<h>>[i] = h
    OBVIOUS
  <2>11. ShapeInv'
    <3> SUFFICES ASSUME NEW u \in Threads, NEW i \in 1 .. Len(thr'[u])
                 PROVE  /\ thr'[u][i].op \in LastOps => i = Len(thr'[u])
                        /\ thr'[u][i].op = "Deliver" => i = 1
      BY DEF ShapeInv
    <3>1. CASE u = l
      BY <2>6, <2>7, <2>10, <3>1
    <3>2. CASE u = t
      <4>1. i \in 1 .. Len(R) /\ thr'[u][i] = R[i] /\ Len(thr'[u]) = Len(R)
        BY <2>7, <3>2
      <4>2. /\ thr[t][i + 1].op \in LastOps => i + 1 = Len(thr[t])
            /\ thr[t][i + 1].op = "Deliver" => i + 1 = 1
        BY <1>2, <2>8, <4>1 DEF ThreadInv, ShapeInv
      <4> QED BY <2>8, <2>9, <4>1, <4>2
    <3>3. CASE u # l /\ u # t
      BY <1>2, <2>7, <3>3 DEF ThreadInv, ShapeInv
    <3> QED BY <3>1, <3>2, <3>3
  <2> DEFINE Was(u, i, a) == /\ a \in 1 .. Len(thr[u]) /\ thr'[u][i] = thr[u][a]
                             /\ (u = t => a = i + 1 /\ a # 1) /\ (u # t => a = i)
  <2>12. ASSUME NEW u \in Threads, NEW i \in 1 .. Len(thr'[u]), u # l
         PROVE  \E a : Was(u, i, a)
    <3>1. CASE u = t
      <4>1. i \in 1 .. Len(R) /\ thr'[u][i] = R[i]
        BY <2>7, <3>1
      <4>2. Was(u, i, i + 1)
        BY <2>8, <3>1, <4>1
      <4> QED BY <4>2
    <3>2. CASE u # t
      <4>1. Was(u, i, i)
        BY <2>7, <2>12, <3>2
      <4> QED BY <4>1
    <3> QED BY <3>1, <3>2
  <2>13. ASSUME NEW u \in Threads, NEW i \in 1 .. Len(thr'[u]), thr'[u][i].op = Spawn
         PROVE  u # l
    BY <1>3, <2>6, <2>7, <2>10, <2>13
  <2>14. \A u \in Threads, v \in Threads : \A a \in 1 .. Len(thr[u]), b \in 1 .. Len(thr[v]) :
           thr[u][a].op = Spawn /\ thr[v][b].op = Spawn /\ thr[u][a].n = thr[v][b].n
             => u = v /\ a = b
    BY <1>2, Zenon DEF ThreadInv, SpawnInv
  <2>15. \A e \in 1 .. MaxEpoch : e # m /\ thr[Loop(e)] = <<>> => thr'[Loop(e)] = <<>>
    <3> TAKE e \in 1 .. MaxEpoch
    <3> HAVE e # m /\ thr[Loop(e)] = <<>>
    <3>1. Loop(e) \in Threads /\ Loop(e) # l
      BY <2>1, ThreadNames
    <3>2. Loop(e) # t
      BY <1>5
    <3> QED BY <2>7, <3>1, <3>2
  <2>16. SpawnInv'
    <3>1. \A e \in 1 .. MaxEpoch : e > rs'.epoch => thr'[Loop(e)] = <<>>
      <4> TAKE e \in 1 .. MaxEpoch
      <4> HAVE e > rs'.epoch
      <4>1. e > rs.epoch /\ e # m
        BY <1>1, <1>2, <2>3
      <4>2. thr[Loop(e)] = <<>>
        BY <1>2, <4>1 DEF ThreadInv, SpawnInv
      <4> QED BY <2>15, <4>1, <4>2
    <3>2. ASSUME NEW u \in Threads, NEW i \in 1 .. Len(thr'[u]), thr'[u][i].op = Spawn
          PROVE  /\ thr'[u][i].n <= rs'.epoch
                 /\ thr'[u][i].n \in 1 .. MaxEpoch => thr'[Loop(thr'[u][i].n)] = <<>>
      <4>1. PICK a : Was(u, i, a)
        BY <2>12, <2>13, <3>2
      <4>2. PICK e : e = thr'[u][i].n
        OBVIOUS
      <4>3. thr[u][a].op = Spawn /\ thr[u][a].n = e
        BY <3>2, <4>1, <4>2
      <4>4. e <= rs.epoch /\ (e \in 1 .. MaxEpoch => thr[Loop(e)] = <<>>)
        BY <1>2, <4>1, <4>3 DEF ThreadInv, SpawnInv
      <4>5. e # m
        BY <2>2, <2>14, <4>1, <4>3
      <4> QED BY <1>1, <2>15, <4>2, <4>4, <4>5
    <3>3. ASSUME NEW u \in Threads, NEW v \in Threads, NEW i \in 1 .. Len(thr'[u]),
                 NEW j \in 1 .. Len(thr'[v]), thr'[u][i].op = Spawn, thr'[v][j].op = Spawn,
                 thr'[u][i].n = thr'[v][j].n
          PROVE  u = v /\ i = j
      <4>1. PICK a : Was(u, i, a)
        BY <2>12, <2>13, <3>3
      <4>2. PICK b : Was(v, j, b)
        BY <2>12, <2>13, <3>3
      <4>3. u = v /\ a = b
        BY <2>14, <3>3, <4>1, <4>2
      <4> QED BY <4>1, <4>2, <4>3
    <3> QED BY <3>1, <3>2, <3>3 DEF SpawnInv
  <2>17. ThreadInv'
    BY <2>7, <2>11, <2>16 DEF ThreadInv
  <2>18. \A u \in Threads :
           (At(u, "Deliver")' <=> At(u, "Deliver")) /\ (At(u, "Deliver") => Arg(u)' = Arg(u))
    <3> TAKE u \in Threads
    <3>1. CASE u = l
      <4>1. <<h>> # <<>> /\ Head(<<h>>) = h
        OBVIOUS
      <4> QED BY <2>3, <2>6, <2>7, <3>1, <4>1 DEF At, Idle
    <3>2. CASE u = t
      <4>1. R # <<>> => 1 \in 1 .. Len(R) /\ Head(R) = R[1]
        BY <1>5
      <4>2. \A i \in 1 .. Len(R) : R[i].op # "Deliver"
        BY <1>2, <2>8 DEF ThreadInv, ShapeInv
      <4>3. ~At(u, "Deliver")'
        BY <2>7, <3>2, <4>1, <4>2 DEF At, Idle
      <4> QED BY <1>5, <3>2, <4>3
    <3>3. CASE u # l /\ u # t
      BY <2>7, <3>3 DEF At, Idle, Arg
    <3> QED BY <3>1, <3>2, <3>3
  <2>19. DrainInv'
    <3>0. draining' => \E u \in Threads : At(u, "Deliver")'
      BY <1>1, <2>18 DEF Inv, DrainInv
    <3> SUFFICES ASSUME NEW u \in Threads, At(u, "Deliver")'
                 PROVE  draining' /\ \A v \in Threads : At(v, "Deliver")' => v = u
      BY <3>0 DEF DrainInv
    <3>1. draining /\ \A v \in Threads : At(v, "Deliver") => v = u
      BY <2>18 DEF Inv, DrainInv
    <3> QED BY <1>1, <2>18, <3>1
  <2>20. LedgerInv'
    <3>1. PICK x \in EdgeStates, y \in EdgeStates :
            /\ Delivered(edges, x) /\ Run(queue, y, EdgeOf(rs))
            /\ (\A u \in Threads : ~At(u, "Deliver")) => y = x
            /\ \A u \in Threads : At(u, "Deliver") => Legal(x, Arg(u), y)
      BY DEF Inv, LedgerInv
    <3>2. Delivered(edges', x) /\ Run(queue', y, EdgeOf(rs)')
      BY <1>1, <3>1 DEF EdgeOf
    <3>3. (\A u \in Threads : ~At(u, "Deliver")') => y = x
      BY <2>18, <3>1
    <3>4. \A u \in Threads : At(u, "Deliver")' => Legal(x, Arg(u)', y)
      <4> TAKE u \in Threads
      <4> HAVE At(u, "Deliver")'
      <4>1. At(u, "Deliver") /\ Arg(u)' = Arg(u)
        BY <2>18
      <4> QED BY <3>1, <4>1
    <3> QED BY <3>2, <3>3, <3>4, Zenon DEF LedgerInv
  <2>21. TypeInv' /\ EdgesWellFormed'
    BY <1>1 DEF Inv, TypeInv, EdgesWellFormed
  <2>22. ASSUME NEW f, f.op # Spawn, Waits(f)
         PROVE  Waits(f)'
    <3>2. PICK u \in Threads : \E i \in 1 .. Len(thr[u]) : thr[u][i] = f
      BY <2>22 DEF Waits
    <3>3. PICK i \in 1 .. Len(thr[u]) : thr[u][i] = f
      BY <3>2
    <3>4. u # l
      BY <2>3, <3>3
    <3>5. CASE u # t
      BY <2>7, <3>3, <3>4, <3>5 DEF Waits
    <3>6. CASE u = t
      <4>1. i # 1
        BY <2>2, <2>22, <3>3, <3>6
      <4>2. PICK k \in 1 .. Len(R) : k + 1 = i
        <5>1. i - 1 \in 1 .. Len(R) /\ (i - 1) + 1 = i
          BY <1>2, <1>5, <2>9, <3>3, <3>6, <4>1
        <5> QED BY <5>1
      <4>3. thr'[t][k] = f /\ k \in 1 .. Len(thr'[t])
        BY <2>7, <2>8, <3>3, <3>6, <4>2
      <4> QED BY <4>3 DEF Waits
    <3> QED BY <3>5, <3>6
  <2>23. ReplacedSessionsEnd'
    <3>1. \A g \in Generations :
            (\E u \in Threads : Fx("Store", g) \in {thr'[u][i] : i \in DOMAIN thr'[u]}) <=> Stored(g)'
      BY <2>7, WhereItWaits DEF Stored, Waits
    <3>2. \A g \in Generations :
            (\E u \in Threads : Fx("Store", g) \in {thr[u][i] : i \in DOMAIN thr[u]}) <=> Stored(g)
      BY <1>2, WhereItWaits DEF Stored, Waits
    <3>3. \A g \in Generations : sess[g] \in {"dialing", "up"} /\ g # slot => g \in disc \/ Stored(g)
      BY <3>2 DEF Inv, ReplacedSessionsEnd
    <3>4. \A g \in Generations : sess'[g] \in {"dialing", "up"} /\ g # slot' => g \in disc' \/ Stored(g)'
      <4> TAKE g \in Generations
      <4> HAVE sess'[g] \in {"dialing", "up"} /\ g # slot'
      <4>1. g \in disc \/ Stored(g)
        BY <1>1, <3>3
      <4>2. PICK f : f = Fx("Store", g)
        OBVIOUS
      <4>3. f.op # Spawn
        BY <4>2 DEF Fx, Spawn
      <4>4. Waits(f) => Waits(f)'
        BY <2>22, <4>3
      <4>5. Stored(g) => Stored(g)'
        BY <4>2, <4>4 DEF Stored
      <4> QED BY <1>1, <4>1, <4>5
    <3> QED BY <3>1, <3>4 DEF ReplacedSessionsEnd
  <2>24. StrandInv'
    <3>1. PICK f : f = Flush
      OBVIOUS
    <3>2. f.op # Spawn
      BY <3>1 DEF Flush, Fx, Spawn
    <3>3. Waits(f) => Waits(f)'
      BY <2>22, <3>2
    <3>4. Waits(f)' = Waits(Flush)' /\ Waits(f) = Waits(Flush)
      BY <3>1 DEF Waits
    <3> QED BY <1>1, <3>3, <3>4 DEF Inv, StrandInv
  <2> QED BY <2>17, <2>19, <2>20, <2>21, <2>23, <2>24 DEF Inv
<1> QED BY <1>7

-----------------------------------------------------------------------------
(***************************************************************************)
(* The actions.                                                            *)
(***************************************************************************)
\* One step of a program.
LEMMA ItemOf ==
  ASSUME NEW op \in StepOps, NEW n \in Int
  PROVE  Fx(op, n) \in Items /\ Fx(op, n).op = op
<1>1. PICK h : h = [op |-> op, n |-> n]
  OBVIOUS
<1>2. h \in [op : StepOps, n : Int] /\ h.op = op
  BY <1>1
<1> QED BY <1>1, <1>2 DEF Items, Fx

LEMMA QuietOne ==
  ASSUME NEW op \in QuietOps, NEW n \in Int
  PROVE  Quiet(<<Fx(op, n)>>)
<1>1. PICK h, P : h = Fx(op, n) /\ P = <<h>>
  OBVIOUS
<1>2. h \in Items /\ h.op = op
  BY <1>1, ItemOf, QuietOpsAre
<1>3. P \in Seq(Items) /\ \A i \in 1 .. Len(P) : P[i] = h
  BY <1>1, <1>2
<1> QED BY <1>1, <1>2, <1>3 DEF Quiet

\* The background of the app changes, which no edge depends on.
LEMMA BackgroundSound ==
  ASSUME rs \in ReconnectStates, WellFormed(rs), NEW b \in Backgrounds,
         rs' = [rs EXCEPT !.background = b]
  PROVE  Sound(rs, rs') /\ EdgeOf(rs') = EdgeOf(rs)
<1>1. PICK n : n = rs'
  OBVIOUS
<1>2. /\ n \in ReconnectStates
      /\ n.phase = rs.phase /\ n.epoch = rs.epoch /\ n.edge = rs.edge
      /\ n.lastEst = rs.lastEst /\ n.active = rs.active /\ n.clock = rs.clock
  BY <1>1 DEF ReconnectStates
<1> QED BY <1>1, <1>2, HarmlessSound

LEMMA SessionsUnchanged ==
  ASSUME Inv, sess' = sess, slot' = slot, disc' = disc
  PROVE  SessionsKept
BY DEF SessionsKept, Inv, TypeInv

\* The calls of the app.
LEMMA UiCallInv ==
  ASSUME Inv, UiCall
  PROVE  Inv'
<1>1. /\ rs \in ReconnectStates /\ WellFormed(rs) /\ ThreadInv /\ armed \in Int
      /\ thr \in [Threads -> Seq(Items)]
  BY DEF Inv, TypeInv, ThreadInv
<1>2. Idle(Ui) /\ thr[Ui] = <<>> /\ After(Ui) = <<>> /\ \A op : ~At(Ui, op)
  BY DEF UiCall, BeginConnect, Disconnect, Cancel, EnterBackground, Suspend, EnterForeground,
         Idle, After, At
<1>3. Ui \in Threads /\ \A e \in 1 .. MaxEpoch : Ui # Loop(e)
  BY ThreadNames
<1>4. SessionsKept /\ armed' = armed /\ draining' = draining /\ edges' = edges
  <2>1. sess' = sess /\ slot' = slot /\ disc' = disc
    BY DEF UiCall, BeginConnect, Disconnect, Cancel, EnterBackground, Suspend, EnterForeground
  <2>2. armed' = armed /\ draining' = draining /\ edges' = edges
    BY DEF UiCall, BeginConnect, Disconnect, Cancel, EnterBackground, Suspend, EnterForeground
  <2> QED BY <2>1, <2>2, SessionsUnchanged
<1>5. CASE BeginConnect
  <2>1. PICK M : M = <<Fx("NewAdapter", Manual)>>
    OBVIOUS
  <2>2. Quiet(M)
    <3>1. "NewAdapter" \in QuietOps /\ Manual \in Int
      BY DEF QuietOps, Manual
    <3> QED BY <2>1, <3>1, QuietOne
  <2>3. M = M \o After(Ui)
    BY <1>2, <2>2, ConcatEmptySeq DEF Quiet
  <2>4. Plain(rs, ManualConnectStarted(rs))
    BY <1>1, <1>5, ManualConnectPlain DEF BeginConnect
  <2>5. ApplyReconnect(Ui, ManualConnectStarted(rs), M)
    BY <1>5, <2>1 DEF BeginConnect
  <2> QED BY <1>2, <1>3, <1>4, <2>2, <2>3, <2>4, <2>5, ApplyStep
<1>6. CASE Disconnect \/ Cancel
  <2>1. PICK out : Plain(rs, out) /\ ApplyReconnect(Ui, out, <<>>)
    BY <1>1, <1>6, UserDisconnectPlain, CancelPlain DEF Disconnect, Cancel
  <2>2. <<>> = <<>> \o After(Ui) /\ Quiet(<<>>)
    BY <1>2, QuietNothing
  <2> QED BY <1>2, <1>3, <1>4, <2>1, <2>2, ApplyStep
<1>7. CASE EnterBackground \/ Suspend
  <2>1. PICK b \in Backgrounds : rs' = [rs EXCEPT !.background = b]
    BY <1>7 DEF EnterBackground, Suspend, Backgrounds
  <2>2. Sound(rs, rs') /\ EdgeOf(rs') = EdgeOf(rs)
    BY <1>1, <2>1, BackgroundSound
  <2>3. gen' = gen /\ queue' = queue /\ thr' = thr
    BY <1>7 DEF EnterBackground, Suspend
  <2>4. thr' = [thr EXCEPT ![Ui] = <<>>]
    BY <1>1, <1>2, <1>3, <2>3
  <2> QED BY <1>1, <1>2, <1>3, <1>4, <2>2, <2>3, <2>4, IdleStep
<1>8. CASE EnterForeground
  <2>1. rs' = [rs EXCEPT !.background = "Foreground"] /\ "Foreground" \in Backgrounds
    BY <1>8 DEF EnterForeground, Backgrounds
  <2>2. Sound(rs, rs') /\ EdgeOf(rs') = EdgeOf(rs)
    BY <1>1, <2>1, BackgroundSound
  <2>3. gen' = gen /\ queue' = queue
    BY <1>8 DEF EnterForeground
  <2>4. PICK h : h = Fx("StartAttempt", Foreground)
    OBVIOUS
  <2>5. h \in Items /\ h.op # "Deliver" /\ h.op # Spawn
    <3>1. "StartAttempt" \in StepOps /\ Foreground \in Int
      BY DEF StepOps, ShellOps, Foreground
    <3>2. h \in Items /\ h.op = "StartAttempt"
      BY <2>4, <3>1, ItemOf
    <3> QED BY <3>2 DEF Spawn
  <2>6. PICK P : (P = <<>> \/ P = <<h>>) /\ thr' = [thr EXCEPT ![Ui] = P]
    BY <1>8, <2>4 DEF EnterForeground
  <2>7. P = <<>> \/ \E k \in Items : P = <<k>> /\ k.op # "Deliver" /\ k.op # Spawn
    BY <2>5, <2>6
  <2> QED BY <1>1, <1>2, <1>3, <1>4, <2>2, <2>3, <2>6, <2>7, IdleStep
<1> QED BY <1>5, <1>6, <1>7, <1>8 DEF UiCall

\* The path callback of the operating system and the debounce timer.
LEMMA PathInv ==
  ASSUME Inv, PathSatisfied \/ PathLost \/ DebounceFires
  PROVE  Inv'
<1>1. /\ rs \in ReconnectStates /\ WellFormed(rs) /\ armed \in Int /\ gen \in Int
      /\ thr \in [Threads -> Seq(Items)] /\ rs.phase \in Phases
  BY DEF Inv, TypeInv, ThreadInv, ReconnectStates
<1>2. /\ rs' = rs /\ gen' = gen /\ queue' = queue /\ draining' = draining /\ edges' = edges
      /\ sess' = sess /\ slot' = slot /\ disc' = disc
  BY DEF PathSatisfied, PathLost, DebounceFires
<1>3. Sound(rs, rs') /\ EdgeOf(rs') = EdgeOf(rs) /\ SessionsKept
  BY <1>1, <1>2, IgnoredPlain, SessionsUnchanged
<1>4. armed' \in Int
  BY <1>1 DEF PathSatisfied, PathLost, DebounceFires, NoGeneration
<1>5. ASSUME NEW p \in Phases, NEW g \in Int
      PROVE  Fx("LostCheck", <<p, g>>) \in Items /\ Fx("LostCheck", <<p, g>>).op = "LostCheck"
  <2>1. PICK c \in Phases \X Int : c = <<p, g>>
    OBVIOUS
  <2>2. PICK h : h = [op |-> "LostCheck", n |-> c]
    OBVIOUS
  <2>3. h \in [op : {"LostCheck"}, n : Phases \X Int] /\ h.op = "LostCheck"
    BY <2>2
  <2>4. Fx("LostCheck", <<p, g>>) = h
    BY <2>1, <2>2 DEF Fx
  <2> QED BY <2>3, <2>4 DEF Items
<1>6. ASSUME NEW op \in {"WakeIfActive", "ObservePath"}, NEW n \in Int
      PROVE  Fx(op, n) \in Items /\ Fx(op, n).op = op
  <2>1. op \in StepOps
    BY DEF StepOps
  <2> QED BY <2>1, ItemOf
<1>7. \A op \in {"LostCheck", "WakeIfActive", "ObservePath"} : op # "Deliver" /\ op # Spawn
  BY DEF Spawn
<1>8. PICK t \in {Os, Debouncer}, h \in Items :
        /\ Idle(t) /\ thr' = [thr EXCEPT ![t] = <<h>>]
        /\ h.op \in {"LostCheck", "WakeIfActive", "ObservePath"}
  <2>1. CASE PathSatisfied
    <3>1. NoGeneration \in Int /\ 0 \in Int
      BY DEF NoGeneration
    <3>2. PICK h : /\ h = Fx("WakeIfActive", 0) \/ h = Fx("ObservePath", NoGeneration)
                   /\ thr' = [thr EXCEPT ![Os] = <<h>>] /\ Idle(Os)
      BY <2>1 DEF PathSatisfied
    <3>3. h \in Items /\ h.op \in {"LostCheck", "WakeIfActive", "ObservePath"}
      BY <1>6, <3>1, <3>2
    <3> QED BY <3>2, <3>3
  <2>2. CASE PathLost
    <3>1. PICK h : /\ h = Fx("LostCheck", <<rs.phase, gen>>) \/ h = Fx("ObservePath", gen)
                   /\ thr' = [thr EXCEPT ![Os] = <<h>>] /\ Idle(Os)
      BY <2>2 DEF PathLost
    <3>2. h \in Items /\ h.op \in {"LostCheck", "WakeIfActive", "ObservePath"}
      BY <1>1, <1>5, <1>6, <3>1
    <3> QED BY <3>1, <3>2
  <2>3. CASE DebounceFires
    <3>1. PICK h : /\ h = Fx("LostCheck", <<"Connected", armed>>)
                   /\ thr' = [thr EXCEPT ![Debouncer] = <<h>>] /\ Idle(Debouncer)
      BY <2>3 DEF DebounceFires
    <3>2. "Connected" \in Phases
      BY DEF Phases
    <3>3. h \in Items /\ h.op \in {"LostCheck", "WakeIfActive", "ObservePath"}
      BY <1>1, <1>5, <3>1, <3>2
    <3> QED BY <3>1, <3>3
  <2> QED BY <2>1, <2>2, <2>3
<1>9. t \in Threads /\ \A e \in 1 .. MaxEpoch : t # Loop(e)
  BY <1>8, ThreadNames
<1>10. PICK P : P = <<h>>
  OBVIOUS
<1>11. \E k \in Items : P = <<k>> /\ k.op # "Deliver" /\ k.op # Spawn
  BY <1>7, <1>8, <1>10
<1>12. thr' = [thr EXCEPT ![t] = P]
  BY <1>8, <1>10
<1> QED BY <1>2, <1>3, <1>4, <1>8, <1>9, <1>11, <1>12, IdleStep

\* Effects that only touch the path observer, the wake-up permit or the stored
\* session.
LEMMA SmallEffectInv ==
  ASSUME Inv, NEW t \in Threads,
         \/ InvalidatePathObserver(t) \/ WakeReconnectLoop(t) \/ WakeIfActive(t)
         \/ ObservePath(t) \/ DisconnectCurrentSession(t)
  PROVE  Inv'
<1>1. /\ rs' = rs /\ gen' = gen /\ queue' = queue /\ draining' = draining /\ edges' = edges
      /\ sess' = sess /\ slot' = slot /\ Skip(t)
  BY DEF InvalidatePathObserver, WakeReconnectLoop, WakeIfActive, ObservePath,
         DisconnectCurrentSession
<1>2. disc \subseteq disc'
  BY DEF InvalidatePathObserver, WakeReconnectLoop, WakeIfActive, ObservePath,
         DisconnectCurrentSession
<1>3. PICK op \in StepOps : At(t, op) /\ op # "Deliver" /\ op # "Store" /\ op # "Flush"
  <2>1. \A op \in {"InvalidatePathObserver", "WakeReconnectLoop", "WakeIfActive", "ObservePath",
                   "DisconnectSession", "AbortInFlightAttempt"} :
          op \in StepOps /\ op # "Deliver" /\ op # "Store" /\ op # "Flush"
    BY DEF StepOps, ShellOps
  <2>2. \E op \in {"InvalidatePathObserver", "WakeReconnectLoop", "WakeIfActive", "ObservePath",
                   "DisconnectSession", "AbortInFlightAttempt"} : At(t, op)
    BY DEF InvalidatePathObserver, WakeReconnectLoop, WakeIfActive, ObservePath,
           DisconnectCurrentSession
  <2> QED BY <2>1, <2>2
<1>4. ThreadInv /\ armed \in Int
  BY DEF Inv, TypeInv
<1>5. Arg(t) \in Int
  BY <1>3, <1>4, AtStep
<1>6. armed' \in Int
  BY <1>4, <1>5 DEF InvalidatePathObserver, WakeReconnectLoop, WakeIfActive, ObservePath,
                    DisconnectCurrentSession, NoGeneration
<1> QED BY <1>1, <1>2, <1>3, <1>6, SkipStep

\* build_and_store_session puts the new session in the slot.
LEMMA StoreInv ==
  ASSUME Inv, NEW t \in Threads, StoreSession(t)
  PROVE  Inv'
<1>1. /\ rs' = rs /\ gen' = gen /\ queue' = queue /\ draining' = draining /\ edges' = edges
      /\ sess' = sess /\ slot' = Arg(t) /\ Skip(t) /\ armed' = armed /\ At(t, "Store")
      /\ disc' = disc \cup {g \in {slot} : g # NoGeneration /\ sess[g] # "dead"}
  BY DEF StoreSession
<1>2. armed' \in Int
  BY <1>1 DEF Inv, TypeInv
<1>3. \A g \in Generations : sess[g] \in {"dialing", "up"} /\ g # slot' =>
        g \in disc' \/ (g # slot /\ (g \in disc => g \in disc') /\ ~("Store" = "Store" /\ Arg(t) = g))
  <2> TAKE g \in Generations
  <2> HAVE sess[g] \in {"dialing", "up"} /\ g # slot'
  <2>1. g # NoGeneration
    BY OrchestratorAssumption DEF Generations, NoGeneration
  <2> QED BY <1>1, <2>1
<1> QED BY <1>1, <1>2, <1>3, SkipStep

\* The transport's connect() returned a session: it is still to be stored.
LEMMA SpawnedInv ==
  ASSUME Inv, NEW t \in Threads, SessionSpawned(t)
  PROVE  Inv'
<1>1. /\ rs' = rs /\ gen' = gen /\ queue' = queue /\ draining' = draining /\ edges' = edges
      /\ slot' = slot /\ disc' = disc /\ armed' = armed /\ At(t, "Build")
      /\ sess' = [sess EXCEPT ![Arg(t)] = "dialing"]
      /\ thr' = [thr EXCEPT ![t] = <<Fx("Store", Arg(t))>> \o Rest(t)]
  BY DEF SessionSpawned
<1>2. ThreadInv /\ armed' \in Int /\ Sound(rs, rs') /\ EdgeOf(rs') = EdgeOf(rs)
  BY <1>1, IgnoredPlain DEF Inv, TypeInv
<1>3. "Build" \in StepOps /\ "Store" \in StepOps /\ "Store" \notin LastOps /\ "Store" # Spawn
  BY DEF StepOps, LastOps, Spawn
<1>4. /\ thr[t] # <<>> /\ After(t) = Rest(t) /\ After(t) \in Seq(Items) /\ Arg(t) \in Int
      /\ ~At(t, "Deliver") /\ ~At(t, "Store") /\ ~At(t, "Flush")
  BY <1>1, <1>2, <1>3, AtStep
<1>5. PICK h, P : h = Fx("Store", Arg(t)) /\ P = <<h>>
  OBVIOUS
<1>6. h \in Items /\ h.op = "Store"
  BY <1>3, <1>4, <1>5, ItemOf
<1>7. P \in Seq(Items) /\ Len(P) = 1 /\ \A i \in 1 .. Len(P) : P[i] = h
  BY <1>5, <1>6
<1>8. Admissible(t, P) /\ \A i \in 1 .. Len(P) : P[i].op # "Deliver"
  BY <1>3, <1>4, <1>6, <1>7 DEF Admissible
<1>9. sess \in [Generations -> Sessions] /\ sess' \in [Generations -> Sessions]
  <2>1. sess \in [Generations -> Sessions]
    BY DEF Inv, TypeInv
  <2> QED BY <1>1, <2>1 DEF Sessions
<1>10. \A g \in Generations : sess'[g] \in {"dialing", "up"} /\ g # slot' =>
         \/ g \in disc'
         \/ \E i \in 1 .. Len(P) : P[i] = Fx("Store", g)
         \/ /\ sess[g] \in {"dialing", "up"} /\ g # slot /\ (g \in disc => g \in disc')
            /\ ~(At(t, "Store") /\ Arg(t) = g)
  <2> TAKE g \in Generations
  <2> HAVE sess'[g] \in {"dialing", "up"} /\ g # slot'
  <2>1. CASE g = Arg(t)
    <3>1. 1 \in 1 .. Len(P) /\ P[1] = Fx("Store", g)
      BY <1>5, <1>7, <2>1
    <3> QED BY <3>1
  <2>2. CASE g # Arg(t)
    BY <1>1, <1>4, <1>9, <2>2
  <2> QED BY <2>1, <2>2
<1>11. thr' = [thr EXCEPT ![t] = P \o After(t)]
  BY <1>1, <1>4, <1>5
<1> QED BY <1>1, <1>2, <1>4, <1>8, <1>9, <1>10, <1>11, GivenStep

\* connect() failed at once.
LEMMA RefusedInv ==
  ASSUME Inv, NEW t \in Threads, SessionRefused(t)
  PROVE  Inv'
<1>1. ThreadInv /\ rs \in ReconnectStates /\ WellFormed(rs) /\ sess \in [Generations -> Sessions]
  BY DEF Inv, TypeInv
<1>2. PICK out :
        /\ Plain(rs, out) /\ ApplyReconnect(t, out, Rest(t))
    <2>1. PICK out :
            /\ \/ out = ManualConnectFailedSync(rs) \/ out = Out(rs, <<>>)
               \/ out = ForegroundReconnectFailedSync(rs)
               \/ out = AttemptFailedSync(rs, origin[Arg(t)])
            /\ ApplyReconnect(t, out, Rest(t))
      BY DEF SessionRefused
    <2>2. Plain(rs, ManualConnectFailedSync(rs)) /\ Plain(rs, AttemptFailedSync(rs, origin[Arg(t)]))
      BY <1>1, FailedSyncPlain
    <2>3. Plain(rs, Out(rs, <<>>)) /\ Plain(rs, ForegroundReconnectFailedSync(rs))
      BY <1>1, IgnoredPlain, ForegroundFailedPlain
    <2> QED BY <2>1, <2>2, <2>3
<1>3. /\ At(t, "Build") /\ draining' = draining /\ edges' = edges /\ armed' = armed
      /\ slot' = slot /\ disc' = disc /\ sess' = [sess EXCEPT ![Arg(t)] = "refused"]
  BY DEF SessionRefused
<1>4. /\ thr[t] # <<>> /\ After(t) = Rest(t) /\ After(t) \in Seq(Items)
      /\ ~At(t, "Deliver") /\ ~At(t, "Store") /\ ~At(t, "Flush")
  BY <1>1, <1>3, AtStep
<1>5. SessionsKept
  <2>1. sess' \in [Generations -> Sessions]
    BY <1>1, <1>3 DEF Sessions
  <2>2. \A g \in Generations : sess'[g] \in {"dialing", "up"} => sess[g] \in {"dialing", "up"}
    BY <1>1, <1>3
  <2> QED BY <1>3, <2>1, <2>2 DEF SessionsKept
<1>6. Rest(t) = <<>> \o After(t) /\ Quiet(<<>>)
  BY <1>4, QuietNothing
<1> QED BY <1>2, <1>3, <1>4, <1>5, <1>6, ApplyStep

\* begin_reconnect_session.
LEMMA BeginReconnectInv ==
  ASSUME Inv, NEW t \in Threads, BeginReconnectSession(t)
  PROVE  Inv'
<1>1. ThreadInv /\ rs \in ReconnectStates /\ WellFormed(rs)
  BY DEF Inv, TypeInv
<1>2. /\ At(t, "StartAttempt") /\ draining' = draining /\ edges' = edges /\ armed' = armed
      /\ slot' = slot /\ disc' = disc /\ sess' = sess
      /\ ApplyReconnect(t, ReconnectSessionStarting(rs), <<Fx("NewAdapter", Arg(t))>> \o Rest(t))
  BY DEF BeginReconnectSession
<1>3. "StartAttempt" \in StepOps /\ "NewAdapter" \in QuietOps
  BY DEF StepOps, ShellOps, QuietOps
<1>4. /\ thr[t] # <<>> /\ After(t) = Rest(t) /\ ~At(t, "Deliver") /\ ~At(t, "Store") /\ ~At(t, "Flush")
      /\ Arg(t) \in Int
  BY <1>1, <1>2, <1>3, AtStep
<1>5. PICK M : M = <<Fx("NewAdapter", Arg(t))>>
  OBVIOUS
<1>6. Quiet(M)
  BY <1>3, <1>4, <1>5, QuietOne
<1>7. Plain(rs, ReconnectSessionStarting(rs))
  BY <1>1, SetPhasePlain DEF ReconnectSessionStarting, Phases
<1>8. SessionsKept
  BY <1>2, SessionsUnchanged
<1>9. PICK rest : rest = M \o After(t) /\ ApplyReconnect(t, ReconnectSessionStarting(rs), rest)
  BY <1>2, <1>4, <1>5
<1> QED BY <1>2, <1>4, <1>6, <1>7, <1>8, <1>9, ApplyStep

\* OrchestratorAdapter::new.
LEMMA NewAdapterInv ==
  ASSUME Inv, NEW t \in Threads, NewAdapter(t)
  PROVE  Inv'
<1>1. ThreadInv /\ rs \in ReconnectStates /\ WellFormed(rs) /\ gen \in Nat
  BY DEF Inv, TypeInv
<1>2. PICK g \in Nat : g = gen + 1
  BY <1>1
<1>3. PICK out : out = SessionCreated(rs, g)
  OBVIOUS
<1>4. /\ At(t, "NewAdapter") /\ draining' = draining /\ edges' = edges /\ armed' = armed
      /\ slot' = slot /\ disc' = disc /\ sess' = sess /\ gen' = g /\ rs' = out.r
      /\ queue' = queue \o Publications(out.fx)
      /\ thr' = [thr EXCEPT ![t] = Program(out.fx) \o <<Fx("Build", g)>> \o Rest(t)]
  BY <1>2, <1>3 DEF NewAdapter
<1>5. "NewAdapter" \in StepOps /\ "Build" \in QuietOps
  BY DEF StepOps, QuietOps
<1>6. /\ thr[t] # <<>> /\ After(t) = Rest(t) /\ After(t) \in Seq(Items)
      /\ ~At(t, "Deliver") /\ ~At(t, "Store") /\ ~At(t, "Flush")
  BY <1>1, <1>4, AtStep
<1>7. PICK M, Q : M = <<Fx("Build", g)>> /\ Q = Program(out.fx)
  OBVIOUS
<1>8. Quiet(M)
  BY <1>5, <1>7, QuietOne
<1>9. Plain(rs, out)
  BY <1>1, <1>3, SessionCreatedPlain
<1>10. Quiet(Q)
  BY <1>7, <1>9, QuietProgram DEF Plain, Emits
<1>11. Q \o (M \o After(t)) = (Q \o M) \o After(t)
  <2>1. Q \in Seq(Items) /\ M \in Seq(Items)
    BY <1>8, <1>10 DEF Quiet
  <2> QED BY <1>6, <2>1, Regroup
<1>12. thr' = [thr EXCEPT ![t] = Program(out.fx) \o (M \o After(t))]
  BY <1>4, <1>6, <1>7, <1>11
<1>13. SessionsKept /\ gen' \in Nat
  BY <1>2, <1>4, SessionsUnchanged
<1> QED BY <1>4, <1>6, <1>8, <1>9, <1>12, <1>13, ReducerStep

\* apply_network_lost_if_unchanged looks at the phase and the generation.
LEMMA LostCheckInv ==
  ASSUME Inv, NEW t \in Threads, LostCheck(t)
  PROVE  Inv'
<1>1. ThreadInv /\ rs \in ReconnectStates /\ WellFormed(rs) /\ gen \in Int
  BY DEF Inv, TypeInv
<1>2. /\ rs' = rs /\ gen' = gen /\ queue' = queue /\ draining' = draining /\ edges' = edges
      /\ slot' = slot /\ disc' = disc /\ armed' = armed /\ sess' = sess /\ At(t, "LostCheck")
  BY DEF LostCheck
<1>3. /\ "LostCheck" \in LastOps /\ "DisconnectSession" \in QuietOps /\ "LostHandle" \in StepOps
      /\ "LostHandle" # "Deliver" /\ "LostHandle" # Spawn
  BY DEF LastOps, QuietOps, ShellOps, StepOps, Spawn
<1>4. /\ thr[t] # <<>> /\ After(t) = <<>> /\ ~At(t, "Deliver") /\ ~At(t, "Store") /\ ~At(t, "Flush")
  BY <1>1, <1>2, <1>3, AtStep
<1>5. PICK d, h : d = Fx("DisconnectSession", 0) /\ h = Fx("LostHandle", gen)
  OBVIOUS
<1>6. h \in Items /\ h.op = "LostHandle" /\ Quiet(<<d>>)
  BY <1>1, <1>3, <1>5, ItemOf, QuietOne
<1>7. PICK P : /\ P = Append(<<d>>, h) \/ P = <<>>
               /\ thr' = [thr EXCEPT ![t] = P]
  <2>1. Append(<<d>>, h) = <<d, h>>
    BY TwoEffects
  <2> QED BY <1>5, <2>1 DEF LostCheck
<1>8. Admissible(t, P) /\ \A i \in 1 .. Len(P) : P[i].op # "Deliver"
  <2>1. CASE P = Append(<<d>>, h)
    BY <1>3, <1>4, <1>6, <2>1, EndAdmissible
  <2>2. CASE P = <<>>
    BY <1>4, <2>2, QuietNothing, QuietAdmissible
  <2> QED BY <1>7, <2>1, <2>2
<1>9. P \o After(t) = P
  BY <1>4, <1>8, ConcatEmptySeq DEF Admissible
<1>10. armed' \in Int /\ Sound(rs, rs') /\ EdgeOf(rs') = EdgeOf(rs) /\ sess' \in [Generations -> Sessions]
  BY <1>2, IgnoredPlain DEF Inv, TypeInv
<1>11. thr' = [thr EXCEPT ![t] = P \o After(t)]
  BY <1>7, <1>9
<1>12. \A g \in Generations : sess'[g] \in {"dialing", "up"} /\ g # slot' =>
         /\ sess[g] \in {"dialing", "up"} /\ g # slot /\ (g \in disc => g \in disc')
         /\ ~(At(t, "Store") /\ Arg(t) = g)
  BY <1>2, <1>4
<1> QED BY <1>2, <1>4, <1>8, <1>10, <1>11, <1>12, GivenStep

\* handle_unexpected_disconnect after a path loss.
LEMMA LostHandleInv ==
  ASSUME Inv, NEW t \in Threads, LostHandle(t)
  PROVE  Inv'
<1>1. ThreadInv /\ rs \in ReconnectStates /\ WellFormed(rs)
  BY DEF Inv, TypeInv
<1>2. /\ At(t, "LostHandle") /\ draining' = draining /\ edges' = edges /\ armed' = armed
      /\ slot' = slot /\ disc' = disc /\ sess' = sess
  BY DEF LostHandle
<1>3. "LostHandle" \in LastOps
  BY DEF LastOps
<1>4. /\ thr[t] # <<>> /\ After(t) = <<>> /\ After(t) = Rest(t) /\ ~At(t, "Deliver") /\ ~At(t, "Store") /\ ~At(t, "Flush")
  BY <1>1, <1>2, <1>3, AtStep
<1>5. CASE Arg(t) = gen
  <2>1. PICK out : out = AttemptDisconnected(rs, "NetworkLost")
    OBVIOUS
  <2>2. Plain(rs, out) \/ Spawns(rs, out)
    BY <1>1, <2>1, AttemptDisconnectedEffects
  <2>3. PICK rest : rest = <<>> /\ ApplyReconnect(t, out, rest)
    BY <1>5, <2>1 DEF LostHandle
  <2>4. PICK M : M = <<>> /\ Quiet(M)
    BY QuietNothing
  <2>5. rest = M \o After(t)
    BY <1>4, <2>3, <2>4
  <2>6. SessionsKept
    BY <1>2, SessionsUnchanged
  <2> QED BY <1>2, <1>4, <2>2, <2>3, <2>4, <2>5, <2>6, ApplyStep
<1>6. CASE Arg(t) # gen
  <2>1. thr' = [thr EXCEPT ![t] = <<>>] /\ rs' = rs /\ gen' = gen /\ queue' = queue
    BY <1>6 DEF LostHandle
  <2>2. Skip(t)
    BY <1>4, <2>1 DEF Skip
  <2>3. armed' \in Int
    BY <1>2 DEF Inv, TypeInv
  <2> QED BY <1>2, <2>1, <2>2, <2>3, SkipStep
<1> QED BY <1>5, <1>6

\* The loop task.
LEMMA LoopInv ==
  ASSUME Inv, NEW e \in 1 .. MaxEpoch, LoopStart(e) \/ LoopTick(e) \/ LoopWake(e)
  PROVE  Inv'
<1>1. ThreadInv /\ rs \in ReconnectStates /\ WellFormed(rs)
  BY DEF Inv, TypeInv
<1>2. PICK t \in Threads : t = Loop(e)
  BY ThreadNames
<1>3. /\ draining' = draining /\ edges' = edges /\ armed' = armed
      /\ slot' = slot /\ disc' = disc /\ sess' = sess
  BY DEF LoopStart, LoopTick, LoopWake
<1>4. PICK op \in LastOps : At(t, op) /\ op # "Deliver" /\ op # "Store" /\ op # "Flush"
  BY <1>2 DEF LoopStart, LoopTick, LoopWake, LastOps
<1>5. /\ thr[t] # <<>> /\ After(t) = <<>> /\ ~At(t, "Deliver") /\ ~At(t, "Store") /\ ~At(t, "Flush")
  BY <1>1, <1>4, AtStep
<1>6. PICK out, rest : /\ \/ out = LoopStarted(rs, e) \/ out = ReconnectTick(rs, e, script.policy)
                          \/ out = ReconnectWake(rs, e)
                       /\ rest = <<>> /\ ApplyReconnect(t, out, rest)
  BY <1>2 DEF LoopStart, LoopTick, LoopWake
<1>7. e \in Int
  BY OrchestratorAssumption
<1>8. Plain(rs, out) \/ Arms(rs, out, e)
  <2>1. Plain(rs, LoopStarted(rs, e)) \/ Arms(rs, LoopStarted(rs, e), e)
    BY <1>1, <1>7, LoopStartedEffects
  <2>2. \/ Plain(rs, ReconnectTick(rs, e, script.policy))
        \/ Arms(rs, ReconnectTick(rs, e, script.policy), e)
    BY <1>1, <1>7, ReconnectTickEffects
  <2>3. Plain(rs, ReconnectWake(rs, e)) \/ Arms(rs, ReconnectWake(rs, e), e)
    BY <1>1, <1>7, ReconnectWakeEffects
  <2> QED BY <1>6, <2>1, <2>2, <2>3
<1>9. PICK M : M = <<>> /\ Quiet(M)
  BY QuietNothing
<1>10. rest = M \o After(t)
  BY <1>5, <1>6, <1>9
<1>11. SessionsKept
  BY <1>3, SessionsUnchanged
<1> QED BY <1>3, <1>5, <1>6, <1>7, <1>8, <1>9, <1>10, <1>11, ApplyStep

\* A callback of a session's task, heard or ignored.
LEMMA CallbackInv ==
  ASSUME Inv, NEW g \in Generations, Idle(Session(g)), NEW out,
         Plain(rs, out) \/ Spawns(rs, out), Callback(g, out),
         draining' = draining, edges' = edges, armed' = armed, SessionsKept
  PROVE  Inv'
<1>1. ThreadInv /\ rs \in ReconnectStates /\ WellFormed(rs) /\ thr \in [Threads -> Seq(Items)]
  BY DEF Inv, TypeInv, ThreadInv
<1>2. PICK t \in Threads : t = Session(g) /\ \A e \in 1 .. MaxEpoch : t # Loop(e)
  BY ThreadNames
<1>3. Idle(t) /\ thr[t] = <<>> /\ After(t) = <<>> /\ \A op : ~At(t, op)
  BY <1>2 DEF Idle, After, At
<1>4. CASE gen = g
  <2>1. PICK rest : rest = <<>> /\ ApplyReconnect(t, out, rest)
    BY <1>2, <1>4 DEF Callback
  <2>2. PICK M : M = <<>> /\ Quiet(M)
    BY QuietNothing
  <2>3. rest = M \o After(t)
    BY <1>3, <2>1, <2>2
  <2> QED BY <1>2, <1>3, <2>1, <2>2, <2>3, ApplyStep
<1>5. CASE gen # g
  <2>1. rs' = rs /\ gen' = gen /\ queue' = queue /\ thr' = thr
    BY <1>5 DEF Callback
  <2>2. thr' = [thr EXCEPT ![t] = <<>>]
    BY <1>1, <1>3, <2>1
  <2>3. armed' \in Int /\ Sound(rs, rs') /\ EdgeOf(rs') = EdgeOf(rs)
    BY <1>1, <2>1, IgnoredPlain DEF Inv, TypeInv
  <2> QED BY <1>2, <1>3, <2>1, <2>2, <2>3, IdleStep
<1> QED BY <1>4, <1>5

\* The session's task.
LEMMA SessionInv ==
  ASSUME Inv, NEW g \in Generations, SessionConnected(g) \/ SessionEnds(g) \/ SessionLost(g)
  PROVE  Inv'
<1>1. rs \in ReconnectStates /\ WellFormed(rs) /\ sess \in [Generations -> Sessions] /\ g \in Nat
  BY OrchestratorAssumption DEF Inv, TypeInv, Generations
<1>2. Idle(Session(g)) /\ draining' = draining /\ edges' = edges /\ armed' = armed /\ slot' = slot
  BY DEF SessionConnected, SessionEnds, SessionLost
<1>3. PICK s \in {"up", "dead"} :
        /\ sess' = [sess EXCEPT ![g] = s] /\ sess[g] \in {"dialing", "up"}
        /\ disc' = disc \/ (s = "dead" /\ disc' = disc \ {g})
  BY DEF SessionConnected, SessionEnds, SessionLost
<1>4. SessionsKept
  <2>1. sess' \in [Generations -> Sessions]
    BY <1>1, <1>3 DEF Sessions
  <2>2. \A k \in Generations : sess'[k] \in {"dialing", "up"} =>
          sess[k] \in {"dialing", "up"} /\ (k \in disc => k \in disc')
    BY <1>1, <1>3
  <2> QED BY <1>2, <2>1, <2>2 DEF SessionsKept
<1>5. PICK out : (Plain(rs, out) \/ Spawns(rs, out)) /\ Callback(g, out)
  <2>1. Plain(rs, AttemptConnected(rs, g))
    BY <1>1, AttemptConnectedPlain
  <2>2. \A kind : \/ Plain(rs, AttemptDisconnected(rs, kind))
                  \/ Spawns(rs, AttemptDisconnected(rs, kind))
    BY <1>1, AttemptDisconnectedEffects
  <2> QED BY <2>1, <2>2 DEF SessionConnected, SessionEnds, SessionLost
<1> QED BY <1>2, <1>4, <1>5, CallbackInv

-----------------------------------------------------------------------------
LEMMA InitInv == Init => Inv
<1> SUFFICES ASSUME Init PROVE Inv
  OBVIOUS
<1>1. TypeInv
  <2>1. rs \in ReconnectStates /\ WellFormed(rs)
    BY DEF Init, DefaultState, ReconnectStates, WellFormed, Phases, Backgrounds, NoGeneration, NoClock
  <2> QED BY <2>1 DEF Init, TypeInv, NoGeneration, Sessions
<1>2. thr \in [Threads -> Seq(Items)] /\ \A t \in Threads : thr[t] = <<>> /\ Len(thr[t]) = 0
  BY DEF Init
<1>3. ThreadInv
  BY <1>2, ThreadNames DEF ThreadInv, ShapeInv, SpawnInv
<1>4. \A t \in Threads : ~At(t, "Deliver")
  BY <1>2 DEF At, Idle
<1>5. DrainInv
  BY <1>4 DEF DrainInv, Init
<1>6. EdgesWellFormed
  BY DEF Init, EdgesWellFormed
<1>7. LedgerInv
  <2>1. PICK x : x = <<0, 0>>
    OBVIOUS
  <2>2. x \in EdgeStates /\ EdgeOf(rs) = x
    BY <2>1 DEF EdgeStates, EdgeOf, Init, DefaultState, NoGeneration
  <2>3. Run(queue, x, EdgeOf(rs))
    BY <2>2, RunNothing DEF Init
  <2>4. Delivered(edges, x)
    <3>1. Len(edges) = 0 /\ x[1] = 0
      BY <2>1 DEF Init
    <3> QED BY <3>1 DEF Delivered
  <2> QED BY <1>4, <2>2, <2>3, <2>4 DEF LedgerInv
<1>8. ReplacedSessionsEnd
  BY DEF Init, ReplacedSessionsEnd
<1>9. StrandInv
  BY DEF Init, StrandInv
<1> QED BY <1>1, <1>3, <1>5, <1>6, <1>7, <1>8, <1>9 DEF Inv

LEMMA NextInv == Inv /\ [Next]_vars => Inv'
<1> SUFFICES ASSUME Inv, [Next]_vars PROVE Inv'
  OBVIOUS
<1>1. CASE UiCall
  BY <1>1, UiCallInv
<1>2. CASE PathSatisfied \/ PathLost \/ DebounceFires
  BY <1>2, PathInv
<1>3. ASSUME NEW t \in Threads, EffectStep(t)
      PROVE  Inv'
  BY <1>3, SmallEffectInv, SpawnLoopInv, FlushInv, DeliverInv, LostCheckInv, LostHandleInv,
     BeginReconnectInv, NewAdapterInv, SpawnedInv, RefusedInv, StoreInv DEF EffectStep
<1>4. ASSUME NEW e \in 1 .. MaxEpoch, LoopStart(e) \/ LoopTick(e) \/ LoopWake(e)
      PROVE  Inv'
  BY <1>4, LoopInv
<1>5. ASSUME NEW g \in Generations, SessionConnected(g) \/ SessionEnds(g) \/ SessionLost(g)
      PROVE  Inv'
  BY <1>5, SessionInv
<1>6. CASE UNCHANGED vars
  <2>1. /\ rs' = rs /\ gen' = gen /\ queue' = queue /\ draining' = draining /\ slot' = slot
        /\ armed' = armed /\ thr' = thr /\ sess' = sess /\ disc' = disc /\ edges' = edges
    BY <1>6 DEF vars
  <2>2. TypeInv' /\ ThreadInv' /\ EdgesWellFormed' /\ ReplacedSessionsEnd'
    BY <2>1 DEF Inv, TypeInv, ThreadInv, ShapeInv, SpawnInv, EdgesWellFormed, ReplacedSessionsEnd
  <2>3. DrainInv' /\ LedgerInv'
    BY <2>1 DEF Inv, DrainInv, LedgerInv, At, Idle, Arg, EdgeOf
  <2>4. StrandInv'
    BY <2>1 DEF Inv, StrandInv, Waits
  <2> QED BY <2>2, <2>3, <2>4 DEF Inv
<1> QED BY <1>1, <1>2, <1>3, <1>4, <1>5, <1>6 DEF Next

-----------------------------------------------------------------------------
\* PublicationQueue: whichever threads apply transitions, stage and drain, in any
\* interleaving, the app is told Established(g) and Lost(g) in turn and for
\* increasing generations.
THEOREM EdgesAreInOrder == Spec => []EdgesWellFormed
<1>1. Inv => EdgesWellFormed
  BY DEF Inv
<1> QED BY <1>1, InitInv, NextInv, PTL DEF Spec

\* build_and_store_session: a session that is alive is in the slot, on its way
\* there, or has been told to disconnect.
THEOREM ReplacedSessionsAreTold == Spec => []ReplacedSessionsEnd
<1>1. Inv => ReplacedSessionsEnd
  BY DEF Inv
<1> QED BY <1>1, InitInv, NextInv, PTL DEF Spec

\* flush_publications: no publication is left in the queue without a thread that
\* drains it or has still to flush it, whichever threads met while one drained.
THEOREM PublicationsAreDelivered == Spec => []NothingIsStranded
<1>1. Inv => NothingIsStranded
  <2> SUFFICES ASSUME Inv, queue # <<>>
               PROVE  \E t \in Threads : \/ At(t, "Deliver")
                                         \/ Flush \in {thr[t][i] : i \in DOMAIN thr[t]}
    BY DEF NothingIsStranded
  <2>1. CASE draining
    BY <2>1 DEF Inv, DrainInv
  <2>2. CASE Waits(Flush)
    <3>1. thr \in [Threads -> Seq(Items)]
      BY DEF Inv, ThreadInv
    <3>2. \A t \in Threads : Flush \in {thr[t][i] : i \in DOMAIN thr[t]}
                                <=> \E i \in 1 .. Len(thr[t]) : thr[t][i] = Flush
      BY <3>1, WhereItWaits
    <3> QED BY <2>2, <3>2 DEF Waits
  <2> QED BY <2>1, <2>2 DEF Inv, StrandInv
<1> QED BY <1>1, InitInv, NextInv, PTL DEF Spec

\* ReconnectState::apply is only ever called in the states its tests assume: an
\* edge is open only while Connected, for the generation established last, and
\* only a live loop has a clock.
THEOREM ReducerStateIsWellFormed == Spec => [](rs \in ReconnectStates /\ WellFormed(rs))
<1>1. Inv => rs \in ReconnectStates /\ WellFormed(rs)
  BY DEF Inv, TypeInv
<1> QED BY <1>1, InitInv, NextInv, PTL DEF Spec

-----------------------------------------------------------------------------
(***************************************************************************)
(* What the app is shown.  A public state that is delivered replaces the   *)
(* one before, an edge leaves it alone.  Delivering q turns the shown      *)
(* state x into y.                                                         *)
(***************************************************************************)
StateOps == {"PublishDisconnected", "PublishConnected", "PublishConnecting",
             "PublishReconnecting", "PublishReconnectTimedOut"}
Turn(x, f) == IF f.op \in StateOps THEN PublicState[f.op] ELSE x
Shows(q, x, y) ==
  \/ y = x /\ \A i \in 1 .. Len(q) : q[i].op \notin StateOps
  \/ \E i \in 1 .. Len(q) :
       /\ q[i].op \in StateOps /\ y = PublicState[q[i].op]
       /\ \A j \in 1 .. Len(q) : j > i => q[j].op \notin StateOps

LEMMA ShownOps ==
  /\ DOMAIN PublicState = StateOps /\ StateOps \cap EdgeOps = {}
  /\ PublicState["PublishDisconnected"] = "Disconnected"
  /\ PublicState["PublishConnected"] = "Connected"
  /\ PublicState["PublishConnecting"] = "Connecting"
  /\ PublicState["PublishReconnecting"] = "Reconnecting"
  /\ PublicState["PublishReconnectTimedOut"] = "Disconnected"
BY DEF PublicState, StateOps, EdgeOps

LEMMA ShowsNothing ==
  ASSUME NEW x
  PROVE  Shows(<<>>, x, x)
<1>1. Len(<<>>) = 0
  OBVIOUS
<1> QED BY <1>1 DEF Shows

LEMMA ShowsOne ==
  ASSUME NEW f, NEW x
  PROVE  Shows(<<f>>, x, Turn(x, f))
<1>1. PICK q : q = <<f>>
  OBVIOUS
<1>2. Len(q) = 1 /\ q[1] = f /\ 1 \in 1 .. Len(q)
  BY <1>1
<1>3. \A j \in 1 .. Len(q) : j = 1
  BY <1>2
<1>4. Shows(q, x, Turn(x, f))
  <2>1. CASE f.op \in StateOps
    <3>1. Turn(x, f) = PublicState[q[1].op] /\ q[1].op \in StateOps
      BY <1>2, <2>1 DEF Turn
    <3>2. \A j \in 1 .. Len(q) : ~(j > 1)
      BY <1>3
    <3> QED BY <1>2, <3>1, <3>2 DEF Shows
  <2>2. CASE f.op \notin StateOps
    BY <1>2, <1>3, <2>2 DEF Turn, Shows
  <2> QED BY <2>1, <2>2
<1> QED BY <1>1, <1>4

LEMMA ShowsBoth ==
  ASSUME NEW S, NEW q \in Seq(S), NEW p \in Seq(S), NEW x, NEW y, NEW z,
         Shows(q, x, y), Shows(p, y, z)
  PROVE  Shows(q \o p, x, z)
<1>0. PICK m \in Nat, n \in Nat : m = Len(q) /\ n = Len(p)
  OBVIOUS
<1>1. PICK s : s = q \o p /\ m = Len(q) /\ n = Len(p)
  BY <1>0
<1>2. /\ Len(s) = m + n /\ \A i \in 1 .. m : s[i] = q[i]
      /\ \A i \in 1 .. n : s[m + i] = p[i]
  BY <1>1
<1>3. \A j \in 1 .. (m + n) : j \in 1 .. m \/ (j > m /\ j - m \in 1 .. n /\ m + (j - m) = j)
  BY <1>1
<1>4. CASE z = y /\ \A i \in 1 .. n : p[i].op \notin StateOps
  <2>0. \A j \in 1 .. (m + n) : j > m => s[j].op \notin StateOps
    <3> TAKE j \in 1 .. (m + n)
    <3> HAVE j > m
    <3>1. PICK l \in 1 .. n : m + l = j
      <4>1. ~(j \in 1 .. m)
        BY <1>0
      <4>2. j - m \in 1 .. n /\ m + (j - m) = j
        BY <1>3, <4>1
      <4> QED BY <4>2
    <3> QED BY <1>2, <1>4, <3>1
  <2>1. CASE y = x /\ \A i \in 1 .. m : q[i].op \notin StateOps
    <3>1. \A j \in 1 .. (m + n) : s[j].op \notin StateOps
      BY <1>2, <1>3, <2>0, <2>1
    <3> QED BY <1>1, <1>2, <1>4, <2>1, <3>1 DEF Shows
  <2>2. CASE \E i \in 1 .. m : /\ q[i].op \in StateOps /\ y = PublicState[q[i].op]
                               /\ \A j \in 1 .. m : j > i => q[j].op \notin StateOps
    <3>1. PICK i \in 1 .. m : /\ q[i].op \in StateOps /\ y = PublicState[q[i].op]
                              /\ \A j \in 1 .. m : j > i => q[j].op \notin StateOps
      BY <2>2
    <3>2. i \in 1 .. (m + n) /\ s[i] = q[i]
      BY <1>2, <3>1
    <3>3. \A j \in 1 .. (m + n) : j > i => s[j].op \notin StateOps
      BY <1>2, <1>3, <2>0, <3>1
    <3> QED BY <1>1, <1>2, <1>4, <3>1, <3>2, <3>3 DEF Shows
  <2> QED BY <1>1, <2>1, <2>2 DEF Shows
<1>5. CASE \E i \in 1 .. n : /\ p[i].op \in StateOps /\ z = PublicState[p[i].op]
                             /\ \A j \in 1 .. n : j > i => p[j].op \notin StateOps
  <2>1. PICK i \in 1 .. n : /\ p[i].op \in StateOps /\ z = PublicState[p[i].op]
                            /\ \A j \in 1 .. n : j > i => p[j].op \notin StateOps
    BY <1>5
  <2>2. PICK k \in 1 .. (m + n) : k = m + i
    BY <1>1, <2>1
  <2>3. s[k] = p[i]
    BY <1>2, <2>1, <2>2
  <2>4. \A j \in 1 .. (m + n) : j > k => s[j].op \notin StateOps
    <3> TAKE j \in 1 .. (m + n)
    <3> HAVE j > k
    <3>1. j - m \in 1 .. n /\ j - m > i /\ m + (j - m) = j
      BY <1>1, <1>3, <2>1, <2>2
    <3>2. PICK l \in 1 .. n : l = j - m
      BY <3>1
    <3>3. s[m + l] = p[l] /\ p[l].op \notin StateOps
      BY <1>2, <2>1, <3>1, <3>2
    <3> QED BY <3>1, <3>2, <3>3
  <2> QED BY <1>1, <1>2, <2>1, <2>2, <2>3, <2>4 DEF Shows
<1> QED BY <1>1, <1>4, <1>5 DEF Shows

\* Whatever was shown, the last state that is published is what is shown.
LEMMA ShowsLast ==
  ASSUME NEW S, NEW q \in Seq(S), NEW f \in S, f.op \in StateOps, NEW x
  PROVE  Shows(Append(q, f), x, PublicState[f.op])
<1>0. PICK n \in Nat : n = Len(q)
  OBVIOUS
<1>1. PICK s : s = Append(q, f) /\ n = Len(q)
  BY <1>0
<1>2. Len(s) = n + 1 /\ s[n + 1] = f /\ n + 1 \in 1 .. (n + 1)
  BY <1>1
<1>3. \A j \in 1 .. (n + 1) : ~(j > n + 1)
  BY <1>1
<1>4. Shows(s, x, PublicState[f.op])
  BY <1>2, <1>3 DEF Shows
<1> QED BY <1>1, <1>4

\* The first of the queue is delivered, the rest stays.
LEMMA ShowsFirst ==
  ASSUME NEW S, NEW q \in Seq(S), NEW x, NEW z, Shows(q, x, z), q # <<>>
  PROVE  Shows(Tail(q), Turn(x, Head(q)), z)
<1>0. PICK n \in Nat : n = Len(q) /\ n > 0
  <2>1. Len(q) \in Nat /\ Len(q) # 0
    OBVIOUS
  <2> QED BY <2>1
<1>1. PICK p, f : n = Len(q) /\ n > 0 /\ p = Tail(q) /\ f = Head(q)
  BY <1>0
<1>2. f = q[1] /\ Len(p) = n - 1 /\ \A i \in 1 .. (n - 1) : p[i] = q[i + 1] /\ i + 1 \in 1 .. n
  BY <1>1
<1>3. CASE z = x /\ \A i \in 1 .. n : q[i].op \notin StateOps
  <2>1. 1 \in 1 .. n
    BY <1>1
  <2>2. Turn(x, f) = x
    BY <1>2, <1>3, <2>1 DEF Turn
  <2>3. \A i \in 1 .. (n - 1) : p[i].op \notin StateOps
    BY <1>2, <1>3
  <2>4. Shows(p, Turn(x, f), z)
    BY <1>2, <1>3, <2>2, <2>3 DEF Shows
  <2> QED BY <1>1, <2>4
<1>4. CASE \E i \in 1 .. n : /\ q[i].op \in StateOps /\ z = PublicState[q[i].op]
                             /\ \A j \in 1 .. n : j > i => q[j].op \notin StateOps
  <2>1. PICK i \in 1 .. n : /\ q[i].op \in StateOps /\ z = PublicState[q[i].op]
                            /\ \A j \in 1 .. n : j > i => q[j].op \notin StateOps
    BY <1>4
  <2>2. CASE i = 1
    <3>1. Turn(x, f) = z
      BY <1>2, <2>1, <2>2 DEF Turn
    <3>2. \A j \in 1 .. (n - 1) : p[j].op \notin StateOps
      <4> TAKE j \in 1 .. (n - 1)
      <4>1. j + 1 > 1 /\ j + 1 \in 1 .. n /\ p[j] = q[j + 1]
        BY <1>2
      <4> QED BY <2>1, <2>2, <4>1
    <3>3. Shows(p, Turn(x, f), z)
      BY <1>2, <3>1, <3>2 DEF Shows
    <3> QED BY <1>1, <3>3
  <2>3. CASE i # 1
    <3>1. PICK k \in 1 .. (n - 1) : k = i - 1 /\ k + 1 = i
      <4>1. i - 1 \in 1 .. (n - 1) /\ (i - 1) + 1 = i
        BY <1>1, <2>1, <2>3
      <4> QED BY <4>1
    <3>2. p[k].op \in StateOps /\ z = PublicState[p[k].op]
      BY <1>2, <2>1, <3>1
    <3>3. \A j \in 1 .. (n - 1) : j > k => p[j].op \notin StateOps
      <4> TAKE j \in 1 .. (n - 1)
      <4> HAVE j > k
      <4>1. j + 1 > i /\ j + 1 \in 1 .. n /\ p[j] = q[j + 1]
        BY <1>2, <2>1, <3>1
      <4> QED BY <2>1, <4>1
    <3>4. Shows(p, Turn(x, f), z)
      BY <1>2, <3>1, <3>2, <3>3 DEF Shows
    <3> QED BY <1>1, <3>4
  <2> QED BY <2>2, <2>3
<1> QED BY <1>1, <1>3, <1>4 DEF Shows

\* Dropping what is not a publication changes nothing of what is shown.
LEMMA ShowsStaged ==
  ASSUME NEW fx \in Seq(Effects), Len(fx) <= 4, NEW x, NEW y, Shows(fx, x, y)
  PROVE  Shows(Publications(fx), x, y)
<1>1. PICK n \in Nat : n = Len(fx) /\ n <= 4
  OBVIOUS
<1>2. PICK st \in [0 .. n -> Seq(Effects)] :
        /\ st[0] = <<>> /\ st[n] = Publications(fx)
        /\ \A i \in 1 .. n :
             st[i] = IF IsPublication(fx[i]) THEN Append(st[i - 1], fx[i]) ELSE st[i - 1]
  BY <1>1, PublicationsUnfold
<1>3. PICK l \in 0 .. n : /\ l = 0 => y = x
                          /\ l > 0 => fx[l].op \in StateOps /\ y = PublicState[fx[l].op]
                          /\ \A j \in 1 .. n : j > l => fx[j].op \notin StateOps
  <2>1. CASE y = x /\ \A i \in 1 .. n : fx[i].op \notin StateOps
    <3>1. 0 \in 0 .. n /\ ~(0 > 0)
      BY <1>1
    <3> QED BY <2>1, <3>1
  <2>2. CASE \E i \in 1 .. n : /\ fx[i].op \in StateOps /\ y = PublicState[fx[i].op]
                               /\ \A j \in 1 .. n : j > i => fx[j].op \notin StateOps
    <3>1. PICK i \in 1 .. n : /\ fx[i].op \in StateOps /\ y = PublicState[fx[i].op]
                              /\ \A j \in 1 .. n : j > i => fx[j].op \notin StateOps
      BY <2>2
    <3>2. i \in 0 .. n /\ i # 0
      BY <3>1
    <3> QED BY <3>1, <3>2
  <2> QED BY <1>1, <2>1, <2>2 DEF Shows
<1> DEFINE Fine(i) == i >= l => Shows(st[i], x, y)
<1>4. Fine(0)
  <2>1. 0 >= l => y = x /\ st[0] = <<>>
    BY <1>2, <1>3
  <2> QED BY <2>1, ShowsNothing
<1>5. ASSUME NEW i \in 1 .. n, Fine(i - 1) PROVE Fine(i)
  <2>1. PICK s, f : s = st[i - 1] /\ f = fx[i]
    OBVIOUS
  <2>2. f \in Effects /\ s \in Seq(Effects) /\ <<f>> \in Seq(Effects)
    BY <1>1, <1>2, <2>1
  <2>3. st[i] = IF IsPublication(f) THEN Append(s, f) ELSE s
    BY <1>2, <2>1
  <2>4. Append(s, f) = s \o <<f>>
    BY <2>2
  <2>5. f.op \in StateOps => IsPublication(f)
    BY ShownOps DEF IsPublication
  <2>6. CASE i = l
    <3>1. IsPublication(f) /\ f.op \in StateOps /\ y = PublicState[f.op]
      BY <1>3, <2>1, <2>5, <2>6
    <3>2. Shows(Append(s, f), x, y)
      BY <2>2, <3>1, ShowsLast
    <3> QED BY <2>3, <3>1, <3>2
  <2>7. CASE i > l
    <3>1. Shows(s, x, y)
      <4>1. i - 1 >= l
        BY <1>3, <2>7
      <4> QED BY <1>5, <2>1, <4>1
    <3>2. Turn(y, f) = y
      BY <1>3, <2>1, <2>7 DEF Turn
    <3>3. Shows(<<f>>, y, y)
      BY <3>2, ShowsOne
    <3>4. Shows(s \o <<f>>, x, y)
      BY <2>2, <3>1, <3>3, ShowsBoth
    <3> QED BY <2>3, <2>4, <3>1, <3>4
  <2>8. CASE i < l
    BY <1>3, <2>8
  <2> QED BY <1>3, <2>6, <2>7, <2>8
<1>6. n >= 1 => Fine(1)
  BY <1>1, <1>4, <1>5
<1>7. n >= 2 => Fine(2)
  BY <1>1, <1>5, <1>6
<1>8. n >= 3 => Fine(3)
  BY <1>1, <1>5, <1>7
<1>9. n >= 4 => Fine(4)
  BY <1>1, <1>5, <1>8
<1>10. Fine(n)
  <2>0. \A m \in Nat : m <= 4 => m = 0 \/ m = 1 \/ m = 2 \/ m = 3 \/ m = 4
    OBVIOUS
  <2>1. n = 0 \/ n = 1 \/ n = 2 \/ n = 3 \/ n = 4
    BY <1>1, <2>0, Zenon
  <2> QED BY <1>4, <1>6, <1>7, <1>8, <1>9, <2>1
<1> QED BY <1>2, <1>3, <1>10

-----------------------------------------------------------------------------
(***************************************************************************)
(* The public state that was staged last and the reducer.  Connected is    *)
(* published when the reducer connects and outlives the connection only    *)
(* until the next attempt or the next loop has been announced.             *)
(***************************************************************************)
Agree(y, r) ==
  /\ r.phase = "Connected" => y = "Connected" /\ ~r.active
  /\ y = "Connected" => r.phase \in {"Connected", "Connecting"} \/ (r.active /\ r.clock = NoClock)
  /\ r.active => y = "Reconnecting" \/ r.clock = NoClock
  /\ y = "Reconnecting" => r.active

\* Effects that turn the shown state x into y, and abort an attempt only on the
\* way to phase p = Idle.
Says(fx, x, y, p) ==
  /\ fx \in Seq(Effects) /\ Shows(fx, x, y)
  /\ \A i \in 1 .. Len(fx) : fx[i].op = "AbortInFlightAttempt" => p = "Idle"

\* A loop that has no clock yet was so before, or its task is about to be spawned.
Starts(r, out) ==
  out.r.active /\ out.r.clock = NoClock =>
    \/ r.active /\ r.clock = NoClock /\ out.r.epoch = r.epoch
    \/ \E i \in 1 .. Len(out.fx) : out.fx[i] = Fx(Spawn, out.r.epoch)

Moves(r, out) ==
  /\ \A x : Agree(x, r) => \E y : Says(out.fx, x, y, out.r.phase) /\ Agree(y, out.r)
  /\ Starts(r, out)

LEMMA SaysNothing ==
  ASSUME NEW x, NEW p
  PROVE  Says(<<>>, x, x, p)
<1>1. <<>> \in Seq(Effects) /\ Len(<<>>) = 0
  OBVIOUS
<1> QED BY <1>1, ShowsNothing DEF Says

LEMMA SaysOne ==
  ASSUME NEW f \in Effects, NEW x, NEW p, f.op = "AbortInFlightAttempt" => p = "Idle"
  PROVE  Says(<<f>>, x, Turn(x, f), p)
<1>1. PICK q : q = <<f>>
  OBVIOUS
<1>2. q \in Seq(Effects) /\ \A i \in 1 .. Len(q) : q[i] = f
  BY <1>1
<1>3. Shows(q, x, Turn(x, f))
  BY <1>1, ShowsOne
<1> QED BY <1>1, <1>2, <1>3 DEF Says

LEMMA SaysBoth ==
  ASSUME NEW a, NEW b, NEW x, NEW y, NEW z, NEW p, Says(a, x, y, p), Says(b, y, z, p)
  PROVE  Says(a \o b, x, z, p)
<1>1. a \in Seq(Effects) /\ b \in Seq(Effects) /\ Shows(a, x, y) /\ Shows(b, y, z)
  BY DEF Says
<1>2. Shows(a \o b, x, z)
  BY ONLY <1>1, ShowsBoth
<1>3. PICK s : s = a \o b
  OBVIOUS
<1>4. s \in Seq(Effects) /\ \A i \in 1 .. Len(s) : \/ i \in 1 .. Len(a) /\ s[i] = a[i]
                                                   \/ i - Len(a) \in 1 .. Len(b) /\ s[i] = b[i - Len(a)]
  BY <1>1, <1>3
<1>5. \A i \in 1 .. Len(s) : s[i].op = "AbortInFlightAttempt" => p = "Idle"
  BY <1>4 DEF Says
<1> QED BY <1>2, <1>3, <1>4, <1>5 DEF Says

\* One more effect.
LEMMA SaysMore ==
  ASSUME NEW a, NEW x, NEW y, NEW p, Says(a, x, y, p), NEW f \in Effects,
         f.op = "AbortInFlightAttempt" => p = "Idle"
  PROVE  Says(Append(a, f), x, Turn(y, f), p) /\ Says(a \o <<f>>, x, Turn(y, f), p)
<1>1. Says(<<f>>, y, Turn(y, f), p)
  BY SaysOne
<1>2. Says(a \o <<f>>, x, Turn(y, f), p)
  BY <1>1, SaysBoth
<1>3. Append(a, f) = a \o <<f>>
  BY DEF Says
<1> QED BY <1>2, <1>3

\* The effects of the reducer by what they show.
LEMMA ShellEffect ==
  ASSUME NEW op \in (ShellOps \cup EdgeOps \cup {"ArmLoopTimer"}), NEW n \in Int
  PROVE  /\ Fx(op, n) \in Effects /\ Fx(op, n).op = op
         /\ \A x : Turn(x, Fx(op, n)) = x
<1>1. PICK f : f = Fx(op, n)
  OBVIOUS
<1>2. f = [op |-> op, n |-> n] /\ f.op = op
  BY <1>1 DEF Fx
<1>3. op \in PublicationOps \cup ShellOps \cup {"ArmLoopTimer"}
  BY DEF EdgeOps, PublicationOps
<1>4. f \in Effects
  BY <1>2, <1>3 DEF Effects
<1>5. op \notin StateOps
  BY DEF StateOps, ShellOps, EdgeOps
<1> QED BY <1>1, <1>2, <1>4, <1>5 DEF Turn

LEMMA StateEffect ==
  ASSUME NEW op \in StateOps
  PROVE  /\ Fx(op, 0) \in Effects /\ Fx(op, 0).op = op /\ op # "AbortInFlightAttempt"
         /\ \A x : Turn(x, Fx(op, 0)) = PublicState[op]
<1>1. PICK f : f = Fx(op, 0)
  OBVIOUS
<1>2. f = [op |-> op, n |-> 0] /\ f.op = op
  BY <1>1 DEF Fx
<1>3. op \in PublicationOps /\ op # "AbortInFlightAttempt"
  BY DEF StateOps, PublicationOps
<1>4. f \in Effects
  BY <1>2, <1>3 DEF Effects
<1> QED BY <1>1, <1>2, <1>3, <1>4 DEF Turn

\* What an event leaves alone of the loop.
Same(n, r) == n.active = r.active /\ n.clock = r.clock /\ n.epoch = r.epoch

LEMMA CloseEdgeSays ==
  ASSUME NEW r \in ReconnectStates
  PROVE  /\ CloseEdge(r).r \in ReconnectStates
         /\ Same(CloseEdge(r).r, r) /\ CloseEdge(r).r.phase = r.phase
         /\ \A x, p : Says(CloseEdge(r).fx, x, x, p)
<1>1. PICK n : n = CloseEdge(r).r
  OBVIOUS
<1>2. n = [r EXCEPT !.edge = NoGeneration]
  BY <1>1 DEF CloseEdge, Out
<1>3. n \in ReconnectStates /\ Same(n, r) /\ n.phase = r.phase
  BY <1>2 DEF ReconnectStates, Same, NoGeneration
<1>4. ASSUME NEW x, NEW p PROVE Says(CloseEdge(r).fx, x, x, p)
  <2>1. CASE r.edge = NoGeneration
    <3>1. CloseEdge(r).fx = <<>>
      BY <2>1 DEF CloseEdge, Out
    <3> QED BY <3>1, SaysNothing
  <2>2. CASE r.edge # NoGeneration
    <3>1. CloseEdge(r).fx = <<Fx("EdgeLost", r.edge)>>
      BY <2>2 DEF CloseEdge, Out
    <3>2. PICK op, m, f : op = "EdgeLost" /\ m = r.edge /\ f = Fx(op, m)
      OBVIOUS
    <3>3. m \in Int /\ op \in ShellOps \cup EdgeOps \cup {"ArmLoopTimer"}
      BY <3>2 DEF ReconnectStates, EdgeOps
    <3>4. f \in Effects /\ f.op = op /\ Turn(x, f) = x
      BY <3>2, <3>3, ShellEffect
    <3>5. f.op # "AbortInFlightAttempt"
      BY <3>2, <3>4
    <3>6. Says(<<f>>, x, Turn(x, f), p)
      BY <3>4, <3>5, SaysOne
    <3> QED BY <3>1, <3>2, <3>4, <3>6
  <2> QED BY <2>1, <2>2
<1> QED BY <1>1, <1>3, <1>4

LEMMA SetPhaseSays ==
  ASSUME NEW r \in ReconnectStates, NEW q \in Phases
  PROVE  /\ SetPhase(r, q).r \in ReconnectStates
         /\ Same(SetPhase(r, q).r, r) /\ SetPhase(r, q).r.phase = q
         /\ \A x, p : Says(SetPhase(r, q).fx, x, x, p)
<1>1. PICK c : c = IF q = "Connected" THEN Out(r, <<>>) ELSE CloseEdge(r)
  OBVIOUS
<1>2. PICK b : b = c.r
  OBVIOUS
<1>3. b \in ReconnectStates /\ Same(b, r) /\ \A x, p : Says(c.fx, x, x, p)
  <2>1. CASE q = "Connected"
    <3>1. b = r /\ c.fx = <<>>
      BY <1>1, <1>2, <2>1 DEF Out
    <3> QED BY <3>1, SaysNothing DEF Same
  <2>2. CASE q # "Connected"
    BY <1>1, <1>2, <2>2, CloseEdgeSays
  <2> QED BY <2>1, <2>2
<1>4. SetPhase(r, q) = Out([b EXCEPT !.phase = q], c.fx)
  BY <1>1, <1>2 DEF SetPhase
<1>5. PICK n : n = [b EXCEPT !.phase = q]
  OBVIOUS
<1>6. n \in ReconnectStates /\ Same(n, b) /\ n.phase = q
  BY <1>3, <1>5 DEF ReconnectStates, Same
<1>7. SetPhase(r, q).r = n /\ SetPhase(r, q).fx = c.fx
  BY <1>4, <1>5 DEF Out
<1>8. Same(n, r)
  BY <1>3, <1>6 DEF Same
<1> QED BY <1>3, <1>6, <1>7, <1>8

LEMMA StopLoopFields ==
  ASSUME NEW r \in ReconnectStates
  PROVE  /\ StopLoop(r) \in ReconnectStates /\ ~StopLoop(r).active
         /\ StopLoop(r).clock = NoClock /\ StopLoop(r).phase = r.phase
         /\ StopLoop(r).epoch = r.epoch + 1
<1>1. PICK m \in Nat : m = r.epoch + 1
  <2>1. r.epoch + 1 \in Nat
    BY DEF ReconnectStates
  <2> QED BY <2>1
<1>2. PICK n : n = StopLoop(r)
  OBVIOUS
<1>3. n = [r EXCEPT !.epoch = m, !.active = FALSE, !.inFlight = FALSE,
                    !.pendingWake = FALSE, !.clock = NoClock]
  BY <1>1, <1>2 DEF StopLoop
<1>4. n \in ReconnectStates /\ n.active = FALSE /\ n.clock = NoClock /\ n.phase = r.phase /\ n.epoch = m
  BY <1>3 DEF ReconnectStates
<1> QED BY <1>1, <1>2, <1>4

-----------------------------------------------------------------------------
\* An event that keeps the phase and the loop and shows nothing.
LEMMA SilentMoves ==
  ASSUME NEW r, NEW n, NEW fx, Same(n, r), n.phase = r.phase,
         \A x, p : Says(fx, x, x, p)
  PROVE  Moves(r, Out(n, fx))
<1>1. Out(n, fx).r = n /\ Out(n, fx).fx = fx
  BY DEF Out
<1>2. ASSUME NEW x, Agree(x, r)
      PROVE  Agree(x, n)
  BY <1>2 DEF Agree, Same
<1>3. Starts(r, Out(n, fx))
  BY <1>1 DEF Starts, Same
<1> QED BY <1>1, <1>2, <1>3 DEF Moves

LEMMA IgnoredMoves ==
  ASSUME NEW r
  PROVE  Moves(r, Out(r, <<>>))
<1>1. Same(r, r)
  BY DEF Same
<1> QED BY <1>1, SaysNothing, SilentMoves

\* An event that leaves the reducer idle without a loop and shows Disconnected.
LEMMA EndMoves ==
  ASSUME NEW r, NEW n, NEW fx, ~n.active, n.phase = "Idle",
         \A x : Says(fx, x, "Disconnected", "Idle")
  PROVE  Moves(r, Out(n, fx))
<1>1. Out(n, fx).r = n /\ Out(n, fx).fx = fx
  BY DEF Out
<1>2. Agree("Disconnected", n)
  BY DEF Agree
<1>3. Starts(r, Out(n, fx))
  BY <1>1 DEF Starts
<1> QED BY <1>1, <1>2, <1>3 DEF Moves

LEMMA AbortSays ==
  ASSUME NEW d \in ReconnectStates
  PROVE  /\ AbortLoopAttempt(d).r \in ReconnectStates
         /\ Same(AbortLoopAttempt(d).r, d) /\ AbortLoopAttempt(d).r.phase = "Idle"
         /\ \A x : Says(AbortLoopAttempt(d).fx, x, x, "Idle")
<1>1. PICK c : c = SetPhase(d, "Idle")
  OBVIOUS
<1>2. /\ c.r \in ReconnectStates /\ Same(c.r, d) /\ c.r.phase = "Idle"
      /\ \A x, p : Says(c.fx, x, x, p)
  BY <1>1, SetPhaseSays DEF Phases
<1>3. PICK op, f : op = "AbortInFlightAttempt" /\ f = Fx(op, 0)
  OBVIOUS
<1>4. op \in ShellOps \cup EdgeOps \cup {"ArmLoopTimer"}
  BY <1>3 DEF ShellOps
<1>5. f \in Effects /\ f.op = op /\ \A x : Turn(x, f) = x
  BY <1>3, <1>4, ShellEffect
<1>6. ASSUME NEW x PROVE Says(Append(c.fx, f), x, x, "Idle")
  <2>1. Says(Append(c.fx, f), x, Turn(x, f), "Idle")
    BY <1>2, <1>5, SaysMore
  <2> QED BY <1>5, <2>1
<1>7. AbortLoopAttempt(d).r = c.r /\ AbortLoopAttempt(d).fx = Append(c.fx, f)
  BY <1>1, <1>3 DEF AbortLoopAttempt, Out
<1> QED BY <1>2, <1>6, <1>7

\* The path observer is told first.
LEMMA InvalidatesSilently ==
  ASSUME NEW x, NEW p
  PROVE  Says(<<Fx("InvalidatePathObserver", 0)>>, x, x, p)
<1>1. PICK op, f : op = "InvalidatePathObserver" /\ f = Fx(op, 0)
  OBVIOUS
<1>2. op \in ShellOps \cup EdgeOps \cup {"ArmLoopTimer"}
  BY <1>1 DEF ShellOps
<1>3. f \in Effects /\ f.op = op /\ Turn(x, f) = x
  BY <1>1, <1>2, ShellEffect
<1>4. Says(<<f>>, x, Turn(x, f), p)
  BY <1>1, <1>3, SaysOne
<1> QED BY <1>1, <1>3, <1>4

\* A public state is told last.
LEMMA SaysState ==
  ASSUME NEW a, NEW x, NEW y, NEW p, Says(a, x, y, p), NEW op \in StateOps
  PROVE  /\ Says(Append(a, Fx(op, 0)), x, PublicState[op], p)
         /\ Says(a \o <<Fx(op, 0)>>, x, PublicState[op], p)
<1>1. PICK f : f = Fx(op, 0)
  OBVIOUS
<1>2. f \in Effects /\ f.op # "AbortInFlightAttempt" /\ Turn(y, f) = PublicState[op]
  BY <1>1, StateEffect
<1>3. Says(Append(a, f), x, Turn(y, f), p) /\ Says(a \o <<f>>, x, Turn(y, f), p)
  BY <1>2, SaysMore
<1> QED BY <1>1, <1>2, <1>3

-----------------------------------------------------------------------------
LEMMA ManualConnectMoves ==
  ASSUME NEW r \in ReconnectStates, r.phase # "Connecting"
  PROVE  Moves(r, ManualConnectStarted(r)) /\ ManualConnectStarted(r).r.phase = "Connecting"
<1>1. PICK c : c = SetPhase(r, "Connecting")
  OBVIOUS
<1>2. /\ c.r \in ReconnectStates /\ c.r.phase = "Connecting" /\ \A x, p : Says(c.fx, x, x, p)
  BY <1>1, SetPhaseSays DEF Phases
<1>3. PICK b, d, n : /\ b = c.r
                     /\ d = [b EXCEPT !.lastAttempt = TRUE, !.userDisc = FALSE,
                                      !.background = "Foreground"]
                     /\ n = StopLoop(d)
  OBVIOUS
<1>4. d \in ReconnectStates /\ d.phase = "Connecting"
  BY <1>2, <1>3 DEF ReconnectStates, Backgrounds
<1>5. ~n.active /\ n.phase = "Connecting"
  BY <1>3, <1>4, StopLoopFields
<1>6. PICK fi, fp : fi = Fx("InvalidatePathObserver", 0) /\ fp = Fx("PublishConnecting", 0)
  OBVIOUS
<1>7. ManualConnectStarted(r) = Out(n, c.fx \o <<fi, fp>>)
  BY <1>1, <1>3, <1>6 DEF ManualConnectStarted
<1>8. ASSUME NEW x PROVE Says(c.fx \o <<fi, fp>>, x, "Connecting", "Connecting")
  <2>1. Says(c.fx, x, x, "Connecting") /\ Says(<<fi>>, x, x, "Connecting")
    BY <1>2, <1>6, InvalidatesSilently
  <2>2. PICK op : op = "PublishConnecting"
    OBVIOUS
  <2>3. op \in StateOps /\ PublicState[op] = "Connecting" /\ fp = Fx(op, 0)
    BY <1>6, <2>2, ShownOps DEF StateOps
  <2>4. Says(Append(<<fi>>, fp), x, "Connecting", "Connecting")
    BY <2>1, <2>3, SaysState
  <2>5. Append(<<fi>>, fp) = <<fi, fp>>
    BY TwoEffects
  <2>6. Says(<<fi, fp>>, x, "Connecting", "Connecting")
    BY <2>4, <2>5
  <2> QED BY <2>1, <2>6, SaysBoth
<1>9. Agree("Connecting", n)
  BY <1>5 DEF Agree
<1>10. PICK out : out = ManualConnectStarted(r)
  OBVIOUS
<1>11. out.r = n /\ out.fx = c.fx \o <<fi, fp>>
  BY <1>7, <1>10 DEF Out
<1>12. Starts(r, out)
  BY <1>5, <1>11 DEF Starts
<1> QED BY <1>5, <1>8, <1>9, <1>10, <1>11, <1>12 DEF Moves

LEMMA CancelMoves ==
  ASSUME NEW r \in ReconnectStates
  PROVE  Moves(r, CancelReconnect(r)) /\ CancelReconnect(r).r.phase \in {r.phase, "Idle"}
<1>1. PICK b, d : b = StopLoop(r) /\ d = [b EXCEPT !.background = "Foreground"]
  OBVIOUS
<1>2. b \in ReconnectStates /\ ~b.active /\ b.phase = r.phase /\ b.clock = NoClock
  BY <1>1, StopLoopFields
<1>3. CASE r.active
  <2>1. d \in ReconnectStates /\ ~d.active
    BY <1>1, <1>2 DEF ReconnectStates, Backgrounds
  <2>2. PICK c : c = AbortLoopAttempt(d)
    OBVIOUS
  <2>3. c.r.phase = "Idle" /\ ~c.r.active /\ \A x : Says(c.fx, x, x, "Idle")
    BY <2>1, <2>2, AbortSays DEF Same
  <2>4. PICK op : op = "PublishDisconnected"
    OBVIOUS
  <2>5. op \in StateOps /\ PublicState[op] = "Disconnected"
    BY <2>4, ShownOps DEF StateOps
  <2>6. PICK n, fx : n = c.r /\ fx = Append(c.fx, Fx(op, 0))
    OBVIOUS
  <2>7. \A x : Says(fx, x, "Disconnected", "Idle")
    BY <2>3, <2>5, <2>6, SaysState
  <2>8. Moves(r, Out(n, fx))
    BY <2>3, <2>6, <2>7, EndMoves
  <2>9. CancelReconnect(r) = Out(n, fx)
    BY <1>1, <1>3, <2>2, <2>4, <2>6 DEF CancelReconnect
  <2> QED BY <2>3, <2>6, <2>8, <2>9 DEF Out
<1>4. CASE ~r.active
  <2>1. CancelReconnect(r) = Out(b, <<>>)
    BY <1>1, <1>4 DEF CancelReconnect
  <2>0. PICK out : out = Out(b, <<>>)
    OBVIOUS
  <2>2. out = Out(b, <<>>) /\ out.r = b /\ out.fx = <<>>
    BY <2>0 DEF Out
  <2>3. ASSUME NEW x, Agree(x, r) PROVE Agree(x, b)
    <3>1. x # "Reconnecting"
      BY <1>4, <2>3, Zenon DEF Agree
    <3>2. /\ r.phase = "Connected" => x = "Connected"
          /\ x = "Connected" => r.phase \in {"Connected", "Connecting"}
      BY <1>4, <2>3, Zenon DEF Agree
    <3> QED BY <1>2, <3>1, <3>2, Zenon DEF Agree
  <2>4. Starts(r, out)
    BY <1>2, <2>2 DEF Starts
  <2>5. Moves(r, out)
    BY <2>2, <2>3, <2>4, SaysNothing DEF Moves
  <2> QED BY <1>2, <2>1, <2>2, <2>5
<1> QED BY <1>3, <1>4

LEMMA UserDisconnectMoves ==
  ASSUME NEW r \in ReconnectStates
  PROVE  Moves(r, UserDisconnect(r)) /\ UserDisconnect(r).r.phase \in {r.phase, "Idle"}
<1>1. CASE r.active
  <2>0. PICK b, d : b = StopLoop(r) /\ d = [b EXCEPT !.userDisc = FALSE, !.background = "Foreground"]
    OBVIOUS
  <2>1. d \in ReconnectStates /\ ~d.active
    <3>1. b \in ReconnectStates /\ ~b.active
      BY <2>0, StopLoopFields
    <3> QED BY <2>0, <3>1 DEF ReconnectStates, Backgrounds
  <2>2. PICK c : c = AbortLoopAttempt(d)
    OBVIOUS
  <2>3. c.r.phase = "Idle" /\ ~c.r.active /\ \A x : Says(c.fx, x, x, "Idle")
    BY <2>1, <2>2, AbortSays DEF Same
  <2>4. PICK op : op = "PublishDisconnected"
    OBVIOUS
  <2>5. op \in StateOps /\ PublicState[op] = "Disconnected"
    BY <2>4, ShownOps DEF StateOps
  <2>6. PICK a, n, fx : /\ a = <<Fx("InvalidatePathObserver", 0)>> \o c.fx /\ n = c.r
                        /\ fx = a \o <<Fx(op, 0)>>
    OBVIOUS
  <2>7. ASSUME NEW x PROVE Says(fx, x, "Disconnected", "Idle")
    <3>1. Says(<<Fx("InvalidatePathObserver", 0)>>, x, x, "Idle")
      BY InvalidatesSilently
    <3>2. Says(a, x, x, "Idle")
      BY <2>3, <2>6, <3>1, SaysBoth
    <3> QED BY <2>5, <2>6, <3>2, SaysState
  <2>8. Moves(r, Out(n, fx))
    BY <2>3, <2>6, <2>7, EndMoves
  <2>9. UserDisconnect(r) = Out(n, fx)
    BY <1>1, <2>0, <2>2, <2>4, <2>6 DEF UserDisconnect
  <2> QED BY <2>3, <2>6, <2>8, <2>9 DEF Out
<1>2. CASE ~r.active
  <2>1. PICK n, f, op : /\ n = [r EXCEPT !.userDisc = TRUE] /\ op = "DisconnectSession"
                        /\ f = Fx(op, 0)
    OBVIOUS
  <2>2. Same(n, r) /\ n.phase = r.phase
    BY <2>1 DEF ReconnectStates, Same
  <2>3. op \in ShellOps \cup EdgeOps \cup {"ArmLoopTimer"}
    BY <2>1 DEF ShellOps
  <2>4. f \in Effects /\ f.op = op /\ \A x : Turn(x, f) = x
    BY <2>1, <2>3, ShellEffect
  <2>5. ASSUME NEW x, NEW p PROVE Says(<<f>>, x, x, p)
    <3>1. Says(<<f>>, x, Turn(x, f), p)
      BY <2>1, <2>4, SaysOne
    <3> QED BY <2>4, <3>1
  <2>6. Moves(r, Out(n, <<f>>))
    BY <2>2, <2>5, SilentMoves
  <2>7. UserDisconnect(r) = Out(n, <<f>>)
    BY <1>2, <2>1 DEF UserDisconnect
  <2> QED BY <2>2, <2>6, <2>7 DEF Out
<1> QED BY <1>1, <1>2

LEMMA AttemptConnectedMoves ==
  ASSUME NEW r \in ReconnectStates, NEW g \in Nat
  PROVE  Moves(r, AttemptConnected(r, g)) /\ AttemptConnected(r, g).r.phase = "Connected"
<1>1. PICK c : c = IF r.edge \notin {NoGeneration, g} THEN CloseEdge(r) ELSE Out(r, <<>>)
  OBVIOUS
<1>2. c.r \in ReconnectStates /\ \A x, p : Says(c.fx, x, x, p)
  <2>1. Out(r, <<>>).r = r /\ Out(r, <<>>).fx = <<>>
    BY DEF Out
  <2> QED BY <1>1, <2>1, CloseEdgeSays, SaysNothing
<1>3. PICK b, d, up : b = c.r /\ d = SetPhase(b, "Connected").r /\ up = StopLoop(d)
  OBVIOUS
<1>4. d \in ReconnectStates /\ d.phase = "Connected"
  BY <1>2, <1>3, SetPhaseSays DEF Phases
<1>5. up \in ReconnectStates /\ up.phase = "Connected" /\ ~up.active
  BY <1>3, <1>4, StopLoopFields
<1>6. PICK opens : opens = (up.edge = NoGeneration /\ g > up.lastEst)
  OBVIOUS
<1>7. PICK n, a, s : /\ n = IF opens THEN [up EXCEPT !.edge = g, !.lastEst = g] ELSE up
                     /\ a = c.fx \o <<Fx("PublishConnected", 0)>>
                     /\ s = IF opens THEN <<Fx("EdgeEstablished", g)>> ELSE <<>>
  OBVIOUS
<1>8. n.phase = "Connected" /\ ~n.active
  BY <1>5, <1>7 DEF ReconnectStates
<1>9. ASSUME NEW x PROVE Says(a \o s, x, "Connected", "Connected")
  <2>1. PICK op : op = "PublishConnected"
    OBVIOUS
  <2>2. op \in StateOps /\ PublicState[op] = "Connected"
    BY <2>1, ShownOps DEF StateOps
  <2>3. Says(c.fx, x, x, "Connected")
    BY <1>2
  <2>4. Says(a, x, "Connected", "Connected")
    BY <1>7, <2>1, <2>2, <2>3, SaysState
  <2>5. Says(s, "Connected", "Connected", "Connected")
    <3>1. PICK oe, f : oe = "EdgeEstablished" /\ f = Fx(oe, g)
      OBVIOUS
    <3>2. oe \in ShellOps \cup EdgeOps \cup {"ArmLoopTimer"} /\ g \in Int
      BY <3>1 DEF EdgeOps
    <3>3. f \in Effects /\ f.op = oe /\ Turn("Connected", f) = "Connected"
      BY <3>1, <3>2, ShellEffect
    <3>4. Says(<<f>>, "Connected", Turn("Connected", f), "Connected")
      BY <3>1, <3>3, SaysOne
    <3>5. Says(<<>>, "Connected", "Connected", "Connected")
      BY SaysNothing
    <3> QED BY <1>7, <3>1, <3>3, <3>4, <3>5
  <2> QED BY <2>4, <2>5, SaysBoth
<1>10. AttemptConnected(r, g) = Out(n, a \o s)
  <2>1. CASE opens
    <3>1. n = [up EXCEPT !.edge = g, !.lastEst = g] /\ s = <<Fx("EdgeEstablished", g)>>
      BY <1>7, <2>1
    <3> QED BY <1>1, <1>3, <1>6, <1>7, <2>1, <3>1 DEF AttemptConnected
  <2>2. CASE ~opens
    <3>1. n = up /\ s = <<>>
      BY <1>7, <2>2
    <3> QED BY <1>1, <1>3, <1>6, <1>7, <2>2, <3>1 DEF AttemptConnected
  <2> QED BY <2>1, <2>2
<1>0. PICK out : out = AttemptConnected(r, g)
  OBVIOUS
<1>11. out = AttemptConnected(r, g) /\ out.r = n /\ out.fx = a \o s
  BY <1>0, <1>10 DEF Out
<1>12. Agree("Connected", n) /\ Starts(r, out)
  BY <1>8, <1>11 DEF Agree, Starts
<1> QED BY <1>8, <1>9, <1>11, <1>12 DEF Moves

-----------------------------------------------------------------------------
LEMMA SessionCreatedMoves ==
  ASSUME NEW r \in ReconnectStates, NEW g
  PROVE  Moves(r, SessionCreated(r, g)) /\ SessionCreated(r, g).r.phase = r.phase
<1>1. CASE r.edge \notin {NoGeneration, g}
  <2>1. PICK n, fx : n = CloseEdge(r).r /\ fx = CloseEdge(r).fx
    OBVIOUS
  <2>2. Same(n, r) /\ n.phase = r.phase /\ \A x, p : Says(fx, x, x, p)
    BY <2>1, CloseEdgeSays
  <2>3. Moves(r, Out(n, fx))
    BY <2>2, SilentMoves
  <2>4. SessionCreated(r, g) = Out(n, fx)
    BY <1>1, <2>1 DEF SessionCreated, CloseEdge, Out
  <2> QED BY <2>2, <2>3, <2>4 DEF Out
<1>2. CASE r.edge \in {NoGeneration, g}
  <2>1. SessionCreated(r, g) = Out(r, <<>>)
    BY <1>2 DEF SessionCreated
  <2> QED BY <2>1, IgnoredMoves DEF Out
<1> QED BY <1>1, <1>2

LEMMA SessionStartingMoves ==
  ASSUME NEW r \in ReconnectStates
  PROVE  /\ Moves(r, ReconnectSessionStarting(r))
         /\ ReconnectSessionStarting(r).r.phase = "Connecting"
<1>1. PICK out : out = SetPhase(r, "Connecting")
  OBVIOUS
<1>2. Same(out.r, r) /\ out.r.phase = "Connecting" /\ \A x, p : Says(out.fx, x, x, p)
  BY <1>1, SetPhaseSays DEF Phases
<1>3. ASSUME NEW x, Agree(x, r) PROVE Agree(x, out.r)
  BY <1>2, <1>3 DEF Agree, Same
<1>4. Starts(r, out)
  BY <1>2 DEF Starts, Same
<1> QED BY <1>1, <1>2, <1>3, <1>4 DEF Moves, ReconnectSessionStarting

LEMMA AttemptDisconnectedMoves ==
  ASSUME NEW r \in ReconnectStates, NEW kind
  PROVE  /\ Moves(r, AttemptDisconnected(r, kind))
         /\ AttemptDisconnected(r, kind).r.phase = "Idle"
<1>1. PICK d : d = [r EXCEPT !.userDisc = FALSE, !.inFlight = FALSE]
  OBVIOUS
<1>2. d \in ReconnectStates /\ Same(d, r)
  BY <1>1 DEF ReconnectStates, Same
<1>3. PICK idle, b : idle = SetPhase(d, "Idle") /\ b = idle.r
  OBVIOUS
<1>4. /\ b \in ReconnectStates /\ b.phase = "Idle" /\ Same(b, r)
      /\ \A x, p : Says(idle.fx, x, x, p)
  <2>1. /\ b \in ReconnectStates /\ b.phase = "Idle" /\ Same(b, d)
        /\ \A x, p : Says(idle.fx, x, x, p)
    BY <1>2, <1>3, SetPhaseSays DEF Phases
  <2> QED BY <1>2, <2>1 DEF Same
<1>5. PICK first : first = <<Fx("InvalidatePathObserver", 0)>> \o idle.fx
  OBVIOUS
<1>6. ASSUME NEW x, NEW p PROVE Says(first, x, x, p)
  <2>1. Says(<<Fx("InvalidatePathObserver", 0)>>, x, x, p) /\ Says(idle.fx, x, x, p)
    BY <1>4, InvalidatesSilently
  <2> QED BY <1>5, <2>1, SaysBoth
<1>0. PICK out : out = AttemptDisconnected(r, kind)
  OBVIOUS
<1>7. CASE r.active
  <2>1. PICK more : more = IF r.pendingWake THEN <<Fx("WakeReconnectLoop", 0)>> ELSE <<>>
    OBVIOUS
  <2>2. ASSUME NEW x, NEW p PROVE Says(more, x, x, p)
    <3>1. PICK op, f : op = "WakeReconnectLoop" /\ f = Fx(op, 0)
      OBVIOUS
    <3>2. op \in ShellOps \cup EdgeOps \cup {"ArmLoopTimer"}
      BY <3>1 DEF ShellOps
    <3>3. f \in Effects /\ f.op = op /\ Turn(x, f) = x
      BY <3>1, <3>2, ShellEffect
    <3>4. Says(<<f>>, x, Turn(x, f), p)
      BY <3>1, <3>3, SaysOne
    <3>5. Says(<<>>, x, x, p)
      BY SaysNothing
    <3> QED BY <2>1, <3>1, <3>3, <3>4, <3>5
  <2>3. AttemptDisconnected(r, kind) = Out(b, first \o more)
    BY <1>1, <1>3, <1>5, <1>7, <2>1 DEF AttemptDisconnected
  <2>4. out.r = b /\ out.fx = first \o more
    BY <1>0, <2>3 DEF Out
  <2>5. ASSUME NEW x, Agree(x, r) PROVE Says(out.fx, x, x, out.r.phase) /\ Agree(x, b)
    <3>1. Says(first \o more, x, x, out.r.phase)
      BY <1>6, <2>2, SaysBoth
    <3>2. x = "Reconnecting" \/ r.clock = NoClock
      BY <1>7, <2>5, Zenon DEF Agree
    <3>3. b.active /\ b.clock = r.clock
      BY <1>4, <1>7 DEF Same
    <3>4. Agree(x, b)
      BY <1>4, <3>2, <3>3 DEF Agree
    <3> QED BY <2>4, <3>1, <3>4
  <2>6. Starts(r, out)
    BY <1>4, <2>4 DEF Starts, Same
  <2> QED BY <1>0, <1>4, <2>4, <2>5, <2>6 DEF Moves
<1>8. CASE ~r.active /\ r.phase = "Connected" /\ ~r.userDisc /\ kind # "GracefulRemoteExit"
           /\ r.lastAttempt
  <2>1. PICK m \in Nat : m = r.epoch + 1
    <3>1. r.epoch + 1 \in Nat
      BY DEF ReconnectStates
    <3> QED BY <3>1
  <2>2. PICK n, f : /\ n = [b EXCEPT !.pendingWake = FALSE, !.active = TRUE, !.epoch = m,
                                     !.clock = NoClock]
                    /\ f = Fx(Spawn, m)
    OBVIOUS
  <2>3. n.epoch = m /\ n.clock = NoClock /\ n.active = TRUE /\ n.phase = "Idle"
    BY <1>4, <2>2 DEF ReconnectStates
  <2>4. AttemptDisconnected(r, kind) = Out(n, Append(first, f))
    BY <1>1, <1>3, <1>4, <1>5, <1>8, <2>1, <2>2 DEF AttemptDisconnected, Spawn, Same
  <2>5. out.r = n /\ out.fx = Append(first, f)
    BY <1>0, <2>4 DEF Out
  <2>6. Spawn \in ShellOps \cup EdgeOps \cup {"ArmLoopTimer"} /\ Spawn # "AbortInFlightAttempt"
    BY DEF ShellOps, Spawn
  <2>7. f \in Effects /\ f.op # "AbortInFlightAttempt" /\ \A x : Turn(x, f) = x
    BY <2>2, <2>6, ShellEffect
  <2>8. ASSUME NEW x PROVE Says(out.fx, x, x, "Idle")
    <3>1. Says(Append(first, f), x, Turn(x, f), "Idle")
      BY <1>6, <2>7, SaysMore
    <3> QED BY <2>5, <2>7, <3>1
  <2>9. \A x : Agree(x, n)
    BY <2>3 DEF Agree
  <2>10. Starts(r, out)
    <3>1. first \in Seq(Effects)
      BY <1>6 DEF Says
    <3>2. PICK q : q = Append(first, f)
      OBVIOUS
    <3>3. Len(q) = Len(first) + 1 /\ q[Len(first) + 1] = f /\ Len(first) \in Nat
      BY <2>7, <3>1, <3>2
    <3>4. Len(first) + 1 \in 1 .. Len(q)
      BY <3>3
    <3> QED BY <2>2, <2>3, <2>5, <3>2, <3>3, <3>4 DEF Starts
  <2> QED BY <1>0, <2>3, <2>5, <2>8, <2>9, <2>10 DEF Moves
<1>9. CASE ~r.active /\ ~(r.phase = "Connected" /\ ~r.userDisc /\ kind # "GracefulRemoteExit"
                          /\ r.lastAttempt)
  <2>1. PICK n, op, fx : /\ n = [b EXCEPT !.pendingWake = FALSE, !.background = "Foreground"]
                         /\ op = "PublishDisconnected" /\ fx = Append(first, Fx(op, 0))
    OBVIOUS
  <2>2. ~n.active /\ n.phase = "Idle"
    BY <1>4, <1>9, <2>1 DEF ReconnectStates, Same
  <2>3. op \in StateOps /\ PublicState[op] = "Disconnected"
    BY <2>1, ShownOps DEF StateOps
  <2>4. ASSUME NEW x PROVE Says(fx, x, "Disconnected", "Idle")
    BY <1>6, <2>1, <2>3, SaysState
  <2>5. Moves(r, Out(n, fx))
    BY <2>2, <2>4, EndMoves
  <2>6. AttemptDisconnected(r, kind) = Out(n, fx)
    BY <1>1, <1>3, <1>5, <1>9, <2>1 DEF AttemptDisconnected
  <2> QED BY <2>2, <2>5, <2>6 DEF Out
<1> QED BY <1>7, <1>8, <1>9

-----------------------------------------------------------------------------
\* The effects of a loop that goes on.
LEMMA LoopSays ==
  ASSUME NEW e \in Int, NEW x, NEW p
  PROVE  /\ Says(<<Fx("ArmLoopTimer", e)>>, x, x, p)
         /\ Says(<<Fx("StartAttempt", e), Fx("ArmLoopTimer", e)>>, x, x, p)
         /\ Says(<<Fx("PublishReconnecting", 0), Fx("ArmLoopTimer", e)>>, x, "Reconnecting", p)
         /\ Says(<<Fx("PublishReconnecting", 0), Fx("StartAttempt", e), Fx("ArmLoopTimer", e)>>,
                 x, "Reconnecting", p)
<1>1. PICK oa, os, op, a, s, u : /\ oa = "ArmLoopTimer" /\ os = "StartAttempt"
                                 /\ op = "PublishReconnecting"
                                 /\ a = Fx(oa, e) /\ s = Fx(os, e) /\ u = Fx(op, 0)
  OBVIOUS
<1>2. /\ oa \in ShellOps \cup EdgeOps \cup {"ArmLoopTimer"}
      /\ os \in ShellOps \cup EdgeOps \cup {"ArmLoopTimer"}
  BY <1>1 DEF ShellOps
<1>3. a \in Effects /\ a.op = oa /\ \A y : Turn(y, a) = y
  BY <1>1, <1>2, ShellEffect
<1>4. s \in Effects /\ s.op = os /\ \A y : Turn(y, s) = y
  BY <1>1, <1>2, ShellEffect
<1>5. a.op # "AbortInFlightAttempt" /\ s.op # "AbortInFlightAttempt"
  BY <1>1, <1>3, <1>4
<1>6. op \in StateOps /\ PublicState[op] = "Reconnecting"
  BY <1>1, ShownOps DEF StateOps
<1>7. Says(<<a>>, x, x, p) /\ Says(<<s>>, x, x, p)
  <2>1. Says(<<a>>, x, Turn(x, a), p) /\ Says(<<s>>, x, Turn(x, s), p)
    BY <1>3, <1>4, <1>5, SaysOne
  <2> QED BY <1>3, <1>4, <2>1
<1>8. Says(<<u>>, x, "Reconnecting", p)
  <2>1. u \in Effects /\ u.op # "AbortInFlightAttempt" /\ Turn(x, u) = "Reconnecting"
    BY <1>1, <1>6, StateEffect
  <2>2. Says(<<u>>, x, Turn(x, u), p)
    BY <2>1, SaysOne
  <2> QED BY <2>1, <2>2
<1>9. Says(Append(<<s>>, a), x, x, p)
  <2>1. Says(Append(<<s>>, a), x, Turn(x, a), p)
    BY <1>3, <1>5, <1>7, SaysMore
  <2> QED BY <1>3, <2>1
<1>10. ASSUME NEW f, f = a \/ f = s PROVE Says(Append(<<u>>, f), x, "Reconnecting", p)
  <2>1. f \in Effects /\ f.op # "AbortInFlightAttempt" /\ Turn("Reconnecting", f) = "Reconnecting"
    BY <1>3, <1>4, <1>5, <1>10
  <2>2. Says(Append(<<u>>, f), x, Turn("Reconnecting", f), p)
    BY <1>8, <2>1, SaysMore
  <2> QED BY <2>1, <2>2
<1>11. /\ Append(<<s>>, a) = <<s, a>> /\ Append(<<u>>, a) = <<u, a>>
       /\ Append(<<u>>, s) = <<u, s>> /\ Append(<<u, s>>, a) = <<u, s, a>>
  BY TwoEffects, ThreeEffects
<1>12. Says(<<s, a>>, x, x, p) /\ Says(<<u, a>>, x, "Reconnecting", p)
       /\ Says(<<u, s>>, x, "Reconnecting", p)
  <2>1. Says(Append(<<u>>, a), x, "Reconnecting", p) /\ Says(Append(<<u>>, s), x, "Reconnecting", p)
    BY <1>10
  <2> QED BY <1>9, <1>11, <2>1
<1>13. Says(<<u, s, a>>, x, "Reconnecting", p)
  <2>1. Says(Append(<<u, s>>, a), x, Turn("Reconnecting", a), p)
    BY <1>3, <1>5, <1>12, SaysMore
  <2> QED BY <1>3, <1>11, <2>1
<1> QED BY <1>1, <1>7, <1>12, <1>13

\* A live loop announces itself.
LEMMA LoopMoves ==
  ASSUME NEW r, r.active, NEW n, n.active, n.phase = r.phase, n.clock # NoClock, NEW fx,
         \A x, p : Says(fx, x, "Reconnecting", p)
  PROVE  Moves(r, Out(n, fx))
<1>1. Out(n, fx).r = n /\ Out(n, fx).fx = fx
  BY DEF Out
<1>2. ASSUME NEW x, Agree(x, r) PROVE Agree("Reconnecting", n)
  <2>1. n.phase # "Connected"
    BY <1>2, Zenon DEF Agree
  <2> QED BY <2>1 DEF Agree
<1>3. Starts(r, Out(n, fx))
  BY <1>1 DEF Starts
<1> QED BY <1>1, <1>2, <1>3 DEF Moves

LEMMA LoopStartedMoves ==
  ASSUME NEW r \in ReconnectStates, NEW e \in Int
  PROVE  Moves(r, LoopStarted(r, e)) /\ LoopStarted(r, e).r.phase = r.phase
<1>1. CASE e # r.epoch \/ ~r.active \/ r.clock # NoClock
  <2>1. LoopStarted(r, e) = Out(r, <<>>)
    BY <1>1 DEF LoopStarted
  <2> QED BY <2>1, IgnoredMoves DEF Out
<1>2. CASE ~(e # r.epoch \/ ~r.active \/ r.clock # NoClock)
  <2>1. PICK n, fx : /\ n = [r EXCEPT !.clock = 0]
                     /\ fx = <<Fx("PublishReconnecting", 0), Fx("ArmLoopTimer", e)>>
    OBVIOUS
  <2>2. n.phase = r.phase /\ n.active = r.active /\ n.clock # NoClock
    BY <2>1 DEF ReconnectStates, NoClock
  <2>3. \A x, p : Says(fx, x, "Reconnecting", p)
    BY <2>1, LoopSays
  <2>4. Moves(r, Out(n, fx))
    BY <1>2, <2>2, <2>3, LoopMoves
  <2>5. LoopStarted(r, e) = Out(n, fx)
    BY <1>2, <2>1 DEF LoopStarted
  <2> QED BY <2>2, <2>4, <2>5 DEF Out
<1> QED BY <1>1, <1>2

LEMMA ReconnectWakeMoves ==
  ASSUME NEW r \in ReconnectStates, NEW e \in Int
  PROVE  Moves(r, ReconnectWake(r, e)) /\ ReconnectWake(r, e).r.phase = r.phase
<1>1. CASE ~LoopIsLive(r, e)
  <2>1. ReconnectWake(r, e) = Out(r, <<>>)
    BY <1>1 DEF ReconnectWake
  <2> QED BY <2>1, IgnoredMoves DEF Out
<1>2. CASE LoopIsLive(r, e)
  <2>1. PICK n, fx :
          /\ n = IF r.inFlight THEN [r EXCEPT !.pendingWake = TRUE]
                 ELSE [r EXCEPT !.inFlight = TRUE, !.pendingWake = FALSE]
          /\ fx = IF r.inFlight THEN <<Fx("ArmLoopTimer", e)>>
                  ELSE <<Fx("StartAttempt", e), Fx("ArmLoopTimer", e)>>
    OBVIOUS
  <2>2. n.phase = r.phase /\ Same(n, r)
    BY <2>1 DEF ReconnectStates, Same
  <2>3. \A x, p : Says(fx, x, x, p)
    BY <2>1, LoopSays
  <2>4. Moves(r, Out(n, fx))
    BY <2>2, <2>3, SilentMoves
  <2>5. ReconnectWake(r, e) = Out(n, fx)
    BY <1>2, <2>1 DEF ReconnectWake
  <2> QED BY <2>2, <2>4, <2>5 DEF Out
<1> QED BY <1>1, <1>2

LEMMA ReconnectTickMoves ==
  ASSUME NEW r \in ReconnectStates, NEW e \in Int, NEW policy
  PROVE  /\ Moves(r, ReconnectTick(r, e, policy))
         /\ ReconnectTick(r, e, policy).r.phase \in {r.phase, "Idle"}
<1>1. CASE ~LoopIsLive(r, e)
  <2>1. ReconnectTick(r, e, policy) = Out(r, <<>>)
    BY <1>1 DEF ReconnectTick
  <2> QED BY <2>1, IgnoredMoves DEF Out
<1>2. CASE LoopIsLive(r, e)
  <2>1. PICK k : k = [r EXCEPT !.clock = @ + 1]
    OBVIOUS
  <2>2. k \in ReconnectStates /\ k.phase = r.phase /\ k.active /\ k.clock # NoClock /\ r.active
    <3>1. r.clock \in Nat /\ r.active
      BY <1>2 DEF LoopIsLive, ReconnectStates
    <3>2. PICK m \in Nat : m = r.clock + 1
      BY <3>1
    <3>3. k = [r EXCEPT !.clock = m]
      BY <2>1, <3>2
    <3> QED BY <3>1, <3>3 DEF ReconnectStates, NoClock
  <2>3. CASE k.clock >= policy.timeout
    <3>1. PICK d, c : d = StopLoop(r) /\ c = AbortLoopAttempt(d)
      OBVIOUS
    <3>2. d \in ReconnectStates /\ ~d.active
      BY <3>1, StopLoopFields
    <3>3. c.r.phase = "Idle" /\ ~c.r.active /\ \A x : Says(c.fx, x, x, "Idle")
      BY <3>1, <3>2, AbortSays DEF Same
    <3>4. PICK op, n, fx : /\ op = "PublishReconnectTimedOut" /\ n = c.r
                           /\ fx = Append(c.fx, Fx(op, 0))
      OBVIOUS
    <3>5. op \in StateOps /\ PublicState[op] = "Disconnected"
      BY <3>4, ShownOps DEF StateOps
    <3>6. \A x : Says(fx, x, "Disconnected", "Idle")
      BY <3>3, <3>4, <3>5, SaysState
    <3>7. Moves(r, Out(n, fx))
      BY <3>3, <3>4, <3>6, EndMoves
    <3>8. ReconnectTick(r, e, policy) = Out(n, fx)
      BY <1>2, <2>1, <2>3, <3>1, <3>4 DEF ReconnectTick
    <3> QED BY <3>3, <3>4, <3>7, <3>8 DEF Out
  <2>4. CASE ~(k.clock >= policy.timeout)
    <3>1. PICK n, fx :
            \/ /\ n = [k EXCEPT !.inFlight = TRUE, !.pendingWake = FALSE]
               /\ fx = <<Fx("PublishReconnecting", 0), Fx("StartAttempt", e), Fx("ArmLoopTimer", e)>>
               /\ ReconnectTick(r, e, policy) = Out(n, fx)
            \/ /\ n = k
               /\ fx = <<Fx("PublishReconnecting", 0), Fx("ArmLoopTimer", e)>>
               /\ ReconnectTick(r, e, policy) = Out(n, fx)
      BY <1>2, <2>1, <2>4 DEF ReconnectTick
    <3>2. n.phase = r.phase /\ n.active /\ n.clock # NoClock
      BY <2>2, <3>1 DEF ReconnectStates
    <3>3. \A x, p : Says(fx, x, "Reconnecting", p)
      BY <3>1, LoopSays
    <3>4. Moves(r, Out(n, fx))
      BY <2>2, <3>2, <3>3, LoopMoves
    <3> QED BY <3>1, <3>2, <3>4 DEF Out
  <2> QED BY <2>3, <2>4
<1> QED BY <1>1, <1>2

-----------------------------------------------------------------------------
(***************************************************************************)
(* The invariant behind the last two theorems, for behaviours in which no  *)
(* connect() was refused at once.  What the app has been shown and is      *)
(* still to be shown ends in a state that agrees with the reducer; while   *)
(* the reducer is connecting or connected there is a session of the        *)
(* current generation, or a thread that will make one; and a loop that has *)
(* no clock yet has a task that will start it.                             *)
(***************************************************************************)
ShowInv ==
  \E x, y : /\ Shows(queue, x, y) /\ Agree(y, rs)
            /\ (\A t \in Threads : ~At(t, "Deliver")) => x = shown
            /\ \A t \in Threads : At(t, "Deliver") => x = Turn(shown, Arg(t))

\* A session is built once, for a generation that has begun and has none yet.
BuildInv ==
  /\ \A g \in Generations : g > gen => sess[g] = "none"
  /\ \A t \in Threads : \A i \in 1 .. Len(thr[t]) : thr[t][i].op = "Build" =>
       /\ thr[t][i].n \in Generations /\ thr[t][i].n <= gen /\ sess[thr[t][i].n] = "none"
       /\ \A u \in Threads : \A j \in 1 .. Len(thr[u]) : thr[u][j] = thr[t][i] => u = t /\ j = i

Adapting == \E t \in Threads : \E i \in 1 .. Len(thr[t]) : thr[t][i].op = "NewAdapter"

LinkInv ==
  /\ rs.phase = "Connecting" =>
       Adapting \/ (gen \in Generations /\ (Waits(Fx("Build", gen)) \/ sess[gen] = "dialing"))
  /\ rs.phase = "Connected" =>
       gen \in Generations /\ (Waits(Fx("Build", gen)) \/ sess[gen] \in {"dialing", "up"})
  /\ rs.active /\ rs.clock = NoClock =>
       \/ Waits(Fx(Spawn, rs.epoch))
       \/ rs.epoch \in 1 .. MaxEpoch /\ At(Loop(rs.epoch), "LoopStarted")

LiveInv == BuildInv /\ (NoneRefused => ShowInv /\ LinkInv)

\* Thread t goes on with P, and perhaps a loop's task has begun.
Goes(t, P) ==
  /\ P \in Seq(Items) /\ thr' \in [Threads -> Seq(Items)] /\ thr'[t] = P \o After(t)
  /\ \A u \in Threads : u # t =>
       thr'[u] = thr[u] \/ (thr[u] = <<>> /\ thr'[u] = <<Fx("LoopStarted", 0)>>)

-----------------------------------------------------------------------------
\* Where the steps that wait afterwards come from.
Came(t, P, u, i) ==
  \/ u = t /\ i \in 1 .. Len(P) /\ thr'[u][i] = P[i]
  \/ /\ u = t /\ thr[t] # <<>>
     /\ \E k \in 1 .. Len(thr[t]) : k = i - Len(P) + 1 /\ k # 1 /\ thr'[u][i] = thr[t][k]
  \/ u # t /\ i \in 1 .. Len(thr[u]) /\ thr'[u][i] = thr[u][i]
  \/ u # t /\ thr'[u][i].op = "LoopStarted"

LEMMA GoesItems ==
  ASSUME ThreadInv, NEW t \in Threads, NEW P, Goes(t, P), NEW u \in Threads,
         NEW i \in 1 .. Len(thr'[u])
  PROVE  Came(t, P, u, i)
<1>1. thr[t] \in Seq(Items) /\ P \in Seq(Items) /\ After(t) \in Seq(Items)
  BY AfterItems DEF ThreadInv, Goes
<1>2. CASE u = t
  <2>1. PICK R, Q : R = After(t) /\ Q = P \o R /\ thr'[u] = Q
    BY <1>2 DEF Goes
  <2>2. \/ i \in 1 .. Len(P) /\ Q[i] = P[i]
        \/ i - Len(P) \in 1 .. Len(R) /\ i > Len(P) /\ Q[i] = R[i - Len(P)]
    BY <1>1, <2>1, JoinedItems
  <2>3. CASE i \in 1 .. Len(P) /\ Q[i] = P[i]
    BY <1>2, <2>1, <2>3 DEF Came
  <2>4. CASE i - Len(P) \in 1 .. Len(R) /\ Q[i] = R[i - Len(P)]
    <3>1. PICK k \in 1 .. Len(R) : k = i - Len(P)
      BY <2>4
    <3>2. R[k] = thr[t][k + 1] /\ k + 1 \in 1 .. Len(thr[t]) /\ thr[t] # <<>>
      <4>1. thr[t] # <<>>
        BY <1>1, <2>1, <3>1, AfterItems
      <4> QED BY <1>1, <2>1, <3>1, <4>1, AfterItems
    <3>3. PICK l \in 1 .. Len(thr[t]) : l = k + 1
      BY <3>2
    <3>4. l = i - Len(P) + 1 /\ l # 1
      BY <1>1, <3>1, <3>3
    <3> QED BY <1>2, <2>1, <2>4, <3>1, <3>2, <3>3, <3>4 DEF Came
  <2> QED BY <2>2, <2>3, <2>4
<1>3. CASE u # t
  <2>1. CASE thr'[u] = thr[u]
    BY <1>3, <2>1 DEF Came
  <2>2. CASE thr'[u] = <<Fx("LoopStarted", 0)>>
    <3>1. PICK h, Q : h = Fx("LoopStarted", 0) /\ Q = <<h>> /\ thr'[u] = Q
      BY <2>2
    <3>2. h.op = "LoopStarted" /\ Len(Q) = 1 /\ \A j \in 1 .. Len(Q) : Q[j] = h
      BY <3>1 DEF Fx
    <3> QED BY <1>3, <3>1, <3>2 DEF Came
  <2> QED BY <1>3, <2>1, <2>2 DEF Goes
<1> QED BY <1>2, <1>3

\* No step that waits is lost but the one that is executed.
LEMMA WaitsGo ==
  ASSUME ThreadInv, NEW t \in Threads, NEW P, Goes(t, P), NEW f,
         \/ \E i \in 1 .. Len(P) : P[i] = f
         \/ Waits(f) /\ ~(thr[t] # <<>> /\ Head(thr[t]) = f)
  PROVE  Waits(f)'
<1>1. PICK R, Q : R = After(t) /\ Q = P \o R
  OBVIOUS
<1>2. thr[t] \in Seq(Items) /\ R \in Seq(Items) /\ P \in Seq(Items)
  BY <1>1, AfterItems DEF ThreadInv, Goes
<1>3. thr'[t] = Q
  BY <1>1 DEF Goes
<1>4. /\ \A i \in 1 .. Len(P) : i \in 1 .. Len(Q) /\ Q[i] = P[i]
      /\ \A i \in 1 .. Len(R) : Len(P) + i \in 1 .. Len(Q) /\ Q[Len(P) + i] = R[i]
  BY <1>1, <1>2, JoinedItems
<1>5. SUFFICES \E u \in Threads : \E i \in 1 .. Len(thr'[u]) : thr'[u][i] = f
  BY DEF Waits
<1>6. CASE \E i \in 1 .. Len(P) : P[i] = f
  BY <1>3, <1>4, <1>6
<1>7. CASE Waits(f) /\ ~(thr[t] # <<>> /\ Head(thr[t]) = f)
  <2>1. PICK u \in Threads : \E i \in 1 .. Len(thr[u]) : thr[u][i] = f
    BY <1>7 DEF Waits
  <2>2. PICK i \in 1 .. Len(thr[u]) : thr[u][i] = f
    BY <2>1
  <2>3. CASE u # t
    <3>1. thr[u] # <<>>
      BY <2>2
    <3>2. thr'[u] = thr[u]
      BY <2>3, <3>1 DEF Goes
    <3> QED BY <2>2, <3>2
  <2>4. CASE u = t /\ i = 1
    <3>1. thr[t] # <<>> /\ Head(thr[t]) = f
      BY <1>2, <2>2, <2>4
    <3> QED BY <1>7, <3>1
  <2>5. CASE u = t /\ i # 1
    <3>1. thr[t] # <<>> /\ Len(R) = Len(thr[t]) - 1
      BY <1>1, <1>2, <2>2, <2>5, AfterItems
    <3>2. PICK k \in 1 .. Len(R) : k = i - 1
      BY <1>2, <2>2, <2>5, <3>1
    <3>3. \A l \in 1 .. Len(R) : R[l] = thr[t][l + 1]
      BY <1>1, <1>2, AfterItems
    <3>4. k + 1 = i
      BY <1>2, <2>2, <3>2
    <3>5. R[k] = f
      BY <2>2, <2>5, <3>3, <3>4
    <3> QED BY <1>3, <1>4, <3>5
  <2> QED BY <2>3, <2>4, <2>5
<1> QED BY <1>6, <1>7

\* The sessions that are built, and the refusals.
LEMMA BuildStep ==
  ASSUME Inv, BuildInv, NEW t \in Threads, NEW P, Goes(t, P), gen' \in Nat, gen <= gen',
         \A i \in 1 .. Len(P) : P[i].op = "Build" =>
           /\ P[i].n = gen + 1 /\ gen' = gen + 1 /\ gen' \in Generations
           /\ \A j \in 1 .. Len(P) : P[j].op = "Build" => j = i,
         \A g \in Generations : sess'[g] # sess[g] =>
           sess[g] \in {"dialing", "up"} \/ (At(t, "Build") /\ Arg(t) = g)
  PROVE  BuildInv' /\ (NoneRefused' => NoneRefused)
<1>1. ThreadInv /\ gen \in Nat /\ thr[t] \in Seq(Items) /\ Generations \subseteq Nat
  BY OrchestratorAssumption DEF Inv, TypeInv, ThreadInv, Generations
<1> DEFINE Was(u, i) == thr[u][i].op = "Build"
<1>2. \A u \in Threads : \A i \in 1 .. Len(thr[u]) : Was(u, i) =>
        /\ thr[u][i].n \in Generations /\ thr[u][i].n <= gen /\ sess[thr[u][i].n] = "none"
        /\ \A v \in Threads : \A j \in 1 .. Len(thr[v]) : thr[v][j] = thr[u][i] => v = u /\ j = i
  BY Zenon DEF BuildInv
<1>3. At(t, "Build") => /\ 1 \in 1 .. Len(thr[t]) /\ Was(t, 1) /\ Arg(t) = thr[t][1].n
                        /\ Arg(t) \in Generations /\ Arg(t) <= gen /\ sess[Arg(t)] = "none"
  <2>1. At(t, "Build") => 1 \in 1 .. Len(thr[t]) /\ thr[t][1].op = "Build"
    BY <1>1, AtHead
  <2>2. At(t, "Build") => Arg(t) = thr[t][1].n
    BY <1>1, <2>1 DEF Arg, At, Idle
  <2> QED BY <1>2, <2>1, <2>2
<1>4. \A g \in Generations : sess'[g] # sess[g] => sess[g] # "refused" /\ (sess[g] = "none" => g <= gen)
  BY <1>3
<1>5. NoneRefused' => NoneRefused
  BY <1>4 DEF NoneRefused
<1>6. \A g \in Generations : g > gen' => sess'[g] = "none"
  <2> TAKE g \in Generations
  <2> HAVE g > gen'
  <2>1. g > gen /\ g \in Nat
    BY <1>1
  <2>2. sess[g] = "none" /\ ~(g <= gen)
    BY <1>1, <2>1 DEF BuildInv
  <2> QED BY <1>4, <2>2
\* Items of the same kind and number are the same.
<1>7. \A u \in Threads : \A i \in 1 .. Len(thr[u]) :
        \A v \in Threads : \A j \in 1 .. Len(thr[v]) :
          Was(u, i) /\ Was(v, j) /\ thr[u][i].n = thr[v][j].n => thr[u][i] = thr[v][j]
  <2> TAKE u \in Threads
  <2> TAKE i \in 1 .. Len(thr[u])
  <2> TAKE v \in Threads
  <2> TAKE j \in 1 .. Len(thr[v])
  <2>1. thr[u] \in Seq(Items) /\ thr[v] \in Seq(Items)
    BY <1>1 DEF ThreadInv
  <2>2. PICK a \in Items, b \in Items : a = thr[u][i] /\ b = thr[v][j]
    BY <2>1
  <2>3. a.op = "Build" => a = [op |-> a.op, n |-> a.n]
    BY DEF Items
  <2>4. b.op = "Build" => b = [op |-> b.op, n |-> b.n]
    BY DEF Items
  <2> QED BY <2>2, <2>3, <2>4
\* A build that waited before and is not the one executed keeps its generation
\* without a session.
<1>8. ASSUME NEW u \in Threads, NEW i \in 1 .. Len(thr[u]), Was(u, i), ~(u = t /\ i = 1)
      PROVE  sess'[thr[u][i].n] = "none"
  <2>1. thr[u][i].n \in Generations /\ sess[thr[u][i].n] = "none"
    BY <1>2, <1>8
  <2>2. ~(At(t, "Build") /\ Arg(t) = thr[u][i].n)
    <3> SUFFICES ASSUME At(t, "Build"), Arg(t) = thr[u][i].n PROVE FALSE
      OBVIOUS
    <3>1. thr[u][i] = thr[t][1]
      BY <1>3, <1>7, <1>8
    <3> QED BY <1>2, <1>3, <1>8, <3>1
  <2> QED BY <2>1, <2>2
<1> DEFINE Old(u, i, k) == /\ k \in 1 .. Len(thr[u]) /\ thr'[u][i] = thr[u][k] /\ ~(u = t /\ k = 1)
                           /\ (u = t => k = i - Len(P) + 1) /\ (u # t => k = i)
           New(u, i) == u = t /\ i \in 1 .. Len(P) /\ thr'[u][i] = P[i]
<1>9. ASSUME NEW u \in Threads, NEW i \in 1 .. Len(thr'[u]), thr'[u][i].op = "Build"
      PROVE  New(u, i) \/ \E k : Old(u, i, k)
  <2>1. \/ u = t /\ i \in 1 .. Len(P) /\ thr'[u][i] = P[i]
        \/ /\ u = t
           /\ \E k \in 1 .. Len(thr[t]) : k = i - Len(P) + 1 /\ k # 1 /\ thr'[u][i] = thr[t][k]
        \/ u # t /\ i \in 1 .. Len(thr[u]) /\ thr'[u][i] = thr[u][i]
    <3>1. Came(t, P, u, i)
      BY <1>1, GoesItems
    <3>2. thr'[u][i].op # "LoopStarted"
      BY <1>9
    <3> QED BY <3>1, <3>2, Zenon DEF Came
  <2>2. CASE u = t /\ \E k \in 1 .. Len(thr[t]) : k = i - Len(P) + 1 /\ k # 1 /\ thr'[u][i] = thr[t][k]
    <3>1. PICK k \in 1 .. Len(thr[t]) : k = i - Len(P) + 1 /\ k # 1 /\ thr'[u][i] = thr[t][k]
      BY <2>2
    <3>2. Old(u, i, k)
      BY <2>2, <3>1
    <3> QED BY <3>2
  <2>3. CASE u # t /\ i \in 1 .. Len(thr[u]) /\ thr'[u][i] = thr[u][i]
    <3>1. Old(u, i, i)
      BY <2>3
    <3> QED BY <3>1
  <2> QED BY <2>1, <2>2, <2>3
<1>10. ASSUME NEW u \in Threads, NEW i \in 1 .. Len(thr'[u]), thr'[u][i].op = "Build"
       PROVE  thr'[u][i].n \in Generations /\ thr'[u][i].n <= gen' /\ sess'[thr'[u][i].n] = "none"
  <2>1. CASE New(u, i)
    <3>1. thr'[u][i].n = gen + 1 /\ gen' = gen + 1 /\ gen' \in Generations
      BY <1>10, <2>1
    <3>2. sess[gen'] = "none" /\ ~(gen' <= gen)
      BY <1>1, <3>1 DEF BuildInv
    <3>3. sess'[gen'] = "none"
      BY <1>4, <3>1, <3>2
    <3> QED BY <1>1, <3>1, <3>3
  <2>2. CASE \E k : Old(u, i, k)
    <3>1. PICK k : Old(u, i, k)
      BY <2>2
    <3>2. Was(u, k) /\ sess'[thr[u][k].n] = "none"
      BY <1>8, <1>10, <3>1
    <3>3. thr[u][k].n \in Generations /\ thr[u][k].n <= gen
      BY <1>2, <3>1, <3>2
    <3>4. thr[u][k].n <= gen'
      <4>1. PICK n \in Nat : n = thr[u][k].n
        BY <1>1, <3>3
      <4> QED BY <1>1, <3>3, <4>1
    <3> QED BY <3>1, <3>2, <3>3, <3>4
  <2> QED BY <1>9, <1>10, <2>1, <2>2
<1>11. ASSUME NEW u \in Threads, NEW i \in 1 .. Len(thr'[u]), thr'[u][i].op = "Build",
              NEW v \in Threads, NEW j \in 1 .. Len(thr'[v]), thr'[v][j] = thr'[u][i]
       PROVE  v = u /\ j = i
  <2>0. thr'[v][j].op = "Build"
    BY <1>11
  <2>1. CASE New(u, i) /\ New(v, j)
    BY <1>11, <2>1
  <2>2. CASE New(u, i) /\ \E k : Old(v, j, k)
    <3>1. PICK k : Old(v, j, k)
      BY <2>2
    <3>2. Was(v, k)
      BY <2>0, <3>1
    <3>3. thr[v][k].n <= gen
      BY <1>2, <3>1, <3>2
    <3>4. thr[v][k].n = gen + 1
      <4>1. P[i].op = "Build" /\ P[i] = thr[v][k] /\ i \in 1 .. Len(P)
        BY <1>11, <2>2, <3>1
      <4>2. P[i].n = gen + 1
        BY <4>1
      <4> QED BY <4>1, <4>2
    <3> QED BY <1>1, <3>3, <3>4
  <2>3. CASE New(v, j) /\ \E k : Old(u, i, k)
    <3>1. PICK k : Old(u, i, k)
      BY <2>3
    <3>2. Was(u, k)
      BY <1>11, <3>1
    <3>3. thr[u][k].n <= gen
      BY <1>2, <3>1, <3>2
    <3>4. thr[u][k].n = gen + 1
      <4>1. P[j].op = "Build" /\ P[j] = thr[u][k] /\ j \in 1 .. Len(P)
        BY <1>11, <2>0, <2>3, <3>1
      <4>2. P[j].n = gen + 1
        BY <4>1
      <4> QED BY <4>1, <4>2
    <3> QED BY <1>1, <3>3, <3>4
  <2>4. CASE (\E k : Old(u, i, k)) /\ (\E l : Old(v, j, l))
    <3>1. PICK k, l : Old(u, i, k) /\ Old(v, j, l)
      BY <2>4
    <3>2. Was(u, k) /\ thr[v][l] = thr[u][k]
      BY <1>11, <3>1
    <3>3. v = u /\ l = k
      BY <1>2, <3>1, <3>2
    <3>4. CASE u # t
      BY <3>1, <3>3, <3>4
    <3>5. CASE u = t
      <4>1. k = i - Len(P) + 1 /\ k = j - Len(P) + 1 /\ Len(P) \in Nat /\ i \in Int /\ j \in Int
        BY <3>1, <3>3, <3>5 DEF Goes
      <4> QED BY <3>3, <4>1
    <3> QED BY <3>4, <3>5
  <2> QED BY <1>9, <1>11, <2>0, <2>1, <2>2, <2>3, <2>4
<1>12. BuildInv'
  BY <1>6, <1>10, <1>11, Zenon DEF BuildInv
<1> QED BY <1>5, <1>12

-----------------------------------------------------------------------------
Has(P, f) == \E i \in 1 .. Len(P) : P[i] = f

\* A session is built for the generation that begins, and only the transport
\* and the thread that builds it move a session.
Builds(P) ==
  \A i \in 1 .. Len(P) : P[i].op = "Build" =>
    /\ P[i].n = gen + 1 /\ gen' = gen + 1 /\ gen' \in Generations
    /\ \A j \in 1 .. Len(P) : P[j].op = "Build" => j = i
SessionsMove(t) ==
  \A g \in Generations : sess'[g] # sess[g] =>
    sess[g] \in {"dialing", "up"} \/ (At(t, "Build") /\ Arg(t) = g)

\* A session of the current generation that was built, or is about to be, stays so.
Keeps(t, S) ==
  /\ gen' = gen
  /\ gen \in Generations /\ At(t, "Build") /\ Arg(t) = gen => sess'[gen] = "dialing"
  /\ gen \in Generations /\ sess[gen] \in S => sess'[gen] \in S

LinksConnecting(t, P) ==
  rs'.phase = "Connecting" =>
    \/ \E i \in 1 .. Len(P) : P[i].op = "NewAdapter"
    \/ gen' \in Generations /\ Has(P, Fx("Build", gen'))
    \/ rs.phase = "Connecting" /\ ~At(t, "NewAdapter") /\ Keeps(t, {"dialing"})
LinksConnected(t, P) ==
  rs'.phase = "Connected" =>
    \/ gen' \in Generations /\ (Has(P, Fx("Build", gen')) \/ sess'[gen'] = "up")
    \/ rs.phase = "Connected" /\ Keeps(t, {"dialing", "up"})
LinksLoop(t, P) ==
  rs'.active /\ rs'.clock = NoClock =>
    \/ Has(P, Fx(Spawn, rs'.epoch))
    \/ rs'.epoch \in 1 .. MaxEpoch /\ At(Loop(rs.epoch), "LoopStarted")'
    \/ /\ rs.active /\ rs.clock = NoClock /\ rs'.epoch = rs.epoch
       /\ ~(At(t, Spawn) /\ Arg(t) = rs.epoch)
       /\ ~(t = Loop(rs.epoch) /\ At(t, "LoopStarted"))

-----------------------------------------------------------------------------
\* A step other than t's own, and other than the one t executes, still waits.
LEMMA OthersWait ==
  ASSUME ThreadInv, NEW t \in Threads, NEW P, Goes(t, P), NEW op, NEW n, Waits(Fx(op, n)),
         ~(At(t, op) /\ Arg(t) = n)
  PROVE  Waits(Fx(op, n))'
<1>1. PICK f : f = Fx(op, n)
  OBVIOUS
<1>2. f.op = op /\ f.n = n
  BY <1>1 DEF Fx
<1>3. ~(thr[t] # <<>> /\ Head(thr[t]) = f)
  BY <1>2 DEF At, Idle, Arg
<1>4. Waits(f)
  BY <1>1
<1>5. Waits(f)'
  BY <1>3, <1>4, WaitsGo
<1> QED BY <1>1, <1>5

LEMMA GivenWaits ==
  ASSUME ThreadInv, NEW t \in Threads, NEW P, Goes(t, P), NEW f, Has(P, f)
  PROVE  Waits(f)'
BY WaitsGo DEF Has

\* A new adapter is still to be made, unless t makes it.
LEMMA AdaptingStays ==
  ASSUME ThreadInv, NEW t \in Threads, NEW P, Goes(t, P),
         \/ \E i \in 1 .. Len(P) : P[i].op = "NewAdapter"
         \/ Adapting /\ ~At(t, "NewAdapter")
  PROVE  Adapting'
<1>1. PICK f : f.op = "NewAdapter" /\ (Has(P, f) \/ (Waits(f) /\ ~At(t, "NewAdapter")))
  BY DEF Adapting, Has, Waits
<1>2. ~At(t, "NewAdapter") => ~(thr[t] # <<>> /\ Head(thr[t]) = f)
  BY <1>1 DEF At, Idle
<1>3. Waits(f)'
  BY <1>1, <1>2, WaitsGo DEF Has
<1> QED BY <1>1, <1>3 DEF Adapting, Waits

LEMMA LinkStep ==
  ASSUME Inv, LinkInv, NEW t \in Threads, NEW P, Goes(t, P),
         LinksConnecting(t, P), LinksConnected(t, P), LinksLoop(t, P)
  PROVE  LinkInv'
<1>1. ThreadInv
  BY DEF Inv
<1>2. ASSUME NEW S, Keeps(t, S), S \subseteq {"dialing", "up"}, "dialing" \in S,
             gen \in Generations, Waits(Fx("Build", gen)) \/ sess[gen] \in S
      PROVE  gen' \in Generations /\ (Waits(Fx("Build", gen))' \/ sess'[gen'] \in S)
  <2>1. gen' = gen
    BY <1>2 DEF Keeps
  <2>2. CASE sess[gen] \in S
    BY <1>2, <2>1, <2>2 DEF Keeps
  <2>3. CASE At(t, "Build") /\ Arg(t) = gen
    BY <1>2, <2>1, <2>3 DEF Keeps
  <2>4. CASE Waits(Fx("Build", gen)) /\ ~(At(t, "Build") /\ Arg(t) = gen)
    <3>1. PICK g : g = gen
      OBVIOUS
    <3>2. Waits(Fx("Build", g))'
      BY <1>1, <2>4, <3>1, OthersWait
    <3>3. gen' = g
      BY <2>1, <3>1
    <3>4. Waits(Fx("Build", gen))'
      BY <3>2, <3>3 DEF Waits
    <3> QED BY <1>2, <2>1, <3>4
  <2> QED BY <1>2, <2>2, <2>3, <2>4
<1>3. ASSUME NEW n, Has(P, Fx("Build", n)), n = gen'
      PROVE  Waits(Fx("Build", gen))'
  <2>1. Waits(Fx("Build", n))'
    BY <1>1, <1>3, GivenWaits
  <2> QED BY <1>3, <2>1 DEF Waits
<1>4. rs'.phase = "Connecting" =>
        Adapting' \/ (gen' \in Generations /\ (Waits(Fx("Build", gen))' \/ sess'[gen'] = "dialing"))
  <2> HAVE rs'.phase = "Connecting"
  <2>1. CASE \E i \in 1 .. Len(P) : P[i].op = "NewAdapter"
    BY <1>1, <2>1, AdaptingStays
  <2>2. CASE gen' \in Generations /\ Has(P, Fx("Build", gen'))
    BY <1>3, <2>2
  <2>3. CASE rs.phase = "Connecting" /\ ~At(t, "NewAdapter") /\ Keeps(t, {"dialing"})
    <3>1. Adapting \/ (gen \in Generations /\ (Waits(Fx("Build", gen)) \/ sess[gen] = "dialing"))
      BY <2>3 DEF LinkInv
    <3>2. CASE Adapting
      BY <1>1, <2>3, <3>2, AdaptingStays
    <3>3. CASE gen \in Generations /\ (Waits(Fx("Build", gen)) \/ sess[gen] = "dialing")
      <4>1. gen' \in Generations /\ (Waits(Fx("Build", gen))' \/ sess'[gen'] \in {"dialing"})
        BY <1>2, <2>3, <3>3
      <4> QED BY <4>1
    <3> QED BY <3>1, <3>2, <3>3
  <2> QED BY <2>1, <2>2, <2>3 DEF LinksConnecting
<1>5. rs'.phase = "Connected" =>
        gen' \in Generations /\ (Waits(Fx("Build", gen))' \/ sess'[gen'] \in {"dialing", "up"})
  <2> HAVE rs'.phase = "Connected"
  <2>1. CASE gen' \in Generations /\ (Has(P, Fx("Build", gen')) \/ sess'[gen'] = "up")
    BY <1>3, <2>1
  <2>2. CASE rs.phase = "Connected" /\ Keeps(t, {"dialing", "up"})
    <3>1. gen \in Generations /\ (Waits(Fx("Build", gen)) \/ sess[gen] \in {"dialing", "up"})
      BY <2>2 DEF LinkInv
    <3> QED BY <1>2, <2>2, <3>1
  <2> QED BY <2>1, <2>2 DEF LinksConnected
<1>6. rs'.active /\ rs'.clock = NoClock =>
        \/ Waits(Fx(Spawn, rs.epoch))'
        \/ rs'.epoch \in 1 .. MaxEpoch /\ At(Loop(rs.epoch), "LoopStarted")'
  <2> HAVE rs'.active /\ rs'.clock = NoClock
  <2>0. PICK m : m = rs'.epoch
    OBVIOUS
  <2>1. CASE Has(P, Fx(Spawn, m))
    <3>1. Waits(Fx(Spawn, m))'
      BY <1>1, <2>1, GivenWaits
    <3> QED BY <2>0, <3>1 DEF Waits
  <2>2. CASE rs'.epoch \in 1 .. MaxEpoch /\ At(Loop(rs.epoch), "LoopStarted")'
    BY <2>2
  <2>3. CASE /\ rs.active /\ rs.clock = NoClock /\ m = rs.epoch
             /\ ~(At(t, Spawn) /\ Arg(t) = rs.epoch)
             /\ ~(t = Loop(rs.epoch) /\ At(t, "LoopStarted"))
    <3>1. CASE Waits(Fx(Spawn, m))
      <4>1. Waits(Fx(Spawn, m))'
        BY <1>1, <2>3, <3>1, OthersWait
      <4> QED BY <2>0, <4>1 DEF Waits
    <3>2. CASE m \in 1 .. MaxEpoch /\ At(Loop(m), "LoopStarted")
      <4>1. PICK l \in Threads : l = Loop(m)
        BY <3>2, ThreadNames
      <4>2. l # t /\ thr[l] # <<>>
        BY <2>3, <3>2, <4>1 DEF At, Idle
      <4>3. thr'[l] = thr[l]
        BY <4>2 DEF Goes
      <4>4. At(l, "LoopStarted")'
        BY <3>2, <4>1, <4>3 DEF At, Idle
      <4>5. l = Loop(rs'.epoch)
        BY <2>0, <4>1
      <4> QED BY <2>0, <3>2, <4>4, <4>5 DEF At, Idle
    <3> QED BY <2>3, <3>1, <3>2 DEF LinkInv
  <2> QED BY <2>0, <2>1, <2>2, <2>3 DEF LinksLoop
<1> QED BY <1>4, <1>5, <1>6, Zenon DEF LinkInv

-----------------------------------------------------------------------------
\* Which thread delivers after a thread was given a program that does not.
LEMMA GoesHeads ==
  ASSUME ThreadInv, NEW t \in Threads, NEW P, Goes(t, P),
         \A i \in 1 .. Len(P) : P[i].op # "Deliver"
  PROVE  /\ ~At(t, "Deliver")'
         /\ \A u \in Threads : u # t =>
               (At(u, "Deliver")' <=> At(u, "Deliver")) /\ (At(u, "Deliver") => Arg(u)' = Arg(u))
<1>1. thr \in [Threads -> Seq(Items)] /\ thr' \in [Threads -> Seq(Items)]
  BY DEF ThreadInv, Goes
<1>2. ~At(t, "Deliver")'
  <2>1. SUFFICES ASSUME 1 \in 1 .. Len(thr'[t]), thr'[t][1].op = "Deliver" PROVE FALSE
    <3>1. thr'[t] # <<>> => 1 \in 1 .. Len(thr'[t]) /\ Head(thr'[t]) = thr'[t][1]
      BY <1>1
    <3> QED BY <3>1 DEF At, Idle
  <2>2. Came(t, P, t, 1)
    BY <2>1, GoesItems
  <2>3. PICK k \in 1 .. Len(thr[t]) : k # 1 /\ thr[t][k].op = "Deliver"
    BY <2>1, <2>2 DEF Came
  <2> QED BY <2>3 DEF ThreadInv, ShapeInv
<1>3. ASSUME NEW u \in Threads, u # t
      PROVE  /\ At(u, "Deliver")' <=> At(u, "Deliver")
             /\ At(u, "Deliver") => Arg(u)' = Arg(u)
  <2>1. CASE thr'[u] = thr[u]
    BY <2>1 DEF At, Idle, Arg
  <2>2. CASE thr[u] = <<>> /\ thr'[u] = <<Fx("LoopStarted", 0)>>
    <3>1. PICK h, Q : h = Fx("LoopStarted", 0) /\ Q = <<h>> /\ thr'[u] = Q
      BY <2>2
    <3>2. Head(Q).op # "Deliver"
      BY <3>1 DEF Fx
    <3> QED BY <2>2, <3>1, <3>2 DEF At, Idle
  <2> QED BY <1>3, <2>1, <2>2 DEF Goes
<1> QED BY <1>2, <1>3

\* A step that delivers nothing, and stages what the reducer's step calls for.
LEMMA ShowStep ==
  ASSUME ThreadInv, ShowInv, NEW t \in Threads, ~At(t, "Deliver"), NEW P, Goes(t, P),
         \A i \in 1 .. Len(P) : P[i].op # "Deliver", shown' = shown,
         \A x, y : Shows(queue, x, y) /\ Agree(y, rs) =>
                     \E z : Shows(queue', x, z) /\ Agree(z, rs')
  PROVE  ShowInv'
<1>1. \A u \in Threads : /\ At(u, "Deliver")' <=> At(u, "Deliver")
                         /\ At(u, "Deliver") => Arg(u)' = Arg(u)
  <2>1. /\ ~At(t, "Deliver")'
        /\ \A u \in Threads : u # t =>
              (At(u, "Deliver")' <=> At(u, "Deliver")) /\ (At(u, "Deliver") => Arg(u)' = Arg(u))
    BY GoesHeads
  <2> QED BY <2>1
<1>2. PICK x, y : /\ Shows(queue, x, y) /\ Agree(y, rs)
                  /\ (\A u \in Threads : ~At(u, "Deliver")) => x = shown
                  /\ \A u \in Threads : At(u, "Deliver") => x = Turn(shown, Arg(u))
  BY Zenon DEF ShowInv
<1>3. PICK z : Shows(queue', x, z) /\ Agree(z, rs')
  BY <1>2
<1>4. (\A u \in Threads : ~At(u, "Deliver")') => x = shown'
  BY <1>1, <1>2
<1>5. \A u \in Threads : At(u, "Deliver")' => x = Turn(shown', Arg(u)')
  <2> TAKE u \in Threads
  <2> HAVE At(u, "Deliver")'
  <2>1. At(u, "Deliver") /\ Arg(u)' = Arg(u)
    BY <1>1
  <2>2. x = Turn(shown, Arg(u))
    BY <1>2, <2>1
  <2> QED BY <2>1, <2>2
<1>6. Shows(queue, x, z)' /\ Agree(z, rs)'
  BY <1>3 DEF Shows, Agree
<1> QED BY <1>4, <1>5, <1>6, Zenon DEF ShowInv

\* The first publication is taken, by a thread that has delivered the one before,
\* if there was one.
LEMMA ShowFirst ==
  ASSUME Inv, ShowInv, NEW t \in Threads, queue # <<>>, queue' = Tail(queue), rs' = rs,
         \A u \in Threads : u # t => ~At(u, "Deliver"),
         ~At(t, "Deliver") => shown' = shown,
         At(t, "Deliver") => shown' = Turn(shown, Arg(t)),
         At(t, "Deliver")', Arg(t)' = Head(queue),
         \A u \in Threads : u # t => (At(u, "Deliver")' <=> At(u, "Deliver"))
  PROVE  ShowInv'
<1>1. PICK x, y : /\ Shows(queue, x, y) /\ Agree(y, rs)
                  /\ (\A u \in Threads : ~At(u, "Deliver")) => x = shown
                  /\ \A u \in Threads : At(u, "Deliver") => x = Turn(shown, Arg(u))
  BY Zenon DEF ShowInv
<1>2. x = shown'
  <2>1. CASE At(t, "Deliver")
    BY <1>1, <2>1
  <2>2. CASE ~At(t, "Deliver")
    BY <1>1, <2>2
  <2> QED BY <2>1, <2>2
<1>3. PICK w : w = Turn(x, Head(queue))
  OBVIOUS
<1>4. Shows(Tail(queue), w, y)
  <2>1. queue \in Seq(Staged)
    BY DEF Inv, TypeInv
  <2> QED BY <1>1, <1>3, <2>1, ShowsFirst
<1>5. Shows(queue, w, y)' /\ Agree(y, rs)'
  BY <1>1, <1>4 DEF Shows, Agree
<1>6. \A u \in Threads : At(u, "Deliver")' => w = Turn(shown', Arg(u)')
  <2> TAKE u \in Threads
  <2> HAVE At(u, "Deliver")'
  <2>1. u = t
    OBVIOUS
  <2> QED BY <1>2, <1>3, <2>1
<1>7. ~(\A u \in Threads : ~At(u, "Deliver")')
  OBVIOUS
<1> QED BY <1>5, <1>6, <1>7, Zenon DEF ShowInv

\* The last publication has been delivered.
LEMMA ShowLast ==
  ASSUME Inv, ShowInv, NEW t \in Threads, queue' = queue, rs' = rs, At(t, "Deliver"),
         shown' = Turn(shown, Arg(t)), \A u \in Threads : ~At(u, "Deliver")'
  PROVE  ShowInv'
<1>1. PICK x, y : /\ Shows(queue, x, y) /\ Agree(y, rs)
                  /\ \A u \in Threads : At(u, "Deliver") => x = Turn(shown, Arg(u))
  BY Zenon DEF ShowInv
<1>2. x = shown'
  BY <1>1
<1>3. Shows(queue, x, y)' /\ Agree(y, rs)'
  BY <1>1 DEF Shows, Agree
<1> QED BY <1>2, <1>3, Zenon DEF ShowInv

\* One step of the invariant.
LEMMA LiveStep ==
  ASSUME Inv, LiveInv, NEW t \in Threads, NEW P, Goes(t, P), gen' \in Nat, gen <= gen',
         Builds(P), SessionsMove(t),
         NoneRefused /\ ShowInv =>
           ShowInv' /\ LinksConnecting(t, P) /\ LinksConnected(t, P) /\ LinksLoop(t, P)
  PROVE  LiveInv'
<1>1. BuildInv' /\ (NoneRefused' => NoneRefused)
  <2>1. \A i \in 1 .. Len(P) : P[i].op = "Build" =>
          /\ P[i].n = gen + 1 /\ gen' = gen + 1 /\ gen' \in Generations
          /\ \A j \in 1 .. Len(P) : P[j].op = "Build" => j = i
    BY DEF Builds
  <2>2. \A g \in Generations : sess'[g] # sess[g] =>
          sess[g] \in {"dialing", "up"} \/ (At(t, "Build") /\ Arg(t) = g)
    BY DEF SessionsMove
  <2>3. BuildInv
    BY DEF LiveInv
  <2> QED BY <2>1, <2>2, <2>3, BuildStep
<1>2. NoneRefused' => ShowInv' /\ LinkInv'
  <2> HAVE NoneRefused'
  <2>1. ShowInv /\ LinkInv /\ NoneRefused
    BY <1>1 DEF LiveInv
  <2>2. LinkInv'
    BY <2>1, LinkStep
  <2> QED BY <2>1, <2>2
<1> QED BY <1>1, <1>2 DEF LiveInv

-----------------------------------------------------------------------------
(***************************************************************************)
(* Steps that leave the phase, the loop and the generation alone.          *)
(***************************************************************************)
Still ==
  /\ rs'.phase = rs.phase /\ rs'.active = rs.active /\ rs'.clock = rs.clock
  /\ rs'.epoch = rs.epoch /\ gen' = gen

\* The session of the current generation is left alone, or it is built.
BuildsOrKeeps(t) ==
  gen \in Generations =>
    /\ At(t, "Build") /\ Arg(t) = gen => sess'[gen] = "dialing"
    /\ ~(At(t, "Build") /\ Arg(t) = gen) => sess'[gen] = sess[gen]

LEMMA StillLinks ==
  ASSUME Inv, BuildInv, NEW t \in Threads, NEW P, Still, ~At(t, "NewAdapter"), BuildsOrKeeps(t)
  PROVE  LinksConnecting(t, P) /\ LinksConnected(t, P)
<1>1. At(t, "Build") /\ Arg(t) = gen => sess[gen] = "none"
  <2> SUFFICES ASSUME At(t, "Build"), Arg(t) = gen PROVE sess[gen] = "none"
    OBVIOUS
  <2>1. thr[t] \in Seq(Items)
    BY DEF Inv, ThreadInv
  <2>2. 1 \in 1 .. Len(thr[t]) /\ thr[t][1].op = "Build" /\ thr[t][1].n = gen
    BY <2>1 DEF At, Idle, Arg
  <2> QED BY <2>2 DEF BuildInv
<1>2. Keeps(t, {"dialing"}) /\ Keeps(t, {"dialing", "up"})
  BY <1>1 DEF Keeps, Still, BuildsOrKeeps
<1>3. LinksConnecting(t, P)
  BY <1>2 DEF LinksConnecting, Still
<1>4. LinksConnected(t, P)
  BY <1>2 DEF LinksConnected, Still
<1> QED BY <1>3, <1>4

LEMMA StillLoops ==
  ASSUME NEW t \in Threads, NEW P, Still, ~At(t, Spawn), ~At(t, "LoopStarted")
  PROVE  LinksLoop(t, P)
<1>1. rs'.active /\ rs'.clock = NoClock => rs.active /\ rs.clock = NoClock /\ rs'.epoch = rs.epoch
  BY Zenon DEF Still
<1> QED BY <1>1, Zenon DEF LinksLoop

LEMMA StillAgrees ==
  ASSUME Still, NEW y, Agree(y, rs)
  PROVE  Agree(y, rs')
BY Zenon DEF Still, Agree

\* A step that shows nothing either.
LEMMA StillLives ==
  ASSUME Inv, LiveInv, NEW t \in Threads, NEW P, Goes(t, P), Still, queue' = queue, shown' = shown,
         SessionsMove(t), BuildsOrKeeps(t),
         ~At(t, "Deliver"), ~At(t, "NewAdapter"), ~At(t, "LoopStarted"), ~At(t, Spawn),
         \A i \in 1 .. Len(P) : P[i].op # "Deliver" /\ P[i].op # "Build"
  PROVE  LiveInv'
<1>1. ThreadInv /\ BuildInv /\ gen \in Nat
  BY DEF Inv, TypeInv, LiveInv
<1>2. gen' \in Nat /\ gen <= gen'
  BY <1>1 DEF Still
<1>3. ShowInv => ShowInv'
  <2> HAVE ShowInv
  <2>1. ASSUME NEW x, NEW y, Shows(queue, x, y), Agree(y, rs)
        PROVE  \E z : Shows(queue', x, z) /\ Agree(z, rs')
    <3>1. Shows(queue', x, y) /\ Agree(y, rs')
      BY <2>1, StillAgrees
    <3> QED BY <3>1
  <2> QED BY <1>1, <2>1, ShowStep
<1>4. LinksConnecting(t, P) /\ LinksConnected(t, P) /\ LinksLoop(t, P)
  BY <1>1, StillLinks, StillLoops
<1>5. Builds(P)
  BY DEF Builds
<1> QED BY <1>2, <1>3, <1>4, <1>5, LiveStep

\* A thread is given a program.
LEMMA GoesOn ==
  ASSUME ThreadInv, NEW t \in Threads, NEW P \in Seq(Items), thr' = [thr EXCEPT ![t] = P \o After(t)]
  PROVE  Goes(t, P)
<1>1. PICK Q : Q = P \o After(t)
  OBVIOUS
<1>2. Q \in Seq(Items) /\ thr \in [Threads -> Seq(Items)]
  <2>1. thr[t] \in Seq(Items) /\ thr \in [Threads -> Seq(Items)]
    BY DEF ThreadInv
  <2>2. After(t) \in Seq(Items)
    BY <2>1, AfterItems
  <2> QED BY <1>1, <2>1, <2>2
<1>3. thr' = [thr EXCEPT ![t] = Q]
  BY <1>1
<1>4. thr' \in [Threads -> Seq(Items)] /\ thr'[t] = Q /\ \A u \in Threads : u # t => thr'[u] = thr[u]
  BY <1>2, <1>3
<1> QED BY <1>1, <1>4 DEF Goes

\* A step of which nothing is left to do.
LEMMA SkipGoes ==
  ASSUME ThreadInv, NEW t \in Threads, NEW op, At(t, op), Skip(t)
  PROVE  Goes(t, <<>>)
<1>1. After(t) = Rest(t) /\ After(t) \in Seq(Items)
  BY AtStep
<1>2. PICK P : P = <<>>
  OBVIOUS
<1>3. P \o After(t) = Rest(t)
  BY <1>1, <1>2
<1>4. thr' = [thr EXCEPT ![t] = P \o After(t)]
  BY <1>3 DEF Skip
<1>5. P \in Seq(Items)
  BY <1>2
<1> QED BY <1>2, <1>4, <1>5, GoesOn

LEMMA SkipLives ==
  ASSUME Inv, LiveInv, NEW t \in Threads, NEW op, At(t, op), Skip(t),
         op \notin {"Deliver", "NewAdapter", "LoopStarted", "Build", Spawn},
         rs' = rs, gen' = gen, queue' = queue, shown' = shown, sess' = sess
  PROVE  LiveInv'
<1>1. ThreadInv
  BY DEF Inv
<1>2. Goes(t, <<>>)
  BY <1>1, SkipGoes
<1>3. \A o : o # op => ~At(t, o)
  BY <1>1, AtStep
<1>4. /\ ~At(t, "Deliver") /\ ~At(t, "NewAdapter") /\ ~At(t, "LoopStarted") /\ ~At(t, Spawn)
      /\ ~At(t, "Build")
  BY <1>3
<1>5. Still /\ SessionsMove(t) /\ BuildsOrKeeps(t)
  BY <1>4 DEF Still, SessionsMove, BuildsOrKeeps
<1>6. \A i \in 1 .. Len(<<>>) : <<>>[i].op # "Deliver" /\ <<>>[i].op # "Build"
  OBVIOUS
<1> QED BY <1>2, <1>4, <1>5, <1>6, StillLives

\* An idle thread takes on one step, or none.
LEMMA IdleLives ==
  ASSUME Inv, LiveInv, NEW t \in Threads, Idle(t),
         NEW P, P = <<>> \/ \E h \in Items : P = <<h>> /\ h.op # "Deliver" /\ h.op # "Build",
         thr' = [thr EXCEPT ![t] = P], Still, queue' = queue, shown' = shown,
         SessionsMove(t), gen \in Generations => sess'[gen] = sess[gen]
  PROVE  LiveInv'
<1>1. ThreadInv /\ After(t) = <<>> /\ \A op : ~At(t, op)
  BY DEF Inv, Idle, After, At
<1>2. P \in Seq(Items) /\ \A i \in 1 .. Len(P) : P[i].op # "Deliver" /\ P[i].op # "Build"
  <2>1. CASE P = <<>>
    BY <2>1
  <2>2. CASE \E h \in Items : P = <<h>> /\ h.op # "Deliver" /\ h.op # "Build"
    <3>1. PICK h \in Items : P = <<h>> /\ h.op # "Deliver" /\ h.op # "Build"
      BY <2>2
    <3>2. P \in Seq(Items) /\ \A i \in 1 .. Len(P) : P[i] = h
      BY <3>1
    <3> QED BY <3>1, <3>2
  <2> QED BY <2>1, <2>2
<1>3. P \o After(t) = P
  BY <1>1, <1>2, ConcatEmptySeq
<1>4. thr' = [thr EXCEPT ![t] = P \o After(t)]
  BY <1>3
<1>5. Goes(t, P)
  BY <1>1, <1>2, <1>4, GoesOn
<1>6. BuildsOrKeeps(t)
  BY <1>1 DEF BuildsOrKeeps
<1> QED BY <1>1, <1>2, <1>5, <1>6, StillLives

-----------------------------------------------------------------------------
(***************************************************************************)
(* apply_reconnect.                                                        *)
(***************************************************************************)
\* What the effects of a transition leave for the thread to do.
LEMMA ProgramItems ==
  ASSUME NEW fx \in Seq(Effects)
  PROVE  /\ Program(fx) \in Seq(Items) /\ Len(Program(fx)) = Len(fx)
         /\ \A i \in 1 .. Len(fx) : Program(fx)[i].op \in ShellOps \cup {"Flush", "Sleep"}
         /\ \A i \in 1 .. Len(fx) : fx[i].op = Spawn => Program(fx)[i] = fx[i]
<1>1. ASSUME NEW f \in Effects
      PROVE  /\ StepOf(f) \in Items /\ StepOf(f).op \in ShellOps \cup {"Flush", "Sleep"}
             /\ f.op = Spawn => StepOf(f) = f
  <2>1. f.op \in PublicationOps \cup ShellOps \cup {"ArmLoopTimer"} /\ f.n \in Int /\ f = [op |-> f.op, n |-> f.n]
    BY DEF Effects
  <2>2. Spawn \in ShellOps /\ "ArmLoopTimer" \notin ShellOps /\ ShellOps \subseteq StepOps
    BY DEF Spawn, ShellOps, StepOps
  <2>3. CASE IsPublication(f)
    <3>1. StepOf(f) = Fx("Flush", 0) /\ "Flush" \in StepOps
      BY <2>3 DEF StepOf, Flush, StepOps
    <3>2. StepOf(f) \in Items /\ StepOf(f).op = "Flush"
      BY <3>1, ItemOf
    <3>3. f.op # Spawn
      BY <2>3 DEF IsPublication, PublicState, EdgeOps, Spawn
    <3> QED BY <3>2, <3>3
  <2>4. CASE ~IsPublication(f) /\ f.op = "ArmLoopTimer"
    <3>1. StepOf(f) = Fx("Sleep", 0) /\ "Sleep" \in StepOps
      BY <2>4 DEF StepOf, StepOps
    <3>2. StepOf(f) \in Items /\ StepOf(f).op = "Sleep"
      BY <3>1, ItemOf
    <3> QED BY <2>2, <2>4, <3>2
  <2>5. CASE ~IsPublication(f) /\ f.op # "ArmLoopTimer"
    <3>1. StepOf(f) = f
      BY <2>5 DEF StepOf
    <3>2. f.op \in ShellOps
      BY <2>1, <2>5, WhatIsPublished
    <3>3. f \in [op : StepOps, n : Int]
      BY <2>1, <2>2, <3>2
    <3> QED BY <3>1, <3>2, <3>3 DEF Items
  <2> QED BY <2>3, <2>4, <2>5
<1>2. PICK P : P = Program(fx)
  OBVIOUS
<1>3. P = [i \in 1 .. Len(fx) |-> StepOf(fx[i])]
  BY <1>2 DEF Program
<1>4. \A i \in 1 .. Len(fx) : fx[i] \in Effects
  OBVIOUS
<1>5. P \in Seq(Items) /\ Len(P) = Len(fx) /\ \A i \in 1 .. Len(fx) : P[i] = StepOf(fx[i])
  BY <1>1, <1>3, <1>4
<1> QED BY <1>1, <1>2, <1>4, <1>5

\* session_generation only moves when an attempt is aborted.
LEMMA GenerationMoves ==
  ASSUME gen \in Nat, NEW fx \in Seq(Effects), StagePublications(fx)
  PROVE  /\ gen' \in Nat /\ gen <= gen'
         /\ (\A i \in 1 .. Len(fx) : fx[i].op # "AbortInFlightAttempt") => gen' = gen
<1>1. PICK S : S = {i \in DOMAIN fx : fx[i].op = "AbortInFlightAttempt"}
  OBVIOUS
<1>2. IsFiniteSet(1 .. Len(fx)) /\ S \subseteq 1 .. Len(fx)
  <2>1. Len(fx) \in Int /\ DOMAIN fx = 1 .. Len(fx)
    OBVIOUS
  <2>2. IsFiniteSet(1 .. Len(fx))
    BY <2>1, FS_Interval
  <2> QED BY <1>1, <2>1, <2>2
<1>3. Cardinality(S) \in Nat
  BY <1>2, FS_Subset, FS_CardinalityType
<1>4. gen' = gen + Cardinality(S)
  BY <1>1 DEF StagePublications
<1>5. (\A i \in 1 .. Len(fx) : fx[i].op # "AbortInFlightAttempt") => S = {}
  BY <1>1
<1>6. Cardinality({}) = 0
  BY FS_EmptySet
<1>7. PICK c \in Nat : c = Cardinality(S) /\ gen' = gen + c
  BY <1>3, <1>4
<1>8. (\A i \in 1 .. Len(fx) : fx[i].op # "AbortInFlightAttempt") => c = 0
  BY <1>5, <1>6, <1>7
<1> QED BY <1>7, <1>8

\* A thread applies an event and goes on with M and with what it had left.
LEMMA ApplyGoes ==
  ASSUME ThreadInv, NEW t \in Threads, NEW fx \in Seq(Effects), NEW M \in Seq(Items), NEW P, P = Program(fx) \o M,
         thr' = [thr EXCEPT ![t] = Program(fx) \o (M \o After(t))]
  PROVE  /\ Goes(t, P)
         /\ \A i \in 1 .. Len(P) : P[i].op \in ShellOps \cup {"Flush", "Sleep"} \/ Has(M, P[i])
         /\ \A i \in 1 .. Len(fx) : fx[i].op = Spawn => Has(P, fx[i])
         /\ \A f : Has(M, f) => Has(P, f)
<1>1. PICK Q : Q = Program(fx)
  OBVIOUS
<1>2. /\ Q \in Seq(Items) /\ Len(Q) = Len(fx)
      /\ \A i \in 1 .. Len(fx) : Q[i].op \in ShellOps \cup {"Flush", "Sleep"}
      /\ \A i \in 1 .. Len(fx) : fx[i].op = Spawn => Q[i] = fx[i]
  BY <1>1, ProgramItems
<1>3. After(t) \in Seq(Items)
  <2>1. thr[t] \in Seq(Items)
    BY DEF ThreadInv
  <2> QED BY <2>1, AfterItems
<1>4. Q \o (M \o After(t)) = (Q \o M) \o After(t) /\ P = Q \o M
  BY <1>1, <1>2, <1>3, Regroup
<1>5. thr' = [thr EXCEPT ![t] = P \o After(t)]
  BY <1>1, <1>4
<1>6. /\ P \in Seq(Items) /\ Len(Q) \in Nat
      /\ \A i \in 1 .. Len(P) : \/ i \in 1 .. Len(Q) /\ P[i] = Q[i]
                                \/ i - Len(Q) \in 1 .. Len(M) /\ P[i] = M[i - Len(Q)]
      /\ \A i \in 1 .. Len(Q) : i \in 1 .. Len(P) /\ P[i] = Q[i]
      /\ \A i \in 1 .. Len(M) : Len(Q) + i \in 1 .. Len(P) /\ P[Len(Q) + i] = M[i]
  <2>1. PICK A : A = Q \o M
    OBVIOUS
  <2>2. /\ A \in Seq(Items)
        /\ \A i \in 1 .. Len(A) : \/ i \in 1 .. Len(Q) /\ A[i] = Q[i]
                                  \/ i - Len(Q) \in 1 .. Len(M) /\ A[i] = M[i - Len(Q)]
        /\ \A i \in 1 .. Len(Q) : i \in 1 .. Len(A) /\ A[i] = Q[i]
        /\ \A i \in 1 .. Len(M) : Len(Q) + i \in 1 .. Len(A) /\ A[Len(Q) + i] = M[i]
    BY <1>2, <2>1, JoinedItems
  <2>3. P = A
    BY <1>4, <2>1
  <2> QED BY <1>2, <2>2, <2>3
<1>7. Goes(t, P)
  BY <1>5, <1>6, GoesOn
<1>8. \A i \in 1 .. Len(P) : P[i].op \in ShellOps \cup {"Flush", "Sleep"} \/ Has(M, P[i])
  BY <1>2, <1>6 DEF Has
<1>9. \A i \in 1 .. Len(fx) : fx[i].op = Spawn => Has(P, fx[i])
  BY <1>2, <1>6 DEF Has
<1>10. \A f : Has(M, f) => Has(P, f)
  <2> TAKE f
  <2> HAVE Has(M, f)
  <2>1. PICK i \in 1 .. Len(M) : M[i] = f
    BY DEF Has
  <2>2. PICK k : k = Len(Q) + i
    OBVIOUS
  <2>3. k \in 1 .. Len(P) /\ P[k] = f
    BY <1>6, <2>1, <2>2
  <2> QED BY <2>3 DEF Has
<1> QED BY <1>7, <1>8, <1>9, <1>10

\* What is staged brings the shown state up with the reducer.
LEMMA StagingShows ==
  ASSUME queue \in Seq(Staged), rs \in ReconnectStates, WellFormed(rs), NEW out, Carries(rs, out), Moves(rs, out),
         rs' = out.r, queue' = queue \o Publications(out.fx), NEW x, NEW y, Shows(queue, x, y), Agree(y, rs)
  PROVE  /\ \E z : Shows(queue', x, z) /\ Agree(z, rs')
         /\ \A i \in 1 .. Len(out.fx) : out.fx[i].op = "AbortInFlightAttempt" => rs'.phase = "Idle"
<1>1. out.fx \in Seq(Effects) /\ Len(out.fx) <= 4 /\ Run(out.fx, EdgeOf(rs), EdgeOf(out.r))
  BY CarriesRun
<1>2. PICK z : Says(out.fx, y, z, out.r.phase) /\ Agree(z, out.r)
  BY DEF Moves
<1>3. Shows(out.fx, y, z) /\ \A i \in 1 .. Len(out.fx) : out.fx[i].op = "AbortInFlightAttempt" => out.r.phase = "Idle"
  BY <1>2 DEF Says
<1>4. PICK p : p = Publications(out.fx)
  OBVIOUS
<1>5. p \in Seq(Staged)
  BY <1>1, <1>4, StagedRun
<1>6. Shows(p, y, z)
  BY <1>1, <1>3, <1>4, ShowsStaged
<1>7. Shows(queue \o p, x, z)
  BY <1>5, <1>6, ShowsBoth
<1>8. Shows(queue', x, z) /\ Agree(z, rs')
  BY <1>2, <1>4, <1>7
<1> QED BY <1>3, <1>8

-----------------------------------------------------------------------------
LEMMA ApplyLives ==
  ASSUME Inv, LiveInv, NEW t \in Threads, NEW out, Carries(rs, out), Moves(rs, out),
         NEW M \in Seq(Items), \A i \in 1 .. Len(M) : M[i].op = "NewAdapter",
         NEW rest, rest = M \o After(t), ApplyReconnect(t, out, rest), shown' = shown, SessionsMove(t),
         ~At(t, "Deliver"), ~At(t, "Build"), ~At(t, "NewAdapter"), ~At(t, Spawn),
         rs'.active /\ rs'.clock = NoClock => ~(t = Loop(rs.epoch) /\ At(t, "LoopStarted")),
         rs'.phase = "Connecting" => M # <<>> \/ (rs.phase = "Connecting" /\ sess' = sess),
         rs'.phase = "Connected" => \/ gen \in Generations /\ sess'[gen] = "up"
                                    \/ rs.phase = "Connected" /\ sess' = sess
  PROVE  LiveInv'
<1>1. /\ ThreadInv /\ rs \in ReconnectStates /\ WellFormed(rs) /\ gen \in Nat /\ queue \in Seq(Staged)
  BY DEF Inv, TypeInv
<1>2. /\ rs' = out.r /\ StagePublications(out.fx) /\ queue' = queue \o Publications(out.fx)
      /\ thr' = [thr EXCEPT ![t] = Program(out.fx) \o (M \o After(t))]
  BY DEF ApplyReconnect, StagePublications
<1>3. out.fx \in Seq(Effects)
  BY <1>1, CarriesRun
<1>4. /\ gen' \in Nat /\ gen <= gen'
      /\ (\A i \in 1 .. Len(out.fx) : out.fx[i].op # "AbortInFlightAttempt") => gen' = gen
  BY <1>1, <1>2, <1>3, GenerationMoves
<1>5. PICK P : P = Program(out.fx) \o M
  OBVIOUS
<1>6. /\ Goes(t, P)
      /\ \A i \in 1 .. Len(P) : P[i].op \in ShellOps \cup {"Flush", "Sleep"} \/ Has(M, P[i])
      /\ \A i \in 1 .. Len(out.fx) : out.fx[i].op = Spawn => Has(P, out.fx[i])
      /\ \A f : Has(M, f) => Has(P, f)
  <2>1. PICK fx \in Seq(Effects) : fx = out.fx
    BY <1>3
  <2>2. P = Program(fx) \o M /\ thr' = [thr EXCEPT ![t] = Program(fx) \o (M \o After(t))]
    BY <1>2, <1>5, <2>1
  <2>3. /\ Goes(t, P)
        /\ \A i \in 1 .. Len(P) : P[i].op \in ShellOps \cup {"Flush", "Sleep"} \/ Has(M, P[i])
        /\ \A i \in 1 .. Len(fx) : fx[i].op = Spawn => Has(P, fx[i])
        /\ \A f : Has(M, f) => Has(P, f)
    BY <1>1, <2>2, ApplyGoes
  <2> QED BY <2>1, <2>3
<1>7. \A i \in 1 .. Len(P) : P[i].op # "Deliver" /\ P[i].op # "Build"
  <2>1. \A o \in ShellOps \cup {"Flush", "Sleep", "NewAdapter"} : o # "Deliver" /\ o # "Build"
    BY DEF ShellOps
  <2>2. \A i \in 1 .. Len(P) : P[i].op \in ShellOps \cup {"Flush", "Sleep", "NewAdapter"}
    BY <1>6 DEF Has
  <2> QED BY <2>1, <2>2
<1>8. Builds(P)
  BY <1>7 DEF Builds
<1>9. ShowInv => ShowInv' /\ (rs'.phase # "Idle" => gen' = gen)
  <2> HAVE ShowInv
  <2>1. ASSUME NEW x, NEW y, Shows(queue, x, y), Agree(y, rs)
        PROVE  \E z : Shows(queue', x, z) /\ Agree(z, rs')
    BY <1>1, <1>2, <2>1, StagingShows
  <2>2. ShowInv'
    BY <1>1, <1>6, <1>7, <2>1, ShowStep
  <2>3. PICK x, y : Shows(queue, x, y) /\ Agree(y, rs)
    BY Zenon DEF ShowInv
  <2>4. \A i \in 1 .. Len(out.fx) : out.fx[i].op = "AbortInFlightAttempt" => rs'.phase = "Idle"
    BY <1>1, <1>2, <2>3, StagingShows
  <2> QED BY <1>4, <2>2, <2>4
<1>10. rs'.phase = "Connecting" /\ gen' = gen => LinksConnecting(t, P)
  <2> HAVE rs'.phase = "Connecting" /\ gen' = gen
  <2>1. CASE M # <<>>
    <3>1. 1 \in 1 .. Len(M) /\ M[1].op = "NewAdapter"
      BY <2>1
    <3>2. Has(P, M[1])
      BY <1>6, <3>1 DEF Has
    <3> QED BY <3>1, <3>2 DEF LinksConnecting, Has
  <2>2. CASE rs.phase = "Connecting" /\ sess' = sess
    BY <2>2 DEF LinksConnecting, Keeps
  <2> QED BY <2>1, <2>2
<1>11. rs'.phase = "Connected" /\ gen' = gen => LinksConnected(t, P)
  BY DEF LinksConnected, Keeps
<1>12. LinksLoop(t, P)
  <2> SUFFICES ASSUME rs'.active, rs'.clock = NoClock PROVE LinksLoop(t, P)
    BY Zenon DEF LinksLoop
  <2>1. \/ rs.active /\ rs.clock = NoClock /\ rs'.epoch = rs.epoch
        \/ \E i \in 1 .. Len(out.fx) : out.fx[i] = Fx(Spawn, rs'.epoch)
    BY <1>2, Zenon DEF Moves, Starts
  <2>2. CASE \E i \in 1 .. Len(out.fx) : out.fx[i] = Fx(Spawn, rs'.epoch)
    <3>0. PICK f : f = Fx(Spawn, rs'.epoch)
      OBVIOUS
    <3>1. f = Fx(Spawn, rs'.epoch) /\ f.op = Spawn
      BY <3>0 DEF Fx
    <3>2. Has(P, f)
      BY <1>6, <2>2, <3>1
    <3> QED BY <3>1, <3>2 DEF LinksLoop
  <2>3. CASE rs.active /\ rs.clock = NoClock /\ rs'.epoch = rs.epoch
    BY <2>3, Zenon DEF LinksLoop
  <2> QED BY <2>1, <2>2, <2>3
<1>13. ShowInv => ShowInv' /\ LinksConnecting(t, P) /\ LinksConnected(t, P) /\ LinksLoop(t, P)
  BY <1>9, <1>10, <1>11, <1>12 DEF LinksConnecting, LinksConnected
<1> QED BY <1>4, <1>6, <1>8, <1>13, LiveStep

\* apply_reconnect by a thread with nothing else left to do.
LEMMA ApplyEnds ==
  ASSUME Inv, LiveInv, NEW t \in Threads, After(t) = <<>>, NEW out, Carries(rs, out), Moves(rs, out),
         ApplyReconnect(t, out, <<>>), shown' = shown, SessionsMove(t),
         ~At(t, "Deliver"), ~At(t, "Build"), ~At(t, "NewAdapter"), ~At(t, Spawn),
         rs'.active /\ rs'.clock = NoClock => ~(t = Loop(rs.epoch) /\ At(t, "LoopStarted")),
         rs'.phase = "Connecting" => rs.phase = "Connecting" /\ sess' = sess,
         rs'.phase = "Connected" => \/ gen \in Generations /\ sess'[gen] = "up"
                                    \/ rs.phase = "Connected" /\ sess' = sess
  PROVE  LiveInv'
<1>1. PICK M, rest : M = <<>> /\ rest = <<>>
  OBVIOUS
<1>2. M \in Seq(Items) /\ rest = M \o After(t) /\ \A i \in 1 .. Len(M) : M[i].op = "NewAdapter"
  BY <1>1
<1>3. ApplyReconnect(t, out, rest)
  BY <1>1
<1> QED BY <1>2, <1>3, ApplyLives

-----------------------------------------------------------------------------
LEMMA SessionsAlone ==
  ASSUME sess' = sess, NEW t \in Threads
  PROVE  SessionsMove(t)
BY DEF SessionsMove

\* The background of the app changes.
LEMMA BackgroundStill ==
  ASSUME rs \in ReconnectStates, NEW b, rs' = [rs EXCEPT !.background = b], gen' = gen
  PROVE  Still
<1>1. PICK n : n = rs'
  OBVIOUS
<1>2. /\ n.phase = rs.phase /\ n.epoch = rs.epoch /\ n.active = rs.active /\ n.clock = rs.clock
  BY <1>1 DEF ReconnectStates
<1> QED BY <1>1, <1>2 DEF Still

\* The calls of the app.
LEMMA UiCallLives ==
  ASSUME Inv, LiveInv, UiCall
  PROVE  LiveInv'
<1>1. /\ rs \in ReconnectStates /\ WellFormed(rs) /\ ThreadInv /\ thr \in [Threads -> Seq(Items)]
  BY DEF Inv, TypeInv, ThreadInv
<1>2. Idle(Ui) /\ thr[Ui] = <<>> /\ After(Ui) = <<>> /\ \A op : ~At(Ui, op)
  BY DEF UiCall, BeginConnect, Disconnect, Cancel, EnterBackground, Suspend, EnterForeground,
         Idle, After, At
<1>3. PICK t \in Threads : t = Ui
  BY ThreadNames
<1>4. sess' = sess /\ shown' = shown /\ SessionsMove(t)
  <2>1. sess' = sess
    BY DEF UiCall, BeginConnect, Disconnect, Cancel, EnterBackground, Suspend, EnterForeground
  <2>2. shown' = shown
    BY DEF UiCall, BeginConnect, Disconnect, Cancel, EnterBackground, Suspend, EnterForeground
  <2> QED BY <2>1, <2>2, SessionsAlone
<1>5. CASE BeginConnect
  <2>1. PICK h, M : h = Fx("NewAdapter", Manual) /\ M = <<h>>
    OBVIOUS
  <2>2. h \in Items /\ h.op = "NewAdapter"
    <3>1. "NewAdapter" \in StepOps /\ Manual \in Int
      BY DEF StepOps, Manual
    <3> QED BY <2>1, <3>1, ItemOf
  <2>3. M \in Seq(Items) /\ M # <<>> /\ \A i \in 1 .. Len(M) : M[i].op = "NewAdapter"
    BY <2>1, <2>2
  <2>4. M = M \o After(t)
    BY <1>2, <1>3, <2>3, ConcatEmptySeq
  <2>5. PICK out : out = ManualConnectStarted(rs)
    OBVIOUS
  <2>6. Plain(rs, out) /\ Moves(rs, out) /\ out.r.phase = "Connecting"
    BY <1>1, <1>5, <2>5, ManualConnectPlain, ManualConnectMoves DEF BeginConnect
  <2>7. ApplyReconnect(t, out, M) /\ rs' = out.r
    BY <1>3, <1>5, <2>1, <2>5 DEF BeginConnect, ApplyReconnect
  <2> QED BY <1>2, <1>3, <1>4, <2>3, <2>4, <2>6, <2>7, ApplyLives DEF Carries
<1>6. CASE Disconnect \/ Cancel
  <2>1. PICK out : /\ Plain(rs, out) /\ Moves(rs, out) /\ out.r.phase \in {rs.phase, "Idle"}
                   /\ ApplyReconnect(Ui, out, <<>>)
    <3>1. CASE Disconnect
      BY <1>1, <3>1, UserDisconnectPlain, UserDisconnectMoves DEF Disconnect
    <3>2. CASE Cancel
      BY <1>1, <3>2, CancelPlain, CancelMoves DEF Cancel
    <3> QED BY <1>6, <3>1, <3>2
  <2>2. rs' = out.r /\ Carries(rs, out)
    BY <2>1 DEF ApplyReconnect, Carries
  <2> QED BY <1>2, <1>3, <1>4, <2>1, <2>2, ApplyEnds
<1>7. CASE EnterBackground \/ Suspend
  <2>1. PICK b : rs' = [rs EXCEPT !.background = b]
    BY <1>7 DEF EnterBackground, Suspend
  <2>2. gen' = gen /\ queue' = queue /\ thr' = thr
    BY <1>7 DEF EnterBackground, Suspend
  <2>3. Still
    BY <1>1, <2>1, <2>2, BackgroundStill
  <2>4. thr' = [thr EXCEPT ![t] = <<>>]
    BY <1>1, <1>2, <1>3, <2>2
  <2> QED BY <1>2, <1>3, <1>4, <2>2, <2>3, <2>4, IdleLives
<1>8. CASE EnterForeground
  <2>1. rs' = [rs EXCEPT !.background = "Foreground"]
    BY <1>8 DEF EnterForeground
  <2>2. gen' = gen /\ queue' = queue
    BY <1>8 DEF EnterForeground
  <2>3. Still
    BY <1>1, <2>1, <2>2, BackgroundStill
  <2>4. PICK h : h = Fx("StartAttempt", Foreground)
    OBVIOUS
  <2>5. h \in Items /\ h.op # "Deliver" /\ h.op # "Build"
    <3>1. "StartAttempt" \in StepOps /\ Foreground \in Int
      BY DEF StepOps, ShellOps, Foreground
    <3> QED BY <2>4, <3>1, ItemOf
  <2>6. PICK P : (P = <<>> \/ P = <<h>>) /\ thr' = [thr EXCEPT ![t] = P]
    BY <1>3, <1>8, <2>4 DEF EnterForeground
  <2>7. P = <<>> \/ \E k \in Items : P = <<k>> /\ k.op # "Deliver" /\ k.op # "Build"
    BY <2>5, <2>6
  <2> QED BY <1>2, <1>3, <1>4, <2>2, <2>3, <2>6, <2>7, IdleLives
<1> QED BY <1>5, <1>6, <1>7, <1>8 DEF UiCall

\* The path callback of the operating system and the debounce timer.
LEMMA PathLives ==
  ASSUME Inv, LiveInv, PathSatisfied \/ PathLost \/ DebounceFires
  PROVE  LiveInv'
<1>1. armed \in Int /\ gen \in Int /\ rs.phase \in Phases
  BY DEF Inv, TypeInv, ReconnectStates
<1>2. rs' = rs /\ gen' = gen /\ queue' = queue /\ sess' = sess /\ shown' = shown
  BY DEF PathSatisfied, PathLost, DebounceFires
<1>3. PICK t, h : /\ t \in {Os, Debouncer} /\ Idle(t) /\ thr' = [thr EXCEPT ![t] = <<h>>]
                  /\ \/ h = Fx("WakeIfActive", 0) \/ h = Fx("ObservePath", NoGeneration)
                     \/ h = Fx("ObservePath", gen) \/ h = Fx("LostCheck", <<rs.phase, gen>>)
                     \/ h = Fx("LostCheck", <<"Connected", armed>>)
  BY DEF PathSatisfied, PathLost, DebounceFires
<1>4. h \in Items /\ h.op # "Deliver" /\ h.op # "Build"
  <2>1. \A op \in {"WakeIfActive", "ObservePath"}, n \in Int : Fx(op, n) \in Items /\ Fx(op, n).op = op
    <3> TAKE op \in {"WakeIfActive", "ObservePath"}, n \in Int
    <3>1. op \in StepOps
      BY DEF StepOps
    <3> QED BY <3>1, ItemOf
  <2>2. ASSUME NEW p \in Phases, NEW g \in Int
        PROVE  Fx("LostCheck", <<p, g>>) \in Items /\ Fx("LostCheck", <<p, g>>).op = "LostCheck"
    <3>1. PICK c \in Phases \X Int : c = <<p, g>>
      OBVIOUS
    <3>2. PICK k : k = [op |-> "LostCheck", n |-> c]
      OBVIOUS
    <3>3. k \in [op : {"LostCheck"}, n : Phases \X Int] /\ k.op = "LostCheck"
      BY <3>2
    <3>4. Fx("LostCheck", <<p, g>>) = k
      BY <3>1, <3>2 DEF Fx
    <3> QED BY <3>3, <3>4 DEF Items
  <2>3. 0 \in Int /\ NoGeneration \in Int /\ "Connected" \in Phases
    BY DEF NoGeneration, Phases
  <2>4. CASE h = Fx("LostCheck", <<rs.phase, gen>>) \/ h = Fx("LostCheck", <<"Connected", armed>>)
    BY <1>1, <2>2, <2>3, <2>4
  <2>5. CASE h = Fx("WakeIfActive", 0) \/ h = Fx("ObservePath", NoGeneration) \/ h = Fx("ObservePath", gen)
    BY <1>1, <2>1, <2>3, <2>5
  <2> QED BY <1>3, <2>4, <2>5
<1>5. PICK P : P = <<h>>
  OBVIOUS
<1>6. \E k \in Items : P = <<k>> /\ k.op # "Deliver" /\ k.op # "Build"
  BY <1>4, <1>5
<1>7. t \in Threads /\ thr' = [thr EXCEPT ![t] = P]
  BY <1>3, <1>5, ThreadNames
<1>8. Still /\ SessionsMove(t)
  BY <1>2, <1>7, SessionsAlone DEF Still
<1> QED BY <1>2, <1>3, <1>6, <1>7, <1>8, IdleLives

\* Effects of which nothing is left to do, and the new session in the slot.
LEMMA SmallEffectLives ==
  ASSUME Inv, LiveInv, NEW t \in Threads,
         \/ InvalidatePathObserver(t) \/ WakeReconnectLoop(t) \/ WakeIfActive(t)
         \/ ObservePath(t) \/ DisconnectCurrentSession(t) \/ StoreSession(t)
  PROVE  LiveInv'
<1>1. /\ rs' = rs /\ gen' = gen /\ queue' = queue /\ shown' = shown /\ sess' = sess /\ Skip(t)
  BY DEF InvalidatePathObserver, WakeReconnectLoop, WakeIfActive, ObservePath,
         DisconnectCurrentSession, StoreSession
<1>2. PICK op : /\ At(t, op)
                /\ op \in {"InvalidatePathObserver", "WakeReconnectLoop", "WakeIfActive", "ObservePath",
                           "DisconnectSession", "AbortInFlightAttempt", "Store"}
  BY DEF InvalidatePathObserver, WakeReconnectLoop, WakeIfActive, ObservePath,
         DisconnectCurrentSession, StoreSession
<1>3. op \notin {"Deliver", "NewAdapter", "LoopStarted", "Build", Spawn}
  BY <1>2 DEF Spawn
<1> QED BY <1>1, <1>2, <1>3, SkipLives

-----------------------------------------------------------------------------
\* A step of the threads that deliver.
LEMMA DrainLives ==
  ASSUME Inv, LiveInv, NEW t \in Threads, NEW op \in {"Flush", "Deliver"}, At(t, op),
         NEW P, Goes(t, P), \A i \in 1 .. Len(P) : P[i].op # "Build",
         rs' = rs, gen' = gen, sess' = sess, ShowInv => ShowInv'
  PROVE  LiveInv'
<1>1. ThreadInv /\ BuildInv /\ gen \in Nat
  BY DEF Inv, TypeInv, LiveInv
<1>2. \A o : o # op => ~At(t, o)
  BY <1>1, AtStep
<1>3. ~At(t, "NewAdapter") /\ ~At(t, "LoopStarted") /\ ~At(t, Spawn) /\ ~At(t, "Build")
  BY <1>2 DEF Spawn
<1>4. Still /\ SessionsMove(t) /\ BuildsOrKeeps(t) /\ Builds(P) /\ gen' \in Nat /\ gen <= gen'
  BY <1>1, <1>3 DEF Still, SessionsMove, BuildsOrKeeps, Builds
<1>5. LinksConnecting(t, P) /\ LinksConnected(t, P) /\ LinksLoop(t, P)
  BY <1>1, <1>3, <1>4, StillLinks, StillLoops
<1> QED BY <1>4, <1>5, LiveStep

\* What a thread that takes a publication goes on with.
LEMMA TakesGoes ==
  ASSUME Inv, NEW t \in Threads, NEW op, At(t, op), queue # <<>>,
         thr' = [thr EXCEPT ![t] = <<Fx("Deliver", Head(queue))>> \o Rest(t)]
  PROVE  \E P : Goes(t, P) /\ \A i \in 1 .. Len(P) : P[i].op # "Build"
<1>1. ThreadInv /\ queue \in Seq(Staged)
  BY DEF Inv, TypeInv
<1>2. After(t) = Rest(t)
  BY <1>1, AtStep
<1>3. PICK f, h, P : f = Head(queue) /\ h = Fx("Deliver", f) /\ P = <<h>>
  OBVIOUS
<1>4. h \in Items /\ h.op = "Deliver"
  <2>1. f \in Staged
    BY <1>1, <1>3
  <2>2. h = [op |-> "Deliver", n |-> f]
    BY <1>3 DEF Fx
  <2>3. h \in [op : {"Deliver"}, n : Staged]
    BY <2>1, <2>2
  <2> QED BY <2>2, <2>3 DEF Items
<1>5. P \in Seq(Items) /\ \A i \in 1 .. Len(P) : P[i].op # "Build"
  BY <1>3, <1>4
<1>6. thr' = [thr EXCEPT ![t] = P \o After(t)]
  BY <1>2, <1>3
<1>7. Goes(t, P)
  BY <1>1, <1>5, <1>6, GoesOn
<1> QED BY <1>5, <1>7

\* flush_publications.
LEMMA FlushLives ==
  ASSUME Inv, LiveInv, NEW t \in Threads, FlushPublications(t)
  PROVE  LiveInv'
<1>1. CASE draining \/ queue = <<>>
  <2>1. /\ At(t, "Flush") /\ Skip(t) /\ rs' = rs /\ gen' = gen /\ queue' = queue /\ shown' = shown
        /\ sess' = sess
    BY <1>1 DEF FlushPublications
  <2>2. "Flush" \notin {"Deliver", "NewAdapter", "LoopStarted", "Build", Spawn}
    BY DEF Spawn
  <2> QED BY <2>1, <2>2, SkipLives
<1>2. CASE ~draining /\ queue # <<>>
  <2>1. /\ At(t, "Flush") /\ rs' = rs /\ gen' = gen /\ queue' = Tail(queue) /\ shown' = shown
        /\ sess' = sess /\ slot' = slot /\ disc' = disc
        /\ thr' = [thr EXCEPT ![t] = <<Fx("Deliver", Head(queue))>> \o Rest(t)]
    BY <1>2 DEF FlushPublications
  <2>2. /\ At(t, "Deliver")' /\ Arg(t)' = Head(queue)
        /\ \A u \in Threads : u # t => (At(u, "Deliver")' <=> At(u, "Deliver"))
    BY <1>2, <2>1, TakesFirst
  <2>3. \A u \in Threads : ~At(u, "Deliver")
    BY <1>2 DEF Inv, DrainInv
  <2>4. ShowInv => ShowInv'
    BY <1>2, <2>1, <2>2, <2>3, ShowFirst
  <2>5. PICK P : Goes(t, P) /\ \A i \in 1 .. Len(P) : P[i].op # "Build"
    BY <1>2, <2>1, TakesGoes
  <2> QED BY <2>1, <2>4, <2>5, DrainLives
<1> QED BY <1>1, <1>2

\* The drainer delivers and takes the next publication, or stops.
LEMMA DeliverLives ==
  ASSUME Inv, LiveInv, NEW t \in Threads, Deliver(t)
  PROVE  LiveInv'
<1>1. /\ At(t, "Deliver") /\ rs' = rs /\ gen' = gen /\ sess' = sess /\ slot' = slot /\ disc' = disc
  BY DEF Deliver
<1>2. ThreadInv /\ queue \in Seq(Staged)
  BY DEF Inv, TypeInv
<1>3. PICK f : f = Arg(t)
  OBVIOUS
<1>4. f \in Staged
  <2>1. PICK h \in Items : h.op = "Deliver" /\ h.n = f
    BY <1>1, <1>2, <1>3, AtStep
  <2>2. "Deliver" \notin StepOps
    BY DEF StepOps, ShellOps
  <2> QED BY <2>1, <2>2 DEF Items
<1>5. draining /\ \A u \in Threads : u # t => ~At(u, "Deliver")
  BY <1>1 DEF Inv, DrainInv
<1>6. shown' = Turn(shown, f)
  <2>1. f.op \in PublicationOps
    BY <1>4 DEF Staged
  <2>2. f.op \in StateOps <=> f.op \notin EdgeOps
    BY <2>1 DEF PublicationOps, StateOps, EdgeOps
  <2>3. shown' = IF f.op \in EdgeOps THEN shown ELSE PublicState[f.op]
    BY <1>3 DEF Deliver
  <2> QED BY <2>2, <2>3 DEF Turn
<1>7. CASE queue = <<>>
  <2>1. Skip(t) /\ queue' = queue
    BY <1>7 DEF Deliver
  <2>2. Goes(t, <<>>)
    BY <1>1, <1>2, <2>1, SkipGoes
  <2>3. \A i \in 1 .. Len(<<>>) : <<>>[i].op # "Deliver" /\ <<>>[i].op # "Build"
    OBVIOUS
  <2>4. /\ ~At(t, "Deliver")'
        /\ \A u \in Threads : u # t =>
              (At(u, "Deliver")' <=> At(u, "Deliver")) /\ (At(u, "Deliver") => Arg(u)' = Arg(u))
    BY <1>2, <2>2, <2>3, GoesHeads
  <2>5. \A u \in Threads : ~At(u, "Deliver")'
    BY <1>5, <2>4
  <2>6. ShowInv => ShowInv'
    BY <1>1, <1>3, <1>6, <2>1, <2>5, ShowLast
  <2> QED BY <1>1, <2>2, <2>3, <2>6, DrainLives
<1>8. CASE queue # <<>>
  <2>1. /\ thr' = [thr EXCEPT ![t] = <<Fx("Deliver", Head(queue))>> \o Rest(t)]
        /\ queue' = Tail(queue)
    BY <1>8 DEF Deliver
  <2>2. /\ At(t, "Deliver")' /\ Arg(t)' = Head(queue)
        /\ \A u \in Threads : u # t => (At(u, "Deliver")' <=> At(u, "Deliver"))
    BY <1>1, <1>8, <2>1, TakesFirst
  <2>3. ShowInv => ShowInv'
    BY <1>1, <1>3, <1>5, <1>6, <1>8, <2>1, <2>2, ShowFirst
  <2>4. PICK P : Goes(t, P) /\ \A i \in 1 .. Len(P) : P[i].op # "Build"
    BY <1>1, <1>8, <2>1, TakesGoes
  <2> QED BY <1>1, <2>3, <2>4, DrainLives
<1> QED BY <1>7, <1>8

\* A loop is spawned into a thread that has not run yet.
LEMMA SpawnLoopLives ==
  ASSUME Inv, LiveInv, NEW t \in Threads, SpawnReconnectLoop(t)
  PROVE  LiveInv'
<1>1. /\ At(t, Spawn) /\ rs' = rs /\ gen' = gen /\ queue' = queue /\ sess' = sess /\ shown' = shown
  BY DEF SpawnReconnectLoop, Spawn
<1>2. ThreadInv /\ thr \in [Threads -> Seq(Items)] /\ BuildInv /\ gen \in Nat
  BY DEF Inv, TypeInv, ThreadInv, LiveInv
<1>3. PICK m \in 1 .. MaxEpoch : m = Arg(t)
  BY DEF SpawnReconnectLoop
<1>4. PICK R : R = Rest(t)
  OBVIOUS
<1>5. /\ thr[t] # <<>> /\ R \in Seq(Items) /\ R = After(t)
      /\ ~At(t, "Deliver") /\ ~At(t, "NewAdapter") /\ ~At(t, "LoopStarted") /\ ~At(t, "Build")
  <2>1. /\ Spawn # "Deliver" /\ Spawn # "NewAdapter" /\ Spawn # "LoopStarted" /\ Spawn # "Build"
    BY DEF Spawn
  <2> QED BY <1>1, <1>2, <1>4, <2>1, AtStep
<1>6. PICK l \in Threads : l = Loop(m)
  BY ThreadNames
<1>7. thr[l] = <<>> /\ l # t
  <2>1. 1 \in 1 .. Len(thr[t]) /\ thr[t][1].op = Spawn /\ thr[t][1].n = m
    BY <1>1, <1>2, <1>3, <1>5 DEF At, Idle, Arg
  <2>2. thr[l] = <<>>
    BY <1>2, <1>6, <2>1 DEF ThreadInv, SpawnInv
  <2> QED BY <1>5, <2>2
<1>8. PICK h : h = Fx("LoopStarted", 0)
  OBVIOUS
<1>9. h \in Items /\ h.op = "LoopStarted"
  <2>1. "LoopStarted" \in StepOps
    BY DEF StepOps
  <2> QED BY <1>8, <2>1, ItemOf
<1>10. /\ thr' \in [Threads -> Seq(Items)] /\ thr'[t] = R /\ thr'[l] = <<h>>
       /\ \A u \in Threads : u # t /\ u # l => thr'[u] = thr[u]
  <2>1. thr' = [thr EXCEPT ![t] = R, ![l] = <<h>>] /\ <<h>> \in Seq(Items)
    BY <1>3, <1>4, <1>6, <1>8, <1>9 DEF SpawnReconnectLoop
  <2> QED BY <1>2, <1>5, <1>7, <2>1
<1>11. PICK P : P = <<>>
  OBVIOUS
<1>12. P \in Seq(Items) /\ P \o After(t) = R /\ \A i \in 1 .. Len(P) : P[i].op # "Deliver" /\ P[i].op # "Build"
  BY <1>5, <1>11
<1>13. Goes(t, P)
  BY <1>7, <1>8, <1>10, <1>12 DEF Goes
<1>14. Still /\ SessionsMove(t) /\ BuildsOrKeeps(t) /\ Builds(P) /\ gen' \in Nat /\ gen <= gen'
  BY <1>1, <1>2, <1>5, <1>12 DEF Still, SessionsMove, BuildsOrKeeps, Builds
<1>15. LinksConnecting(t, P) /\ LinksConnected(t, P)
  BY <1>2, <1>5, <1>14, StillLinks
<1>16. LinksLoop(t, P)
  <2>1. CASE rs.epoch = m
    <3>1. At(l, "LoopStarted")'
      <4>1. PICK Q : Q = <<h>>
        OBVIOUS
      <4>2. Q # <<>> /\ Head(Q) = h /\ thr'[l] = Q
        BY <1>10, <4>1
      <4> QED BY <1>9, <4>2 DEF At, Idle
    <3>2. rs'.epoch = m
      BY <1>1, <2>1
    <3>3. At(Loop(rs.epoch), "LoopStarted")'
      BY <1>6, <3>1, <3>2
    <3> QED BY <1>3, <3>2, <3>3, Zenon DEF LinksLoop
  <2>2. CASE rs.epoch # m
    BY <1>1, <1>3, <1>5, <2>2, Zenon DEF LinksLoop
  <2> QED BY <2>1, <2>2
<1>17. ShowInv => ShowInv'
  <2> HAVE ShowInv
  <2>1. ASSUME NEW x, NEW y, Shows(queue, x, y), Agree(y, rs)
        PROVE  \E z : Shows(queue', x, z) /\ Agree(z, rs')
    <3>1. Shows(queue', x, y) /\ Agree(y, rs')
      BY <1>1, <2>1
    <3> QED BY <3>1
  <2> QED BY <1>1, <1>2, <1>5, <1>12, <1>13, <2>1, ShowStep
<1> QED BY <1>13, <1>14, <1>15, <1>16, <1>17, LiveStep

-----------------------------------------------------------------------------
\* A loop that is spawned, or a timer that is armed, is the last effect.
LEMMA CarriesEnd ==
  ASSUME NEW r \in ReconnectStates, NEW out,
         Plain(r, out) \/ Spawns(r, out) \/ \E e \in Int : Arms(r, out, e)
  PROVE  Carries(r, out)
<1>1. CASE Plain(r, out)
  BY <1>1 DEF Carries
<1>2. ASSUME NEW op \in {"StartReconnectLoop", "ArmLoopTimer"}, NEW n \in Int,
             NEW f, f = Fx(op, n), EndsIn(r, out, f)
      PROVE  Carries(r, out)
  <2>1. op \in ShellOps \cup EdgeOps \cup {"ArmLoopTimer"} /\ op \notin EdgeOps
    BY DEF ShellOps, EdgeOps
  <2>2. Fx(op, n) \in Effects /\ Fx(op, n).op = op
    BY <2>1, ShellEffect
  <2> QED BY <1>2, <2>1, <2>2 DEF Carries
<1>3. CASE Spawns(r, out)
  <2>1. PICK n \in Int : n = r.epoch + 1
    BY DEF ReconnectStates
  <2>2. EndsIn(r, out, Fx("StartReconnectLoop", n))
    BY <1>3, <2>1 DEF Spawns
  <2> QED BY <1>2, <2>2
<1>4. CASE \E e \in Int : Arms(r, out, e)
  BY <1>2, <1>4 DEF Arms
<1> QED BY <1>1, <1>3, <1>4

\* apply_network_lost_if_unchanged.
LEMMA LostCheckLives ==
  ASSUME Inv, LiveInv, NEW t \in Threads, LostCheck(t)
  PROVE  LiveInv'
<1>1. ThreadInv /\ gen \in Int
  BY DEF Inv, TypeInv
<1>2. /\ rs' = rs /\ gen' = gen /\ queue' = queue /\ sess' = sess /\ shown' = shown /\ At(t, "LostCheck")
  BY DEF LostCheck
<1>3. "LostCheck" \in LastOps /\ "DisconnectSession" \in StepOps /\ "LostHandle" \in StepOps
  BY DEF LastOps, StepOps, ShellOps
<1>4. "LostCheck" # Spawn
  BY DEF Spawn
<1>5. /\ After(t) = <<>> /\ ~At(t, "Deliver") /\ ~At(t, "NewAdapter") /\ ~At(t, "LoopStarted")
      /\ ~At(t, Spawn) /\ ~At(t, "Build")
  BY <1>1, <1>2, <1>3, <1>4, AtStep
<1>6. PICK d, h : d = Fx("DisconnectSession", 0) /\ h = Fx("LostHandle", gen)
  OBVIOUS
<1>7. d \in Items /\ d.op = "DisconnectSession" /\ h \in Items /\ h.op = "LostHandle"
  BY <1>1, <1>3, <1>6, ItemOf
<1>8. PICK P : (P = <<d, h>> \/ P = <<>>) /\ thr' = [thr EXCEPT ![t] = P]
  BY <1>6 DEF LostCheck
<1>9. P \in Seq(Items) /\ \A i \in 1 .. Len(P) : P[i].op # "Deliver" /\ P[i].op # "Build"
  <2>1. CASE P = <<d, h>>
    <3>1. P \in Seq(Items) /\ Len(P) = 2 /\ P[1] = d /\ P[2] = h
      BY <1>7, <2>1
    <3>2. \A i \in 1 .. Len(P) : i = 1 \/ i = 2
      BY <3>1
    <3> QED BY <1>7, <3>1, <3>2
  <2>2. CASE P = <<>>
    BY <2>2
  <2> QED BY <1>8, <2>1, <2>2
<1>10. P \o After(t) = P
  BY <1>5, <1>9, ConcatEmptySeq
<1>11. thr' = [thr EXCEPT ![t] = P \o After(t)]
  BY <1>8, <1>10
<1>12. Goes(t, P)
  BY <1>1, <1>9, <1>11, GoesOn
<1>13. Still /\ SessionsMove(t) /\ BuildsOrKeeps(t)
  BY <1>2, <1>5 DEF Still, SessionsMove, BuildsOrKeeps
<1> QED BY <1>2, <1>5, <1>9, <1>12, <1>13, StillLives

\* handle_unexpected_disconnect after a path loss.
LEMMA LostHandleLives ==
  ASSUME Inv, LiveInv, NEW t \in Threads, LostHandle(t)
  PROVE  LiveInv'
<1>1. ThreadInv /\ rs \in ReconnectStates /\ WellFormed(rs)
  BY DEF Inv, TypeInv
<1>2. At(t, "LostHandle") /\ sess' = sess /\ shown' = shown
  BY DEF LostHandle
<1>3. "LostHandle" \in LastOps /\ "LostHandle" # Spawn
  BY DEF LastOps, Spawn
<1>4. /\ After(t) = <<>> /\ After(t) = Rest(t) /\ ~At(t, "Deliver") /\ ~At(t, "NewAdapter")
      /\ ~At(t, "LoopStarted") /\ ~At(t, Spawn) /\ ~At(t, "Build")
  BY <1>1, <1>2, <1>3, AtStep
<1>5. CASE Arg(t) = gen
  <2>1. PICK out : out = AttemptDisconnected(rs, "NetworkLost")
    OBVIOUS
  <2>2. Carries(rs, out)
    BY <1>1, <2>1, AttemptDisconnectedEffects, CarriesEnd
  <2>3. Moves(rs, out) /\ out.r.phase = "Idle"
    BY <1>1, <2>1, AttemptDisconnectedMoves
  <2>4. ApplyReconnect(t, out, <<>>) /\ rs' = out.r
    BY <1>5, <2>1 DEF LostHandle, ApplyReconnect
  <2> QED BY <1>2, <1>4, <2>2, <2>3, <2>4, SessionsAlone, ApplyEnds
<1>6. CASE Arg(t) # gen
  <2>1. thr' = [thr EXCEPT ![t] = <<>>] /\ rs' = rs /\ gen' = gen /\ queue' = queue
    BY <1>6 DEF LostHandle
  <2>2. Skip(t)
    BY <1>4, <2>1 DEF Skip
  <2>3. "LostHandle" \notin {"Deliver", "NewAdapter", "LoopStarted", "Build", Spawn}
    BY <1>3
  <2> QED BY <1>2, <2>1, <2>2, <2>3, SkipLives
<1> QED BY <1>5, <1>6

\* begin_reconnect_session.
LEMMA BeginReconnectLives ==
  ASSUME Inv, LiveInv, NEW t \in Threads, BeginReconnectSession(t)
  PROVE  LiveInv'
<1>1. ThreadInv /\ rs \in ReconnectStates /\ WellFormed(rs)
  BY DEF Inv, TypeInv
<1>2. /\ At(t, "StartAttempt") /\ shown' = shown /\ sess' = sess
      /\ ApplyReconnect(t, ReconnectSessionStarting(rs), <<Fx("NewAdapter", Arg(t))>> \o Rest(t))
  BY DEF BeginReconnectSession
<1>3. "StartAttempt" \in StepOps /\ "NewAdapter" \in StepOps /\ "StartAttempt" # Spawn
  BY DEF StepOps, ShellOps, Spawn
<1>4. /\ After(t) = Rest(t) /\ Arg(t) \in Int /\ ~At(t, "Deliver") /\ ~At(t, "NewAdapter")
      /\ ~At(t, "LoopStarted") /\ ~At(t, Spawn) /\ ~At(t, "Build")
  BY <1>1, <1>2, <1>3, AtStep
<1>5. PICK h, M, out, rest : /\ h = Fx("NewAdapter", Arg(t)) /\ M = <<h>>
                             /\ out = ReconnectSessionStarting(rs) /\ rest = M \o After(t)
  OBVIOUS
<1>6. h \in Items /\ h.op = "NewAdapter"
  BY <1>3, <1>4, <1>5, ItemOf
<1>7. M \in Seq(Items) /\ M # <<>> /\ \A i \in 1 .. Len(M) : M[i].op = "NewAdapter"
  BY <1>5, <1>6
<1>8. Carries(rs, out) /\ Moves(rs, out)
  <2>1. Plain(rs, out)
    BY <1>1, <1>5, SetPhasePlain DEF ReconnectSessionStarting, Phases
  <2> QED BY <1>1, <1>5, <2>1, SessionStartingMoves DEF Carries
<1>9. ApplyReconnect(t, out, rest) /\ rs' = out.r /\ out.r.phase = "Connecting"
  BY <1>1, <1>2, <1>4, <1>5, SessionStartingMoves DEF ApplyReconnect
<1> QED BY <1>2, <1>4, <1>5, <1>7, <1>8, <1>9, SessionsAlone, ApplyLives

\* The loop task.
LEMMA LoopLives ==
  ASSUME Inv, LiveInv, NEW e \in 1 .. MaxEpoch, LoopStart(e) \/ LoopTick(e) \/ LoopWake(e)
  PROVE  LiveInv'
<1>1. ThreadInv /\ rs \in ReconnectStates /\ WellFormed(rs)
  BY DEF Inv, TypeInv
<1>2. PICK t \in Threads : t = Loop(e)
  BY ThreadNames
<1>3. shown' = shown /\ sess' = sess
  BY DEF LoopStart, LoopTick, LoopWake
<1>4. PICK op : At(t, op) /\ op \in {"LoopStarted", "Sleep"}
  BY <1>2 DEF LoopStart, LoopTick, LoopWake
<1>5. op \in LastOps /\ op # Spawn
  BY <1>4 DEF LastOps, Spawn
<1>6. /\ After(t) = <<>> /\ ~At(t, "Deliver") /\ ~At(t, "NewAdapter") /\ ~At(t, Spawn) /\ ~At(t, "Build")
  BY <1>1, <1>4, <1>5, AtStep
<1>7. e \in Int
  BY OrchestratorAssumption
<1>8. CASE LoopStart(e)
  <2>1. PICK out : out = LoopStarted(rs, e)
    OBVIOUS
  <2>2. ApplyReconnect(t, out, <<>>) /\ rs' = out.r
    BY <1>2, <1>8, <2>1 DEF LoopStart, ApplyReconnect
  <2>3. Carries(rs, out)
    BY <1>1, <1>7, <2>1, LoopStartedEffects, CarriesEnd
  <2>4. Moves(rs, out) /\ out.r.phase = rs.phase
    BY <1>1, <1>7, <2>1, LoopStartedMoves
  <2>5. rs'.active /\ rs'.clock = NoClock => t # Loop(rs.epoch)
    <3> SUFFICES ASSUME rs'.active, rs'.clock = NoClock, t = Loop(rs.epoch) PROVE FALSE
      OBVIOUS
    <3>1. e = rs.epoch
      BY <1>2, ThreadNames
    <3>2. CASE ~rs.active \/ rs.clock # NoClock
      <4>1. out = Out(rs, <<>>)
        BY <2>1, <3>1, <3>2, Zenon DEF LoopStarted
      <4>2. rs' = rs
        BY <2>2, <4>1 DEF Out
      <4> QED BY <3>2, <4>2, Zenon
    <3>3. CASE rs.active /\ rs.clock = NoClock
      <4>1. PICK n, fx : n = [rs EXCEPT !.clock = 0] /\ out = Out(n, fx)
        BY <2>1, <3>1, <3>3 DEF LoopStarted
      <4>2. rs' = n /\ n.clock = 0
        BY <1>1, <2>2, <4>1 DEF Out, ReconnectStates
      <4> QED BY <4>2 DEF NoClock
    <3> QED BY <3>2, <3>3
  <2> QED BY <1>3, <1>6, <2>2, <2>3, <2>4, <2>5, SessionsAlone, ApplyEnds
<1>9. CASE LoopTick(e) \/ LoopWake(e)
  <2>1. PICK out : /\ out = ReconnectTick(rs, e, script.policy) \/ out = ReconnectWake(rs, e)
                   /\ ApplyReconnect(t, out, <<>>)
    BY <1>2, <1>9 DEF LoopTick, LoopWake
  <2>2. rs' = out.r
    BY <2>1 DEF ApplyReconnect
  <2>3. Carries(rs, out)
    BY <1>1, <1>7, <2>1, ReconnectTickEffects, ReconnectWakeEffects, CarriesEnd
  <2>4. Moves(rs, out) /\ out.r.phase \in {rs.phase, "Idle"}
    BY <1>1, <1>7, <2>1, ReconnectTickMoves, ReconnectWakeMoves
  <2>5. ~At(t, "LoopStarted")
    <3>1. At(t, "Sleep")
      BY <1>2, <1>9 DEF LoopTick, LoopWake
    <3> QED BY <1>1, <3>1, AtStep
  <2> QED BY <1>3, <1>6, <2>1, <2>2, <2>3, <2>4, <2>5, SessionsAlone, ApplyEnds
<1> QED BY <1>8, <1>9

-----------------------------------------------------------------------------
\* OrchestratorAdapter::new: a generation begins and its session is to be built.
LEMMA NewAdapterLives ==
  ASSUME Inv, LiveInv, NEW t \in Threads, NewAdapter(t)
  PROVE  LiveInv'
<1>1. /\ ThreadInv /\ rs \in ReconnectStates /\ WellFormed(rs) /\ gen \in Nat /\ queue \in Seq(Staged)
  BY DEF Inv, TypeInv
<1>2. PICK g \in Nat : g = gen + 1
  BY <1>1
<1>3. PICK out : out = SessionCreated(rs, g)
  OBVIOUS
<1>4. /\ At(t, "NewAdapter") /\ sess' = sess /\ gen' = g /\ rs' = out.r /\ shown' = shown
      /\ g \in Generations /\ queue' = queue \o Publications(out.fx)
      /\ thr' = [thr EXCEPT ![t] = Program(out.fx) \o <<Fx("Build", g)>> \o Rest(t)]
  BY <1>2, <1>3 DEF NewAdapter
<1>5. /\ Carries(rs, out) /\ Moves(rs, out) /\ out.r.phase = rs.phase
  BY <1>1, <1>3, SessionCreatedPlain, SessionCreatedMoves DEF Carries
<1>6. PICK fx \in Seq(Effects) : fx = out.fx
  BY <1>1, <1>5, CarriesRun
<1>7. "NewAdapter" # Spawn /\ "Build" \in StepOps
  BY DEF Spawn, StepOps
<1>8. /\ After(t) = Rest(t) /\ After(t) \in Seq(Items)
      /\ ~At(t, "Deliver") /\ ~At(t, "LoopStarted") /\ ~At(t, Spawn) /\ ~At(t, "Build")
  BY <1>1, <1>4, <1>7, AtStep
<1>9. PICK h, M, Q, P : h = Fx("Build", g) /\ M = <<h>> /\ Q = Program(fx) /\ P = Q \o M
  OBVIOUS
<1>10. h \in Items /\ h.op = "Build" /\ h.n = g
  <2>1. h \in Items /\ h.op = "Build"
    BY <1>7, <1>9, ItemOf
  <2> QED BY <1>9, <2>1 DEF Fx
<1>11. M \in Seq(Items) /\ Len(M) = 1 /\ M[1] = h /\ \A i \in 1 .. Len(M) : i = 1
  BY <1>9, <1>10
<1>12. /\ Q \in Seq(Items) /\ \A i \in 1 .. Len(Q) : Q[i].op # "Build" /\ Q[i].op # "Deliver"
  <2>1. /\ Q \in Seq(Items) /\ Len(Q) = Len(fx)
        /\ \A i \in 1 .. Len(fx) : Q[i].op \in ShellOps \cup {"Flush", "Sleep"}
    BY <1>9, ProgramItems
  <2>2. \A o \in ShellOps \cup {"Flush", "Sleep"} : o # "Build" /\ o # "Deliver"
    BY DEF ShellOps
  <2> QED BY <2>1, <2>2
<1>13. thr' = [thr EXCEPT ![t] = Program(fx) \o (M \o After(t))]
  <2>1. Q \o (M \o After(t)) = (Q \o M) \o After(t)
    BY <1>8, <1>11, <1>12, Regroup
  <2>2. thr' = [thr EXCEPT ![t] = (Q \o M) \o After(t)]
    BY <1>4, <1>6, <1>8, <1>9
  <2> QED BY <1>9, <2>1, <2>2
<1>14. /\ Goes(t, P) /\ \A i \in 1 .. Len(fx) : fx[i].op = Spawn => Has(P, fx[i])
       /\ \A f : Has(M, f) => Has(P, f)
  BY <1>1, <1>9, <1>11, <1>13, ApplyGoes
<1>15. \A i \in 1 .. Len(P) : \/ P[i].op # "Build" /\ P[i].op # "Deliver"
                              \/ i = Len(Q) + 1 /\ P[i] = h
  <2> TAKE i \in 1 .. Len(P)
  <2>1. \/ i \in 1 .. Len(Q) /\ P[i] = Q[i]
        \/ i - Len(Q) \in 1 .. Len(M) /\ P[i] = M[i - Len(Q)]
    BY <1>9, <1>11, <1>12, JoinedItems
  <2>2. CASE i \in 1 .. Len(Q) /\ P[i] = Q[i]
    BY <1>12, <2>2
  <2>3. CASE i - Len(Q) \in 1 .. Len(M) /\ P[i] = M[i - Len(Q)]
    <3>1. PICK k : k = i - Len(Q)
      OBVIOUS
    <3>2. k = 1 /\ P[i] = h
      BY <1>11, <2>3, <3>1
    <3>3. Len(Q) \in Nat /\ i \in Int
      BY <1>12
    <3> QED BY <3>1, <3>2, <3>3
  <2> QED BY <2>1, <2>2, <2>3
<1>16. Builds(P)
  <2>1. \A i \in 1 .. Len(P) : P[i].op = "Build" => P[i].n = gen + 1 /\ i = Len(Q) + 1
    BY <1>2, <1>10, <1>15
  <2> QED BY <1>2, <1>4, <2>1 DEF Builds
<1>17. \A i \in 1 .. Len(P) : P[i].op # "Deliver"
  BY <1>10, <1>15
<1>18. gen' \in Generations /\ Has(P, Fx("Build", gen')) /\ gen' \in Nat /\ gen <= gen'
  <2>1. Has(M, h)
    BY <1>11 DEF Has
  <2> QED BY <1>1, <1>2, <1>4, <1>9, <1>14, <2>1
<1>19. LinksConnecting(t, P) /\ LinksConnected(t, P)
  BY <1>18 DEF LinksConnecting, LinksConnected
<1>20. LinksLoop(t, P)
  <2> SUFFICES ASSUME rs'.active, rs'.clock = NoClock PROVE LinksLoop(t, P)
    BY Zenon DEF LinksLoop
  <2>1. \/ rs.active /\ rs.clock = NoClock /\ rs'.epoch = rs.epoch
        \/ \E i \in 1 .. Len(fx) : fx[i] = Fx(Spawn, rs'.epoch)
    BY <1>4, <1>5, <1>6, Zenon DEF Moves, Starts
  <2>2. CASE \E i \in 1 .. Len(fx) : fx[i] = Fx(Spawn, rs'.epoch)
    <3>1. PICK f : f = Fx(Spawn, rs'.epoch)
      OBVIOUS
    <3>2. f.op = Spawn
      BY <3>1 DEF Fx
    <3>3. Has(P, f)
      BY <1>14, <2>2, <3>1, <3>2
    <3> QED BY <3>1, <3>3 DEF LinksLoop
  <2>3. CASE rs.active /\ rs.clock = NoClock /\ rs'.epoch = rs.epoch
    BY <1>8, <2>3, Zenon DEF LinksLoop
  <2> QED BY <2>1, <2>2, <2>3
<1>21. ShowInv => ShowInv'
  <2> HAVE ShowInv
  <2>1. ASSUME NEW x, NEW y, Shows(queue, x, y), Agree(y, rs)
        PROVE  \E z : Shows(queue', x, z) /\ Agree(z, rs')
    BY <1>1, <1>4, <1>5, <2>1, StagingShows
  <2> QED BY <1>1, <1>4, <1>8, <1>14, <1>17, <2>1, ShowStep
<1>22. SessionsMove(t)
  BY <1>4, SessionsAlone
<1> QED BY <1>14, <1>16, <1>18, <1>19, <1>20, <1>21, <1>22, LiveStep

\* The transport's connect() returned a session.
LEMMA SpawnedLives ==
  ASSUME Inv, LiveInv, NEW t \in Threads, SessionSpawned(t)
  PROVE  LiveInv'
<1>1. /\ rs' = rs /\ gen' = gen /\ queue' = queue /\ shown' = shown /\ At(t, "Build")
      /\ sess' = [sess EXCEPT ![Arg(t)] = "dialing"]
      /\ thr' = [thr EXCEPT ![t] = <<Fx("Store", Arg(t))>> \o Rest(t)]
  BY DEF SessionSpawned
<1>2. ThreadInv /\ sess \in [Generations -> Sessions]
  BY DEF Inv, TypeInv
<1>3. "Build" \in StepOps /\ "Store" \in StepOps /\ "Build" # Spawn
  BY DEF StepOps, Spawn
<1>4. /\ After(t) = Rest(t) /\ Arg(t) \in Int
      /\ ~At(t, "Deliver") /\ ~At(t, "NewAdapter") /\ ~At(t, "LoopStarted") /\ ~At(t, Spawn)
  BY <1>1, <1>2, <1>3, AtStep
<1>5. PICK h, P : h = Fx("Store", Arg(t)) /\ P = <<h>>
  OBVIOUS
<1>6. h \in Items /\ h.op = "Store"
  BY <1>3, <1>4, <1>5, ItemOf
<1>7. P \in Seq(Items) /\ \A i \in 1 .. Len(P) : P[i].op # "Deliver" /\ P[i].op # "Build"
  BY <1>5, <1>6
<1>8. thr' = [thr EXCEPT ![t] = P \o After(t)]
  BY <1>1, <1>4, <1>5
<1>9. Goes(t, P)
  BY <1>2, <1>7, <1>8, GoesOn
<1>10. \A g \in Generations : sess'[g] = IF g = Arg(t) THEN "dialing" ELSE sess[g]
  BY <1>1, <1>2
<1>11. Still /\ SessionsMove(t) /\ BuildsOrKeeps(t)
  BY <1>1, <1>10 DEF Still, SessionsMove, BuildsOrKeeps
<1> QED BY <1>1, <1>4, <1>7, <1>9, <1>11, StillLives

\* connect() failed at once: from now on a session has been refused.
LEMMA RefusedLives ==
  ASSUME Inv, LiveInv, NEW t \in Threads, SessionRefused(t)
  PROVE  LiveInv'
<1>1. /\ ThreadInv /\ rs \in ReconnectStates /\ WellFormed(rs) /\ gen \in Nat
      /\ sess \in [Generations -> Sessions] /\ BuildInv
  BY DEF Inv, TypeInv, LiveInv
<1>2. PICK out : Plain(rs, out) /\ ApplyReconnect(t, out, Rest(t))
  <2>1. PICK out :
          /\ \/ out = ManualConnectFailedSync(rs) \/ out = Out(rs, <<>>)
             \/ out = ForegroundReconnectFailedSync(rs)
             \/ out = AttemptFailedSync(rs, origin[Arg(t)])
          /\ ApplyReconnect(t, out, Rest(t))
    BY DEF SessionRefused
  <2>2. Plain(rs, ManualConnectFailedSync(rs)) /\ Plain(rs, AttemptFailedSync(rs, origin[Arg(t)]))
    BY <1>1, FailedSyncPlain
  <2>3. Plain(rs, Out(rs, <<>>)) /\ Plain(rs, ForegroundReconnectFailedSync(rs))
    BY <1>1, IgnoredPlain, ForegroundFailedPlain
  <2> QED BY <2>1, <2>2, <2>3
<1>3. At(t, "Build") /\ sess' = [sess EXCEPT ![Arg(t)] = "refused"]
  BY DEF SessionRefused
<1>4. Arg(t) \in Generations
  <2>1. thr[t] \in Seq(Items)
    BY <1>1 DEF ThreadInv
  <2>2. 1 \in 1 .. Len(thr[t]) /\ thr[t][1].op = "Build" /\ thr[t][1].n = Arg(t)
    BY <1>3, <2>1 DEF At, Idle, Arg
  <2> QED BY <1>1, <2>2 DEF BuildInv
<1>5. PICK fx \in Seq(Effects) : fx = out.fx
  BY <1>2 DEF Plain, Emits
<1>6. gen' \in Nat /\ gen <= gen'
  <2>1. StagePublications(fx)
    BY <1>2, <1>5 DEF ApplyReconnect
  <2> QED BY <1>1, <2>1, GenerationMoves
<1>7. After(t) = Rest(t) /\ After(t) \in Seq(Items)
  BY <1>1, <1>3, AtStep
<1>8. PICK P : P = Program(fx)
  OBVIOUS
<1>9. P \in Seq(Items) /\ \A i \in 1 .. Len(P) : P[i].op # "Build"
  <2>1. /\ P \in Seq(Items) /\ Len(P) = Len(fx)
        /\ \A i \in 1 .. Len(fx) : P[i].op \in ShellOps \cup {"Flush", "Sleep"}
    BY <1>8, ProgramItems
  <2>2. \A o \in ShellOps \cup {"Flush", "Sleep"} : o # "Build"
    BY DEF ShellOps
  <2> QED BY <2>1, <2>2
<1>10. Goes(t, P)
  <2>1. thr' = [thr EXCEPT ![t] = P \o After(t)]
    BY <1>2, <1>5, <1>7, <1>8 DEF ApplyReconnect
  <2> QED BY <1>1, <1>9, <2>1, GoesOn
<1>11. \A g \in Generations : sess'[g] = IF g = Arg(t) THEN "refused" ELSE sess[g]
  BY <1>1, <1>3
<1>12. SessionsMove(t) /\ Builds(P) /\ ~NoneRefused'
  BY <1>3, <1>4, <1>9, <1>11 DEF SessionsMove, Builds, NoneRefused
<1>13. BuildInv'
  <2>1. \A i \in 1 .. Len(P) : P[i].op = "Build" =>
          /\ P[i].n = gen + 1 /\ gen' = gen + 1 /\ gen' \in Generations
          /\ \A j \in 1 .. Len(P) : P[j].op = "Build" => j = i
    BY <1>9
  <2>2. \A g \in Generations : sess'[g] # sess[g] =>
          sess[g] \in {"dialing", "up"} \/ (At(t, "Build") /\ Arg(t) = g)
    BY <1>12 DEF SessionsMove
  <2> QED BY <1>1, <1>6, <1>10, <2>1, <2>2, BuildStep
<1> QED BY <1>12, <1>13 DEF LiveInv

-----------------------------------------------------------------------------
\* A callback of a session's task, heard or ignored.
LEMMA SessionLives ==
  ASSUME Inv, LiveInv, NEW g \in Generations, SessionConnected(g) \/ SessionEnds(g) \/ SessionLost(g)
  PROVE  LiveInv'
<1>1. /\ rs \in ReconnectStates /\ WellFormed(rs) /\ sess \in [Generations -> Sessions] /\ g \in Nat
      /\ ThreadInv /\ thr \in [Threads -> Seq(Items)]
  BY OrchestratorAssumption DEF Inv, TypeInv, Generations, ThreadInv
<1>2. PICK t \in Threads : t = Session(g)
  BY ThreadNames
<1>3. Idle(t) /\ shown' = shown
  BY <1>2 DEF SessionConnected, SessionEnds, SessionLost
<1>4. thr[t] = <<>> /\ After(t) = <<>> /\ \A op : ~At(t, op)
  BY <1>3 DEF Idle, After, At
<1>5. PICK s, out :
        /\ sess' = [sess EXCEPT ![g] = s] /\ sess[g] \in {"dialing", "up"} /\ Callback(g, out)
        /\ \/ s = "up" /\ out = AttemptConnected(rs, g)
           \/ s = "dead" /\ \E kind : out = AttemptDisconnected(rs, kind)
  BY DEF SessionConnected, SessionEnds, SessionLost
<1>6. \A k \in Generations : sess'[k] = IF k = g THEN s ELSE sess[k]
  BY <1>1, <1>5
<1>7. SessionsMove(t)
  BY <1>5, <1>6 DEF SessionsMove
<1>8. CASE gen = g
  <2>1. ApplyReconnect(t, out, <<>>) /\ rs' = out.r
    BY <1>2, <1>5, <1>8 DEF Callback, ApplyReconnect
  <2>2. CASE s = "up" /\ out = AttemptConnected(rs, g)
    <3>1. Carries(rs, out) /\ Moves(rs, out) /\ out.r.phase = "Connected"
      BY <1>1, <2>2, AttemptConnectedPlain, AttemptConnectedMoves DEF Carries
    <3>2. gen \in Generations /\ sess'[gen] = "up"
      BY <1>6, <1>8, <2>2
    <3> QED BY <1>3, <1>4, <1>7, <2>1, <3>1, <3>2, ApplyEnds
  <2>3. CASE \E kind : out = AttemptDisconnected(rs, kind)
    <3>1. PICK kind : out = AttemptDisconnected(rs, kind)
      BY <2>3
    <3>2. Carries(rs, out)
      BY <1>1, <3>1, AttemptDisconnectedEffects, CarriesEnd
    <3>3. Moves(rs, out) /\ out.r.phase = "Idle"
      BY <1>1, <3>1, AttemptDisconnectedMoves
    <3> QED BY <1>3, <1>4, <1>7, <2>1, <3>2, <3>3, ApplyEnds
  <2> QED BY <1>5, <2>2, <2>3
<1>9. CASE gen # g
  <2>1. rs' = rs /\ gen' = gen /\ queue' = queue /\ thr' = thr
    BY <1>5, <1>9 DEF Callback
  <2>2. thr' = [thr EXCEPT ![t] = <<>>]
    BY <1>1, <1>4, <2>1
  <2>3. Still
    BY <2>1 DEF Still
  <2>4. gen \in Generations => sess'[gen] = sess[gen]
    BY <1>6, <1>9
  <2> QED BY <1>3, <1>7, <2>1, <2>2, <2>3, <2>4, IdleLives
<1> QED BY <1>8, <1>9

-----------------------------------------------------------------------------
LEMMA InitLive == Init => LiveInv
<1> SUFFICES ASSUME Init PROVE LiveInv
  OBVIOUS
<1>1. \A t \in Threads : thr[t] = <<>> /\ Len(thr[t]) = 0
  BY DEF Init
<1>2. BuildInv
  BY <1>1 DEF Init, BuildInv
<1>3. rs.phase = "Idle" /\ ~rs.active
  BY DEF Init, DefaultState
<1>4. LinkInv
  BY <1>3 DEF LinkInv
<1>5. ShowInv
  <2>1. \A t \in Threads : ~At(t, "Deliver")
    BY <1>1 DEF At, Idle
  <2>2. Shows(queue, shown, shown)
    BY ShowsNothing DEF Init
  <2>3. shown = "none"
    BY DEF Init
  <2>4. Agree(shown, rs)
    BY <1>3, <2>3 DEF Agree
  <2> QED BY <2>1, <2>2, <2>4, Zenon DEF ShowInv
<1> QED BY <1>2, <1>4, <1>5 DEF LiveInv

LEMMA NextLive == Inv /\ LiveInv /\ [Next]_vars => LiveInv'
<1> SUFFICES ASSUME Inv, LiveInv, [Next]_vars PROVE LiveInv'
  OBVIOUS
<1>1. CASE UiCall
  BY <1>1, UiCallLives
<1>2. CASE PathSatisfied \/ PathLost \/ DebounceFires
  BY <1>2, PathLives
<1>3. ASSUME NEW t \in Threads, EffectStep(t)
      PROVE  LiveInv'
  BY <1>3, SmallEffectLives, SpawnLoopLives, FlushLives, DeliverLives, LostCheckLives, LostHandleLives,
     BeginReconnectLives, NewAdapterLives, SpawnedLives, RefusedLives DEF EffectStep
<1>4. ASSUME NEW e \in 1 .. MaxEpoch, LoopStart(e) \/ LoopTick(e) \/ LoopWake(e)
      PROVE  LiveInv'
  BY <1>4, LoopLives
<1>5. ASSUME NEW g \in Generations, SessionConnected(g) \/ SessionEnds(g) \/ SessionLost(g)
      PROVE  LiveInv'
  BY <1>5, SessionLives
<1>6. CASE UNCHANGED vars
  <2>1. /\ rs' = rs /\ gen' = gen /\ queue' = queue /\ thr' = thr /\ sess' = sess /\ shown' = shown
    BY <1>6 DEF vars
  <2>2. BuildInv' = BuildInv /\ NoneRefused' = NoneRefused
    BY <2>1 DEF BuildInv, NoneRefused
  <2>3. LinkInv' = LinkInv
    BY <2>1 DEF LinkInv, Adapting, Waits, At, Idle
  <2>4. ShowInv' = ShowInv
    BY <2>1 DEF ShowInv, Shows, Agree, At, Idle, Arg
  <2> QED BY <2>2, <2>3, <2>4 DEF LiveInv
<1> QED BY <1>1, <1>2, <1>3, <1>4, <1>5, <1>6 DEF Next

\* When everything has settled, no step but a loop's sleep waits.
LEMMA OnlySleeps ==
  ASSUME ThreadInv, Settled
  PROVE  /\ \A t \in Threads : \A i \in 1 .. Len(thr[t]) : thr[t][i].op = "Sleep"
         /\ \A t \in Threads : \A op : op # "Sleep" => ~At(t, op)
<1>1. ASSUME NEW t \in Threads, NEW i \in 1 .. Len(thr[t])
      PROVE  thr[t][i].op = "Sleep"
  <2>1. thr[t] \in Seq(Items) /\ thr[t] # <<>>
    BY <1>1 DEF ThreadInv
  <2>2. At(t, "Sleep")
    BY <2>1 DEF Settled, Idle
  <2>3. 1 \in 1 .. Len(thr[t]) /\ thr[t][1].op = "Sleep"
    BY <2>1, <2>2 DEF At, Idle
  <2>4. Len(thr[t]) = 1
    BY <2>3 DEF ThreadInv, ShapeInv, LastOps
  <2>5. i = 1
    BY <2>4
  <2> QED BY <2>3, <2>5
<1>2. \A t \in Threads : \A op : op # "Sleep" => ~At(t, op)
  <2> TAKE t \in Threads
  <2> TAKE op
  <2> HAVE op # "Sleep"
  <2> SUFFICES ASSUME At(t, op) PROVE FALSE
    OBVIOUS
  <2>1. At(t, "Sleep")
    BY DEF Settled, At
  <2> QED BY <2>1 DEF At
<1> QED BY <1>1, <1>2

LEMMA NothingWaits ==
  ASSUME ThreadInv, Settled, NEW op, NEW n, op # "Sleep"
  PROVE  ~Waits(Fx(op, n))
<1>1. PICK f : f = Fx(op, n)
  OBVIOUS
<1>2. f.op # "Sleep"
  BY <1>1 DEF Fx
<1>3. \A t \in Threads : \A i \in 1 .. Len(thr[t]) : thr[t][i].op = "Sleep"
  BY OnlySleeps
<1>4. ~Waits(f)
  BY <1>2, <1>3 DEF Waits
<1> QED BY <1>1, <1>4

\* What the invariant says once everything has settled.
LEMMA SettledLinks ==
  ASSUME Inv, LiveInv, Settled, NoneRefused
  PROVE  /\ Agree(shown, rs) /\ rs.phase # "Connecting" /\ ~(rs.active /\ rs.clock = NoClock)
         /\ rs.phase = "Connected" => gen \in Generations /\ sess[gen] = "up"
<1>1. ThreadInv /\ ShowInv /\ LinkInv /\ queue = <<>>
  BY DEF Inv, LiveInv, Settled
<1>2. \A t \in Threads : ~At(t, "Deliver") /\ ~At(t, "LoopStarted")
  BY <1>1, OnlySleeps
<1>3. \A n : ~Waits(Fx("Build", n)) /\ ~Waits(Fx(Spawn, n))
  <2>1. Spawn # "Sleep"
    BY DEF Spawn
  <2> QED BY <1>1, <2>1, NothingWaits
<1>4. ~Adapting
  BY <1>1, OnlySleeps DEF Adapting
<1>5. Agree(shown, rs)
  <2>1. PICK x, y : /\ Shows(queue, x, y) /\ Agree(y, rs)
                    /\ (\A t \in Threads : ~At(t, "Deliver")) => x = shown
    BY <1>1, Zenon DEF ShowInv
  <2>2. x = shown
    BY <1>2, <2>1
  <2>3. y = x
    BY <1>1, <2>1 DEF Shows
  <2> QED BY <2>1, <2>2, <2>3
<1>6. gen \in Generations => sess[gen] # "dialing"
  BY DEF Settled
<1>7. rs.phase # "Connecting"
  BY <1>1, <1>3, <1>4, <1>6 DEF LinkInv
<1>8. rs.phase = "Connected" => gen \in Generations /\ sess[gen] = "up"
  BY <1>1, <1>3, <1>6 DEF LinkInv
<1>9. ~(rs.active /\ rs.clock = NoClock)
  <2> SUFFICES ASSUME rs.active /\ rs.clock = NoClock PROVE FALSE
    OBVIOUS
  <2>1. rs.epoch \in 1 .. MaxEpoch /\ At(Loop(rs.epoch), "LoopStarted")
    BY <1>1, <1>3 DEF LinkInv
  <2>2. Loop(rs.epoch) \in Threads
    BY <2>1, ThreadNames
  <2> QED BY <1>2, <2>1, <2>2
<1> QED BY <1>5, <1>7, <1>8, <1>9

-----------------------------------------------------------------------------
\* What the app was shown last is the reducer's state once every thread, session
\* and publication has come to rest, whichever thread published and delivered it,
\* unless a connect() was refused at once: Connected exactly while connected,
\* Reconnecting exactly while a loop is live.
THEOREM AppShowsTheReducersState == Spec => []ShownStateAgrees
<1>1. Inv /\ LiveInv => ShownStateAgrees
  <2> SUFFICES ASSUME Inv, LiveInv, Settled, NoneRefused
               PROVE  /\ shown = "Connected" <=> rs.phase = "Connected"
                      /\ shown = "Reconnecting" <=> rs.active
    BY DEF ShownStateAgrees
  <2>1. Agree(shown, rs) /\ rs.phase # "Connecting" /\ ~(rs.active /\ rs.clock = NoClock)
    BY SettledLinks
  <2>2. shown = "Connected" <=> rs.phase = "Connected"
    BY <2>1, Zenon DEF Agree
  <2>3. shown = "Reconnecting" <=> rs.active
    <3>1. rs.active \in BOOLEAN
      BY DEF Inv, TypeInv, ReconnectStates
    <3>2. rs.active => shown = "Reconnecting"
      BY <2>1, Zenon DEF Agree
    <3>3. shown = "Reconnecting" => rs.active
      BY <2>1, Zenon DEF Agree
    <3> QED BY <3>1, <3>2, <3>3
  <2> QED BY <2>2, <2>3
<1>2. Init => Inv /\ LiveInv
  BY InitInv, InitLive
<1>3. Inv /\ LiveInv /\ [Next]_vars => (Inv /\ LiveInv)'
  BY NextInv, NextLive
<1> QED BY <1>1, <1>2, <1>3, PTL DEF Spec

\* build_and_store_session and the adapter's generation check: a reducer that is
\* connected when everything has come to rest is connected through the stored
\* session, which is up and whose callbacks are heard, although callbacks of
\* older sessions may arrive and sessions be replaced between any two steps.
THEOREM ConnectedSessionIsLive == Spec => []ConnectedIsLive
<1>1. Inv /\ LiveInv => ConnectedIsLive
  <2> SUFFICES ASSUME Inv, LiveInv, Settled, NoneRefused, rs.phase = "Connected"
               PROVE  slot = gen /\ sess[gen] = "up"
    BY DEF ConnectedIsLive
  <2>1. gen \in Generations /\ sess[gen] = "up"
    BY SettledLinks
  <2>2. gen \notin disc
    BY <2>1 DEF Settled
  <2>3. ThreadInv /\ thr \in [Threads -> Seq(Items)] /\ ReplacedSessionsEnd
    BY DEF Inv, ThreadInv
  <2>4. ~Waits(Fx("Store", gen))
    BY <2>3, NothingWaits
  <2>5. \A t \in Threads : Fx("Store", gen) \notin {thr[t][i] : i \in DOMAIN thr[t]}
    BY <2>3, <2>4, WhereItWaits DEF Waits
  <2> QED BY <2>1, <2>2, <2>3, <2>5 DEF ReplacedSessionsEnd
<1>2. Init => Inv /\ LiveInv
  BY InitInv, InitLive
<1>3. Inv /\ LiveInv /\ [Next]_vars => (Inv /\ LiveInv)'
  BY NextInv, NextLive
<1> QED BY <1>1, <1>2, <1>3, PTL DEF Spec

=============================================================================
