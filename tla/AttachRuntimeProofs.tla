------------------------ MODULE AttachRuntimeProofs ------------------------
(***************************************************************************)
(* Whatever the tasks of the shell interleave, for any number of           *)
(* connections, sessions and leases: the socket map agrees with the index, *)
(* a target has one holder and its holder owns the slot, no slot is        *)
(* orphaned, the shell drives the aggregate only through its events, and a *)
(* superseding attempt gets its lease only once the old one is torn down.  *)
(***************************************************************************)
EXTENDS AttachRuntime, ServeEffectsProofs, SequenceTheorems

(***************************************************************************)
(* What the tasks have to do.                                              *)
(***************************************************************************)
LeaseOps == {"connect", "cancel", "join", "stopped", "arm", "ended", "dial", "store",
             "connected", "failed", "forget", "sleep", "expire"}
KeyOps == {"admit", "await", "activate", "cancelAttach"}
ClaimOps == Holding \cup {"take"}
Items(n) ==
  [op : KeyOps, key : Keys]
  \cup [op : LeaseOps, lease : Minted(n)]
  \cup [op : ClaimOps \cup {"terminated", "notify"}, sid : Sessions, lease : Minted(n)]
  \cup [op : {"resume"}, sid : Sessions, again : BOOLEAN]
  \cup [op : {"ready"}, key : SlotKeys, token : Minted(n)]
  \cup [op : {"reject"}, key : SlotKeys, reason : Reasons]

Elems(q) == {q[i] : i \in DOMAIN q}

\* A connection that owns a target, activates or cancels has nothing else to do;
\* waiting for an outcome and a retry come last; admission comes first.
SoloOps == ClaimOps \cup {"activate", "cancelAttach"}
LastOps == {"await", "resume"}
Orderly(q) ==
  \A i \in DOMAIN q :
    /\ q[i].op \in SoloOps => Len(q) = 1
    /\ q[i].op \in LastOps => i = Len(q)
    /\ q[i].op = "admit" => i = 1

\* Items any task may have to do without owning anything.
Plain(q) == \A x \in Elems(q) : x.op \notin SoloOps \cup LastOps \cup {"admit", "ended", "terminated"}
Harmless(q) == \A x \in Elems(q) : x.op \notin ClaimOps \cup {"ended", "terminated"}
Admits(q) == \E x \in Elems(q) : x.op = "admit"

\* What is said of a lease by an item of the list.
ClaimOf(q) ==
  IF q # <<>> /\ Head(q).op \in ClaimOps THEN {<<Head(q).sid, Head(q).lease>>} ELSE {}
EndsOf(q) == {x.lease : x \in {y \in Elems(q) : y.op = "ended"}}
TermsOf(q) == {<<x.sid, x.lease>> : x \in {y \in Elems(q) : y.op = "terminated"}}

-----------------------------------------------------------------------------
\* The fields an item has.
LEMMA ItemFields ==
  ASSUME NEW n, NEW x \in Items(n)
  PROVE  /\ x.op \in KeyOps => x.key \in Keys
         /\ x.op \in LeaseOps => x.lease \in Minted(n)
         /\ x.op \in ClaimOps \cup {"terminated", "notify"} => x.sid \in Sessions /\ x.lease \in Minted(n)
         /\ x.op = "resume" => x.sid \in Sessions
BY DEF Items, KeyOps, LeaseOps, ClaimOps, Holding

\* The items the runtime makes.
LEMMA ItemsMade ==
  ASSUME NEW n
  PROVE  /\ \A l \in Minted(n), op \in LeaseOps : Do(op, l) \in Items(n) /\ Do(op, l).op = op
                                                  /\ Do(op, l).lease = l
         /\ \A l \in Minted(n), s \in Sessions, op \in ClaimOps \cup {"terminated", "notify"} :
              /\ DoFor(op, s, l) \in Items(n) /\ DoFor(op, s, l).op = op
              /\ DoFor(op, s, l).sid = s /\ DoFor(op, s, l).lease = l
         /\ Effects(n) \subseteq Items(n)
         /\ \A x \in Effects(n) : x.op \in {"connect", "cancel", "arm", "ready", "reject"}
<1>1. \A l \in Minted(n), op \in LeaseOps : Do(op, l) \in Items(n) /\ Do(op, l).op = op
                                            /\ Do(op, l).lease = l
  BY DEF Do, Items
<1>2. \A l \in Minted(n), s \in Sessions, op \in ClaimOps \cup {"terminated", "notify"} :
        /\ DoFor(op, s, l) \in Items(n) /\ DoFor(op, s, l).op = op
        /\ DoFor(op, s, l).sid = s /\ DoFor(op, s, l).lease = l
  BY DEF DoFor, Items
<1>3. Effects(n) \subseteq Items(n)
  BY DEF Effects, Items, LeaseOps
<1>4. \A x \in Effects(n) : x.op \in {"connect", "cancel", "arm", "ready", "reject"}
  BY DEF Effects
<1> QED BY <1>1, <1>2, <1>3, <1>4

\* Lists of items stay lists of items while leases are minted.
LEMMA ItemsGrow ==
  ASSUME NEW m \in Nat, NEW n \in Nat, m <= n
  PROVE  Items(m) \subseteq Items(n) /\ Seq(Items(m)) \subseteq Seq(Items(n))
<1>1. Items(m) \subseteq Items(n)
  BY MintedGrows DEF Items
<1> QED BY <1>1

\* The list of a task that has done its first item.
LEMMA ThenList ==
  ASSUME NEW S, NEW q \in Seq(S), q # <<>>, NEW p \in Seq(S)
  PROVE  /\ p \o Tail(q) \in Seq(S)
         /\ Head(q) \in S /\ Head(q) \in Elems(q)
         /\ Elems(p \o Tail(q)) = Elems(p) \cup Elems(Tail(q))
         /\ Elems(q) = {Head(q)} \cup Elems(Tail(q))
         /\ \A x \in Elems(q) : x \in S
         /\ Len(q) = 1 => p \o Tail(q) = p
         /\ p = <<>> => p \o Tail(q) = Tail(q)
<1> DEFINE r == p \o Tail(q)
<1>1. /\ Tail(q) \in Seq(S) /\ Len(Tail(q)) = Len(q) - 1 /\ r \in Seq(S) /\ Head(q) \in S
      /\ Len(q) \in Nat /\ Len(q) >= 1 /\ Len(p) \in Nat /\ Head(q) = q[1]
      /\ Len(r) = Len(p) + Len(q) - 1
  OBVIOUS
<1>2. /\ \A i \in 1 .. Len(p) : r[i] = p[i]
      /\ \A i \in 1 .. (Len(q) - 1) : Tail(q)[i] = q[i + 1] /\ r[i + Len(p)] = Tail(q)[i]
  BY <1>1
<1>3. /\ DOMAIN q = 1 .. Len(q) /\ DOMAIN p = 1 .. Len(p) /\ DOMAIN r = 1 .. Len(r)
      /\ DOMAIN Tail(q) = 1 .. (Len(q) - 1)
  BY <1>1
<1>4. Elems(r) = Elems(p) \cup Elems(Tail(q))
  <2>1. ASSUME NEW i \in DOMAIN r PROVE r[i] \in Elems(p) \cup Elems(Tail(q))
    <3>1. CASE i <= Len(p)
      BY <1>1, <1>2, <1>3, <3>1 DEF Elems
    <3>2. CASE ~(i <= Len(p))
      <4>1. PICK j \in 1 .. (Len(q) - 1) : i = j + Len(p)
        BY <1>1, <1>3, <3>2
      <4> QED BY <1>2, <1>3, <4>1 DEF Elems
    <3> QED BY <3>1, <3>2
  <2>2. ASSUME NEW i \in DOMAIN p PROVE p[i] \in Elems(r)
    BY <1>1, <1>2, <1>3 DEF Elems
  <2>3. ASSUME NEW i \in DOMAIN Tail(q) PROVE Tail(q)[i] \in Elems(r)
    <3>1. i + Len(p) \in DOMAIN r /\ r[i + Len(p)] = Tail(q)[i]
      BY <1>1, <1>2, <1>3
    <3> QED BY <3>1 DEF Elems
  <2> QED BY <2>1, <2>2, <2>3 DEF Elems
<1>5. Elems(q) = {Head(q)} \cup Elems(Tail(q)) /\ Head(q) \in Elems(q)
  <2>1. ASSUME NEW i \in DOMAIN q PROVE q[i] \in {Head(q)} \cup Elems(Tail(q))
    <3>1. CASE i = 1
      BY <1>1, <3>1
    <3>2. CASE i # 1
      <4>0. i \in 1 .. Len(q)
        BY <1>3
      <4>1. PICK j \in 1 .. (Len(q) - 1) : i = j + 1
        <5>1. i - 1 \in 1 .. (Len(q) - 1) /\ i = (i - 1) + 1
          BY <1>1, <3>2, <4>0
        <5> QED BY <5>1
      <4> QED BY <1>2, <1>3, <4>1 DEF Elems
    <3> QED BY <3>1, <3>2
  <2>2. ASSUME NEW i \in DOMAIN Tail(q) PROVE Tail(q)[i] \in Elems(q)
    <3>1. i + 1 \in DOMAIN q /\ Tail(q)[i] = q[i + 1]
      BY <1>1, <1>2, <1>3
    <3> QED BY <3>1 DEF Elems
  <2>3. Head(q) \in Elems(q)
    BY <1>1, <1>3 DEF Elems
  <2> QED BY <2>1, <2>2, <2>3 DEF Elems
<1>6. \A x \in Elems(q) : x \in S
  BY DEF Elems
<1>7. Len(q) = 1 => r = p
  <2>1. Len(q) = 1 => Tail(q) = <<>>
    BY <1>1
  <2> QED BY <2>1, ConcatEmptySeq
<1>8. p = <<>> => r = Tail(q)
  BY <1>1
<1> QED BY <1>1, <1>4, <1>5, <1>6, <1>7, <1>8

\* Short lists and what is in them.
LEMMA ElemsShort ==
  ASSUME NEW S, NEW x \in S, NEW y \in S
  PROVE  /\ <<>> \in Seq(S) /\ <<x>> \in Seq(S) /\ <<x, y>> \in Seq(S)
         /\ Elems(<<>>) = {} /\ Elems(<<x>>) = {x} /\ Elems(<<x, y>>) = {x, y}
         /\ Len(<<x>>) = 1 /\ Head(<<x>>) = x /\ <<x>> # <<>> /\ <<x, y>> # <<>>
BY DEF Elems

\* A task goes on with plain items: what comes after them stays in order.
LEMMA OrderlyThen ==
  ASSUME NEW S, NEW q \in Seq(S), q # <<>>, NEW p \in Seq(S), Orderly(q),
         \A x \in Elems(p) : x.op \notin SoloOps \cup LastOps \cup {"admit"}
  PROVE  Orderly(p \o Tail(q)) /\ ~Admits(p \o Tail(q)) /\ ClaimOf(p \o Tail(q)) = {}
<1> DEFINE r == p \o Tail(q)
<1>1. /\ Len(q) \in Nat /\ Len(q) >= 1 /\ Len(p) \in Nat /\ r \in Seq(S)
      /\ Len(r) = Len(p) + Len(q) - 1 /\ Tail(q) \in Seq(S) /\ Len(Tail(q)) = Len(q) - 1
      /\ DOMAIN q = 1 .. Len(q) /\ DOMAIN p = 1 .. Len(p) /\ DOMAIN r = 1 .. Len(r)
  OBVIOUS
<1>2. /\ \A i \in 1 .. Len(p) : r[i] = p[i]
      /\ \A i \in 1 .. (Len(q) - 1) : Tail(q)[i] = q[i + 1] /\ r[i + Len(p)] = Tail(q)[i]
  BY <1>1
<1>3. ASSUME NEW i \in DOMAIN r
      PROVE  /\ r[i].op \notin SoloOps /\ r[i].op # "admit"
             /\ r[i].op \in LastOps => i = Len(r)
  <2>0. i \in 1 .. Len(r)
    BY <1>1
  <2>1. CASE i <= Len(p)
    BY <1>1, <1>2, <2>0, <2>1 DEF Elems
  <2>2. CASE ~(i <= Len(p))
    <3>1. PICK j \in 1 .. (Len(q) - 1) : i = j + Len(p)
      <4>1. i - Len(p) \in 1 .. (Len(q) - 1) /\ i = (i - Len(p)) + Len(p)
        BY <1>1, <2>0, <2>2
      <4> QED BY <4>1
    <3>2. r[i] = q[j + 1] /\ j + 1 \in DOMAIN q /\ j + 1 # 1 /\ Len(q) # 1
      BY <1>1, <1>2, <3>1
    <3>3. q[j + 1].op \in LastOps => j + 1 = Len(q)
      BY <3>2 DEF Orderly
    <3>4. j + 1 = Len(q) => i = Len(r)
      BY <1>1, <3>1
    <3> QED BY <3>2, <3>3, <3>4 DEF Orderly
  <2> QED BY <2>1, <2>2
<1>4. Orderly(r) /\ ~Admits(r)
  BY <1>3 DEF Orderly, Admits, Elems
<1>5. r # <<>> => Head(r) = r[1] /\ 1 \in DOMAIN r
  BY <1>1
<1>6. ClaimOf(r) = {}
  BY <1>3, <1>5 DEF ClaimOf, SoloOps
<1> QED BY <1>4, <1>6

\* An item that has nothing after it.
LEMMA OrderlyLast ==
  ASSUME NEW S, NEW q \in Seq(S), q # <<>>, Orderly(q), Head(q).op \in SoloOps \cup LastOps
  PROVE  Len(q) = 1 /\ Elems(q) = {Head(q)}
<1>1. 1 \in DOMAIN q /\ Head(q) = q[1] /\ Len(q) \in Nat /\ DOMAIN q = 1 .. Len(q)
  OBVIOUS
<1>2. Len(q) = 1
  BY <1>1 DEF Orderly
<1> QED BY <1>1, <1>2 DEF Elems

\* A single item, and none.
LEMMA OrderlyOne ==
  ASSUME NEW x
  PROVE  Orderly(<<x>>) /\ Orderly(<<>>)
BY DEF Orderly

-----------------------------------------------------------------------------
(***************************************************************************)
(* The inductive invariant.                                                *)
(***************************************************************************)
IoSlots == [present : BOOLEAN, lease : Nat, socket : BOOLEAN]
LeaseStates == {"none", "connecting", "target", "timed"}
Aborts == {Connect(l) : l \in LeaseIds} \cup {Timer(l) : l \in LeaseIds}

\* What the shell's variables hold; only a lease that was minted has tasks.
TypeInv ==
  /\ io \in [Sessions -> IoSlots]
  /\ leases \in [LeaseIds -> LeaseStates]
  /\ todo \in [Tasks -> Seq(Items(agg.nextLease))]
  /\ aborted \subseteq Aborts
  /\ now \in Nat
  /\ \A l \in LeaseIds :
       todo[Connect(l)] # <<>> \/ todo[Timer(l)] # <<>> => l \in Minted(agg.nextLease)

\* Which task may have what to do: a connection does things in order, a task that
\* can be aborted owns nothing, and the Drop fallbacks of a connection run only
\* once it is over.
Asked(c) == \E f \in fresh : f[1] = c
TaskInv ==
  /\ \A c \in Conns : Orderly(todo[c]) /\ (Admits(todo[c]) => c \in Attachers)
  /\ \A t \in Aborts : Harmless(todo[t])
  /\ \A c \in Conns :
       /\ Asked(c) => todo[c] = <<>>
       /\ Asked(c) \/ todo[c] # <<>> => todo[LeaseDrop(c)] = <<>> /\ todo[EntryDrop(c)] = <<>>

\* Each attacher that has not asked for admission yet may cause one lease more.
Unadmitted == {c \in Attachers : Asked(c) \/ Admits(todo[c])}
CountInv == Owes(agg) + Cardinality(Unadmitted) <= MaxLeases

\* Who holds which incarnation (C), and which ones are about to be released, by
\* lease (E) and by session and lease (T).
Due(C, E, T, l) ==
  l \in E \/ (\E x \in T : x[2] = l) \/ (\E c \in Conns : \E x \in C[c] : x[2] = l)
Released(a, C, l) ==
  /\ l < a.nextLease
  /\ \A c \in Conns : \A x \in C[c] : x[2] # l
  /\ \A s \in Sessions : a.index[s].parked => a.index[s].lease # l
  /\ \A s \in Sessions : a.slots[s].st # "absent" /\ a.slots[s].lease = l
                           => a.slots[s].st = "established"
HoldAgg(a, C, E, T) ==
  /\ \A c \in Conns : \A x \in C[c] : Holds(a.index[x[1]], x[2]) /\ ~a.index[x[1]].parked
  /\ \A c, d \in Conns : \A x \in C[c], y \in C[d] : x[1] = y[1] => c = d
  /\ \A l \in E : Released(a, C, l)
  /\ \A x \in T : /\ Released(a, C, x[2])
                  /\ \A s \in Sessions : a.slots[s].st # "absent" /\ a.slots[s].lease = x[2]
                                           => s = x[1]
  /\ \A s \in Sessions : a.slots[s].st = "established" =>
       a.index[s].parked \/ Due(C, E, T, a.slots[s].lease)

Claims(td) == [c \in Conns |-> ClaimOf(td[c])]
Ended(td) == UNION {EndsOf(td[t]) : t \in Tasks}
Terminated(td) == UNION {TermsOf(td[t]) : t \in Tasks}
HoldInv == HoldAgg(agg, Claims(todo), Ended(todo), Terminated(todo))

IInv == AggInv(agg) /\ TypeInv /\ TaskInv /\ CountInv /\ SocketMapMatchesIndex /\ HoldInv

-----------------------------------------------------------------------------
\* What becomes of the entry of a session in the socket map.
LEMMA InterpretedFollows ==
  ASSUME NEW slot \in IoSlots, NEW e \in Entries, NEW f \in Entries, NEW fx, Tells(e, f, fx),
         slot.present <=> e.present, slot.present => slot.lease = e.lease,
         slot.socket <=> e.parked, e.parked => e.present
  PROVE  LET new == Interpreted(slot, fx) IN
         /\ new \in IoSlots
         /\ new.present <=> f.present
         /\ new.present => new.lease = f.lease
         /\ new.socket <=> f.parked
<1> DEFINE new == Interpreted(slot, fx)
<1>0. /\ slot.present \in BOOLEAN /\ slot.socket \in BOOLEAN /\ slot.lease \in Nat
      /\ e.present \in BOOLEAN /\ e.parked \in BOOLEAN /\ e.lease \in Nat
      /\ f.present \in BOOLEAN /\ f.parked \in BOOLEAN /\ f.lease \in Nat
  BY DEF IoSlots, Entries
<1>1. CASE fx.op = "register" /\ Holds(f, fx.lease) /\ ~f.parked
  <2>1. new = [present |-> TRUE, lease |-> fx.lease, socket |-> FALSE]
    BY <1>1 DEF Interpreted
  <2> QED BY <1>0, <1>1, <2>1 DEF Holds, IoSlots
<1>2. CASE fx.op = "discard" /\ Holds(e, fx.lease) /\ ~f.present /\ ~f.parked
  <2>1. new = NoIo
    BY <1>2 DEF Interpreted, Mine, Holds
  <2> QED BY <1>0, <1>2, <2>1 DEF NoIo, IoSlots
<1>3. CASE fx.op = "store" /\ Holds(e, fx.lease) /\ Holds(f, fx.lease) /\ f.parked
  <2>1. new = [slot EXCEPT !.socket = TRUE]
    BY <1>3 DEF Interpreted, Mine, Holds
  <2>2. new \in IoSlots /\ new.present = slot.present /\ new.lease = slot.lease /\ new.socket = TRUE
    BY <2>1 DEF IoSlots
  <2> QED BY <1>0, <1>3, <2>2 DEF Holds
<1>4. CASE fx.op = "granted" /\ Holds(e, fx.lease) /\ Holds(f, fx.lease) /\ ~f.parked
  <2>1. new = [slot EXCEPT !.socket = FALSE]
    BY <1>4 DEF Interpreted, Mine, Holds
  <2>2. new \in IoSlots /\ new.present = slot.present /\ new.lease = slot.lease /\ new.socket = FALSE
    BY <2>1 DEF IoSlots
  <2> QED BY <1>0, <1>4, <2>2 DEF Holds
<1>5. CASE fx.op \in {"preempt", "rejected"} /\ SameEntry(e, f)
  <2>1. new = slot
    BY <1>5 DEF Interpreted
  <2> QED BY <1>0, <1>5, <2>1 DEF SameEntry
<1> QED BY <1>1, <1>2, <1>3, <1>4, <1>5 DEF Tells

\* apply_with keeps the socket map in step with the index.
LEMMA ApplyFollows ==
  ASSUME AggInv(agg), io \in [Sessions -> IoSlots], SocketMapMatchesIndex,
         NEW r, AggInv(r.agg), Follows(agg, r), ApplyWith(r)
  PROVE  AggInv(agg') /\ io' \in [Sessions -> IoSlots] /\ SocketMapMatchesIndex'
<1>1. agg' = r.agg
  BY DEF ApplyWith
<1>2. ASSUME NEW s \in Sessions
      PROVE  /\ io'[s] \in IoSlots
             /\ io'[s].present <=> r.agg.index[s].present
             /\ io'[s].present => io'[s].lease = r.agg.index[s].lease
             /\ io'[s].socket <=> r.agg.index[s].parked
  <2> DEFINE e == agg.index[s]
             f == r.agg.index[s]
  <2>1. /\ e \in Entries /\ f \in Entries /\ io[s] \in IoSlots
        /\ e.parked => e.present
        /\ io[s].present <=> e.present
        /\ io[s].present => io[s].lease = e.lease
        /\ io[s].socket <=> e.parked
    BY Fields DEF SocketMapMatchesIndex, AggInv, HolesNotParked
  <2>2. CASE (\A fx \in r.io : fx.sid # s) /\ SameEntry(e, f)
    <3>1. io'[s] = io[s]
      BY <2>2 DEF ApplyWith
    <3> QED BY <2>1, <2>2, <3>1 DEF SameEntry
  <2>3. CASE \E fx \in r.io : (\A fy \in r.io : fy.sid = s <=> fy = fx) /\ Tells(e, f, fx)
    <3>1. PICK fx \in r.io : (\A fy \in r.io : fy.sid = s <=> fy = fx) /\ Tells(e, f, fx)
      BY <2>3
    <3>2. (CHOOSE fy \in r.io : fy.sid = s) = fx
      BY <3>1
    <3>3. io'[s] = Interpreted(io[s], fx)
      BY <3>1, <3>2 DEF ApplyWith
    <3> QED BY <2>1, <3>1, <3>3, InterpretedFollows
  <2> QED BY <2>2, <2>3 DEF Follows
<1>3. io' \in [Sessions -> IoSlots]
  <2>1. io' = [s \in Sessions |-> io'[s]]
    BY DEF ApplyWith
  <2> QED BY <1>2, <2>1
<1> QED BY <1>1, <1>2, <1>3 DEF SocketMapMatchesIndex

-----------------------------------------------------------------------------
(***************************************************************************)
(* How holds come and go.                                                  *)
(***************************************************************************)
HoldSets(C, E, T) ==
  /\ C \in [Conns -> SUBSET (Sessions \X Nat)]
  /\ E \subseteq Nat /\ T \subseteq Sessions \X Nat

\* A claim is of a session and a lease that is minted.
LEMMA ClaimFacts ==
  ASSUME NEW a, AggInv(a), NEW C, NEW E, NEW T, HoldSets(C, E, T), HoldAgg(a, C, E, T),
         NEW c \in Conns, NEW x \in C[c]
  PROVE  /\ x[1] \in Sessions /\ x[2] \in Nat /\ x = <<x[1], x[2]>>
         /\ a.index[x[1]].present /\ a.index[x[1]].lease = x[2] /\ ~a.index[x[1]].parked
         /\ a.slots[x[1]].st = "established" /\ a.slots[x[1]].lease = x[2]
         /\ x[2] < a.nextLease
<1>1. x \in Sessions \X Nat
  BY DEF HoldSets
<1>2. x[1] \in Sessions /\ x[2] \in Nat /\ x = <<x[1], x[2]>>
  BY <1>1
<1>3. a.index[x[1]].present /\ a.index[x[1]].lease = x[2] /\ ~a.index[x[1]].parked
  BY DEF HoldAgg, Holds
<1>4. a.slots[x[1]].st = "established" /\ a.slots[x[1]].lease = x[2]
  BY <1>2, <1>3, Fields
<1>5. x[2] < a.nextLease
  BY <1>2, <1>4 DEF AggInv, LeasesDistinct, Occupied
<1> QED BY <1>2, <1>3, <1>4, <1>5

\* A quiet event leaves all holds alone.
LEMMA HoldQuiet ==
  ASSUME NEW a, AggInv(a), NEW b, AggInv(b), Quiet(a, b),
         NEW C, NEW E, NEW T, HoldSets(C, E, T), HoldAgg(a, C, E, T)
  PROVE  HoldAgg(b, C, E, T)
<1>0. a.nextLease \in Nat /\ b.nextLease \in Nat /\ a.nextLease <= b.nextLease
  BY Fields DEF Quiet
<1>1. ASSUME NEW c \in Conns, NEW x \in C[c]
      PROVE  Holds(b.index[x[1]], x[2]) /\ ~b.index[x[1]].parked
  <2>1. x[1] \in Sessions /\ Holds(a.index[x[1]], x[2]) /\ ~a.index[x[1]].parked
    BY ClaimFacts DEF Holds
  <2>2. QuietAt(a, b, x[1])
    BY <2>1 DEF Quiet
  <2>3. /\ a.index[x[1]].parked \in BOOLEAN /\ b.index[x[1]].parked \in BOOLEAN
        /\ b.index[x[1]].present \in BOOLEAN /\ a.index[x[1]].present \in BOOLEAN
    BY <2>1, Fields
  <2> QED BY <2>1, <2>2, <2>3 DEF QuietAt, SameEntry, Holds
<1>2. ASSUME NEW l \in Nat, Released(a, C, l) PROVE Released(b, C, l)
  <2>1. l < b.nextLease /\ l < a.nextLease
    BY <1>0, <1>2 DEF Released
  <2>2. ASSUME NEW s \in Sessions, b.index[s].parked PROVE b.index[s].lease # l
    BY <1>2, <2>2 DEF Released, Quiet, QuietAt
  <2>3. ASSUME NEW s \in Sessions, b.slots[s].st # "absent", b.slots[s].lease = l
        PROVE  b.slots[s].st = "established"
    <3>1. ~(b.slots[s].lease >= a.nextLease)
      BY <1>0, <2>1, <2>3
    <3> QED BY <1>2, <2>3, <3>1 DEF Released, Quiet, QuietAt
  <2> QED BY <1>2, <2>1, <2>2, <2>3 DEF Released
<1>3. ASSUME NEW l \in Nat, Released(a, C, l), NEW s \in Sessions, b.slots[s].st # "absent",
             b.slots[s].lease = l
      PROVE  a.slots[s].st # "absent" /\ a.slots[s].lease = l
  <2>1. ~(b.slots[s].lease >= a.nextLease)
    BY <1>0, <1>3 DEF Released
  <2> QED BY <1>3, <2>1 DEF Quiet, QuietAt
<1>4. \A l \in E : Released(b, C, l)
  BY <1>2 DEF HoldAgg, HoldSets
<1>5. ASSUME NEW x \in T
      PROVE  /\ Released(b, C, x[2])
             /\ \A s \in Sessions : b.slots[s].st # "absent" /\ b.slots[s].lease = x[2] => s = x[1]
  <2>1. x[2] \in Nat /\ Released(a, C, x[2])
    <3>1. x \in Sessions \X Nat
      BY DEF HoldSets
    <3> QED BY <3>1 DEF HoldAgg
  <2> QED BY <1>2, <1>3, <2>1 DEF HoldAgg
<1>6. ASSUME NEW s \in Sessions, b.slots[s].st = "established"
      PROVE  b.index[s].parked \/ Due(C, E, T, b.slots[s].lease)
  BY <1>6 DEF HoldAgg, Quiet, QuietAt
<1>7. \A c, d \in Conns : \A x \in C[c], y \in C[d] : x[1] = y[1] => c = d
  BY DEF HoldAgg
<1> QED BY <1>1, <1>4, <1>5, <1>6, <1>7 DEF HoldAgg

\* A connection gets hold of an incarnation: parked before, or not established yet.
LEMMA HoldGranted ==
  ASSUME NEW a, AggInv(a), NEW b, AggInv(b), NEW s \in Sessions, NEW l \in Nat,
         Elsewhere(a, b, s), Holds(b.index[s], l), ~b.index[s].parked,
         \/ Holds(a.index[s], l) /\ a.index[s].parked
         \/ a.slots[s].st = "pending" /\ a.slots[s].lease = l,
         NEW C, NEW E, NEW T, HoldSets(C, E, T), HoldAgg(a, C, E, T),
         NEW c \in Conns, C[c] = {}
  PROVE  HoldAgg(b, [C EXCEPT ![c] = {<<s, l>>}], E, T)
<1> DEFINE D == [C EXCEPT ![c] = {<<s, l>>}]
<1>0. /\ b.nextLease = a.nextLease
      /\ \A t \in Sessions \ {s} : b.index[t] = a.index[t] /\ b.slots[t] = a.slots[t]
      /\ b.slots[s].st = "established" /\ b.slots[s].lease = l
      /\ a.slots[s].st # "absent" /\ a.slots[s].lease = l
  BY Fields DEF Elsewhere, Holds
<1>1. D[c] = {<<s, l>>} /\ \A d \in Conns \ {c} : D[d] = C[d]
  BY DEF HoldSets
<1>2. \A d \in Conns : \A x \in C[d] : x[1] # s
  <2> SUFFICES ASSUME NEW d \in Conns, NEW x \in C[d], x[1] = s PROVE FALSE
    OBVIOUS
  <2>1. a.index[s].present /\ ~a.index[s].parked /\ a.slots[s].st = "established"
    BY ClaimFacts
  <2> QED BY <2>1
<1>3. \A d \in Conns : \A x \in C[d] : x[1] \in Sessions
  BY ClaimFacts
<1>4. \A d \in Conns : \A x \in D[d] : Holds(b.index[x[1]], x[2]) /\ ~b.index[x[1]].parked
  <2> SUFFICES ASSUME NEW d \in Conns, NEW x \in D[d]
               PROVE  Holds(b.index[x[1]], x[2]) /\ ~b.index[x[1]].parked
    OBVIOUS
  <2>1. CASE d = c
    <3>1. x = <<s, l>>
      BY <1>1, <2>1
    <3> QED BY <3>1
  <2>2. CASE d # c
    <3>1. x \in C[d] /\ x[1] \in Sessions \ {s}
      BY <1>1, <1>2, <1>3, <2>2
    <3> QED BY <1>0, <3>1 DEF HoldAgg
  <2> QED BY <2>1, <2>2
<1>5. \A d, e \in Conns : \A x \in D[d], y \in D[e] : x[1] = y[1] => d = e
  <2> SUFFICES ASSUME NEW d \in Conns, NEW e \in Conns, NEW x \in D[d], NEW y \in D[e],
                      x[1] = y[1], d # e
               PROVE  FALSE
    OBVIOUS
  <2>1. d = c => x[1] = s /\ y \in C[e]
    BY <1>1
  <2>2. e = c => y[1] = s /\ x \in C[d]
    BY <1>1
  <2>3. d # c /\ e # c => x \in C[d] /\ y \in C[e]
    BY <1>1
  <2> QED BY <1>2, <2>1, <2>2, <2>3 DEF HoldAgg
<1>6. \A k \in Nat : Released(a, C, k) => k # l
  BY <1>0 DEF Released, Holds
<1>7. ASSUME NEW k \in Nat, Released(a, C, k) PROVE Released(b, D, k)
  <2>1. k # l /\ k < b.nextLease
    BY <1>0, <1>6, <1>7 DEF Released
  <2>2. \A d \in Conns : \A x \in D[d] : x[2] # k
    <3> SUFFICES ASSUME NEW d \in Conns, NEW x \in D[d] PROVE x[2] # k
      OBVIOUS
    <3>1. CASE d = c
      <4>1. x = <<s, l>>
        BY <1>1, <3>1
      <4> QED BY <2>1, <4>1
    <3>2. CASE d # c
      BY <1>1, <1>7, <3>2 DEF Released
    <3> QED BY <3>1, <3>2
  <2>3. \A t \in Sessions : b.index[t].parked => b.index[t].lease # k
    BY <1>0, <1>7 DEF Released
  <2>4. \A t \in Sessions : b.slots[t].st # "absent" /\ b.slots[t].lease = k
                              => b.slots[t].st = "established"
    BY <1>0, <1>7 DEF Released
  <2> QED BY <2>1, <2>2, <2>3, <2>4 DEF Released
<1>8. \A k \in E : Released(b, D, k)
  BY <1>7 DEF HoldAgg, HoldSets
<1>9. ASSUME NEW x \in T
      PROVE  /\ Released(b, D, x[2])
             /\ \A t \in Sessions : b.slots[t].st # "absent" /\ b.slots[t].lease = x[2] => t = x[1]
  <2>1. x[2] \in Nat /\ Released(a, C, x[2])
    <3>1. x \in Sessions \X Nat
      BY DEF HoldSets
    <3> QED BY <3>1 DEF HoldAgg
  <2>2. x[2] # l
    BY <1>6, <2>1
  <2>3. ASSUME NEW t \in Sessions, b.slots[t].st # "absent", b.slots[t].lease = x[2]
        PROVE  t = x[1]
    <3>1. t # s
      BY <1>0, <2>2, <2>3
    <3>2. a.slots[t] = b.slots[t]
      BY <1>0, <3>1
    <3> QED BY <2>3, <3>2 DEF HoldAgg
  <2> QED BY <1>7, <2>1, <2>3
<1>10. ASSUME NEW t \in Sessions, b.slots[t].st = "established"
       PROVE  b.index[t].parked \/ Due(D, E, T, b.slots[t].lease)
  <2>1. CASE t = s
    <3>1. <<s, l>> \in D[c] /\ <<s, l>>[2] = l
      BY <1>1
    <3> QED BY <1>0, <2>1, <3>1 DEF Due
  <2>2. CASE t # s
    <3>1. a.slots[t] = b.slots[t] /\ a.index[t] = b.index[t]
      BY <1>0, <2>2
    <3>2. a.index[t].parked \/ Due(C, E, T, a.slots[t].lease)
      BY <1>10, <3>1 DEF HoldAgg
    <3>3. \A d \in Conns : \A x \in C[d] : x \in D[d]
      BY <1>1
    <3> QED BY <3>1, <3>2, <3>3 DEF Due
  <2> QED BY <2>1, <2>2
<1> QED BY <1>4, <1>5, <1>8, <1>9, <1>10 DEF HoldAgg

\* Without the claim of one connection, what is released stays released.
LEMMA FewerClaims ==
  ASSUME NEW a, NEW C, NEW D, NEW l, \A d \in Conns : D[d] \subseteq C[d], Released(a, C, l)
  PROVE  Released(a, D, l)
BY DEF Released

\* A connection exchanges its hold for the duty to report the end of it.
LEMMA HoldYielded ==
  ASSUME NEW a, AggInv(a), NEW C, NEW E, NEW T, HoldSets(C, E, T), HoldAgg(a, C, E, T),
         NEW c \in Conns, NEW s, NEW l, C[c] = {<<s, l>>},
         NEW F, E \subseteq F, F \subseteq E \cup {l},
         NEW U, T \subseteq U, U \subseteq T \cup {<<s, l>>},
         l \in F \/ <<s, l>> \in U
  PROVE  HoldAgg(a, [C EXCEPT ![c] = {}], F, U)
<1> DEFINE D == [C EXCEPT ![c] = {}]
           x0 == <<s, l>>
<1>1. D[c] = {} /\ \A d \in Conns \ {c} : D[d] = C[d]
  BY DEF HoldSets
<1>2. \A d \in Conns : D[d] \subseteq C[d]
  BY <1>1
<1>3. /\ s \in Sessions /\ l \in Nat
      /\ a.index[s].present /\ a.index[s].lease = l /\ ~a.index[s].parked
      /\ a.slots[s].st = "established" /\ a.slots[s].lease = l /\ l < a.nextLease
  <2>1. x0 \in C[c] /\ x0[1] = s /\ x0[2] = l
    OBVIOUS
  <2> QED BY <2>1, ClaimFacts
<1>4. \A t \in Sessions : a.slots[t].st # "absent" /\ a.slots[t].lease = l => t = s
  BY <1>3 DEF AggInv, LeasesDistinct, Occupied
<1>5. \A d \in Conns : \A x \in D[d] : x[2] # l
  <2> SUFFICES ASSUME NEW d \in Conns, NEW x \in D[d], x[2] = l PROVE FALSE
    OBVIOUS
  <2>1. d # c /\ x \in C[d]
    BY <1>1
  <2>2. x[1] \in Sessions /\ a.slots[x[1]].st = "established" /\ a.slots[x[1]].lease = l
    BY <2>1, ClaimFacts
  <2>3. x[1] = s
    BY <1>4, <2>2
  <2>4. x0 \in C[c] /\ x0[1] = s
    OBVIOUS
  <2> QED BY <2>1, <2>3, <2>4 DEF HoldAgg
<1>6. Released(a, D, l)
  <2>1. \A t \in Sessions : a.index[t].parked => a.index[t].lease # l
    <3> SUFFICES ASSUME NEW t \in Sessions, a.index[t].parked, a.index[t].lease = l PROVE FALSE
      OBVIOUS
    <3>1. a.index[t].present
      BY DEF AggInv, HolesNotParked
    <3>2. a.slots[t].st = "established" /\ a.slots[t].lease = l
      BY <3>1, Fields
    <3>3. t = s
      BY <1>4, <3>2
    <3> QED BY <1>3, <3>3
  <2>2. \A t \in Sessions : a.slots[t].st # "absent" /\ a.slots[t].lease = l
                              => a.slots[t].st = "established"
    BY <1>3, <1>4
  <2> QED BY <1>3, <1>5, <2>1, <2>2 DEF Released
<1>7. \A d \in Conns : \A x \in D[d] : Holds(a.index[x[1]], x[2]) /\ ~a.index[x[1]].parked
  BY <1>2 DEF HoldAgg
<1>8. \A d, e \in Conns : \A x \in D[d], y \in D[e] : x[1] = y[1] => d = e
  BY <1>2 DEF HoldAgg
<1>9. \A k \in F : Released(a, D, k)
  <2> SUFFICES ASSUME NEW k \in F PROVE Released(a, D, k)
    OBVIOUS
  <2>1. CASE k = l
    BY <1>6, <2>1
  <2>2. CASE k # l
    <3>1. Released(a, C, k)
      BY <2>2 DEF HoldAgg
    <3> QED BY <1>2, <3>1, FewerClaims
  <2> QED BY <2>1, <2>2
<1>10. \A x \in U : /\ Released(a, D, x[2])
                    /\ \A t \in Sessions : a.slots[t].st # "absent" /\ a.slots[t].lease = x[2]
                                             => t = x[1]
  <2> SUFFICES ASSUME NEW x \in U
               PROVE  /\ Released(a, D, x[2])
                      /\ \A t \in Sessions : a.slots[t].st # "absent" /\ a.slots[t].lease = x[2]
                                               => t = x[1]
    OBVIOUS
  <2>1. CASE x = x0
    BY <1>4, <1>6, <2>1
  <2>2. CASE x # x0
    <3>1. x \in T
      BY <2>2
    <3>2. Released(a, C, x[2])
      BY <3>1 DEF HoldAgg
    <3>3. Released(a, D, x[2])
      BY <1>2, <3>2, FewerClaims
    <3> QED BY <3>1, <3>3 DEF HoldAgg
  <2> QED BY <2>1, <2>2
<1>11. ASSUME NEW t \in Sessions, a.slots[t].st = "established"
       PROVE  a.index[t].parked \/ Due(D, F, U, a.slots[t].lease)
  <2>1. CASE a.slots[t].lease = l
    <3>1. <<s, l>>[2] = l
      OBVIOUS
    <3> QED BY <2>1, <3>1 DEF Due
  <2>2. CASE a.slots[t].lease # l
    <3>1. a.index[t].parked \/ Due(C, E, T, a.slots[t].lease)
      BY <1>11 DEF HoldAgg
    <3>2. ASSUME NEW d \in Conns, NEW x \in C[d], x[2] = a.slots[t].lease
          PROVE  Due(D, F, U, a.slots[t].lease)
      <4>1. d # c
        BY <2>2, <3>2
      <4>2. x \in D[d]
        BY <1>1, <4>1
      <4> QED BY <3>2, <4>2 DEF Due
    <3> QED BY <3>1, <3>2 DEF Due
  <2> QED BY <2>1, <2>2
<1> QED BY <1>7, <1>8, <1>9, <1>10, <1>11 DEF HoldAgg

\* A session leaves the aggregate: by the report of its lease, whose duty is done,
\* or because the connection that held it gives it up.
LEMMA HoldDropped ==
  ASSUME NEW a, AggInv(a), NEW b, AggInv(b), NEW s \in Sessions, NEW l, Drops(a, b, s),
         a.index[s].lease = l,
         NEW C, NEW E, NEW T, HoldSets(C, E, T), HoldAgg(a, C, E, T),
         NEW D, \A d \in Conns : D[d] = {x \in C[d] : x[2] # l},
         NEW F, F \subseteq E, E \subseteq F \cup {l},
         NEW U, U \subseteq T, T \subseteq U \cup {<<s, l>>}
  PROVE  HoldAgg(b, D, F, U)
<1>0. /\ b.nextLease = a.nextLease
      /\ \A t \in Sessions \ {s} : b.index[t] = a.index[t] /\ b.slots[t] = a.slots[t]
      /\ ~b.index[s].present /\ ~b.index[s].parked /\ b.slots[s].st = "absent"
      /\ a.slots[s].st = "established" /\ a.slots[s].lease = l
  BY Fields DEF Drops, Elsewhere
<1>1. \A t \in Sessions : a.slots[t].st # "absent" /\ a.slots[t].lease = l => t = s
  BY <1>0 DEF AggInv, LeasesDistinct, Occupied
<1>2. \A d \in Conns : D[d] \subseteq C[d]
  OBVIOUS
<1>3. ASSUME NEW d \in Conns, NEW x \in D[d]
      PROVE  Holds(b.index[x[1]], x[2]) /\ ~b.index[x[1]].parked
  <2>1. x \in C[d] /\ x[2] # l
    OBVIOUS
  <2>2. x[1] \in Sessions /\ a.slots[x[1]].lease = x[2]
    BY <2>1, ClaimFacts
  <2>3. x[1] # s
    BY <1>0, <2>1, <2>2
  <2> QED BY <1>0, <2>1, <2>2, <2>3 DEF HoldAgg
<1>4. ASSUME NEW k, Released(a, C, k) PROVE Released(b, D, k)
  <2>1. Released(a, D, k)
    BY <1>2, <1>4, FewerClaims
  <2> QED BY <1>0, <2>1 DEF Released
<1>5. \A d, e \in Conns : \A x \in D[d], y \in D[e] : x[1] = y[1] => d = e
  BY <1>2 DEF HoldAgg
<1>6. \A k \in F : Released(b, D, k)
  BY <1>4 DEF HoldAgg
<1>7. ASSUME NEW x \in U
      PROVE  /\ Released(b, D, x[2])
             /\ \A t \in Sessions : b.slots[t].st # "absent" /\ b.slots[t].lease = x[2] => t = x[1]
  <2>1. x \in T
    OBVIOUS
  <2>2. \A t \in Sessions : b.slots[t].st # "absent" => a.slots[t] = b.slots[t]
    BY <1>0
  <2> QED BY <1>4, <2>1, <2>2 DEF HoldAgg
<1>8. ASSUME NEW t \in Sessions, b.slots[t].st = "established"
      PROVE  b.index[t].parked \/ Due(D, F, U, b.slots[t].lease)
  <2>1. t # s /\ a.slots[t] = b.slots[t] /\ a.index[t] = b.index[t]
    BY <1>0, <1>8
  <2>2. a.slots[t].lease # l
    BY <1>1, <1>8, <2>1
  <2>3. a.index[t].parked \/ Due(C, E, T, a.slots[t].lease)
    BY <1>8, <2>1 DEF HoldAgg
  <2>4. a.slots[t].lease \in E => a.slots[t].lease \in F
    BY <2>2
  <2>5. ASSUME NEW x \in T, x[2] = a.slots[t].lease PROVE x \in U
    <3>1. <<s, l>>[2] = l
      OBVIOUS
    <3>2. x # <<s, l>>
      BY <2>2, <2>5, <3>1
    <3> QED BY <3>2
  <2>6. \A d \in Conns : \A x \in C[d] : x[2] = a.slots[t].lease => x \in D[d]
    BY <2>2
  <2> QED BY <2>1, <2>3, <2>4, <2>5, <2>6 DEF Due
<1> QED BY <1>3, <1>5, <1>6, <1>7, <1>8 DEF HoldAgg

\* A report that comes after the incarnation is gone.
LEMMA HoldGone ==
  ASSUME NEW a, AggInv(a), NEW l,
         \A t \in Sessions : a.slots[t].st = "established" => a.slots[t].lease # l,
         NEW C, NEW E, NEW T, HoldAgg(a, C, E, T),
         NEW F, F \subseteq E, E \subseteq F \cup {l},
         NEW U, U \subseteq T, \A x \in T \ U : x[2] = l
  PROVE  HoldAgg(a, C, F, U)
<1>1. ASSUME NEW t \in Sessions, a.slots[t].st = "established"
      PROVE  a.index[t].parked \/ Due(C, F, U, a.slots[t].lease)
  <2>1. a.slots[t].lease # l
    BY <1>1
  <2>2. a.index[t].parked \/ Due(C, E, T, a.slots[t].lease)
    BY <1>1 DEF HoldAgg
  <2>3. a.slots[t].lease \in E => a.slots[t].lease \in F
    BY <2>1
  <2>4. \A x \in T : x[2] = a.slots[t].lease => x \in U
    BY <2>1
  <2> QED BY <2>2, <2>3, <2>4 DEF Due
<1> QED BY <1>1 DEF HoldAgg

\* A connection parks the incarnation it holds.
LEMMA HoldParked ==
  ASSUME NEW a, AggInv(a), NEW b, AggInv(b), NEW s, NEW l,
         Elsewhere(a, b, s), b.slots[s] = a.slots[s], Holds(b.index[s], l), b.index[s].parked,
         NEW C, NEW E, NEW T, HoldSets(C, E, T), HoldAgg(a, C, E, T),
         NEW c \in Conns, C[c] = {<<s, l>>}
  PROVE  HoldAgg(b, [C EXCEPT ![c] = {}], E, T)
<1> DEFINE D == [C EXCEPT ![c] = {}]
           x0 == <<s, l>>
<1>1. D[c] = {} /\ \A d \in Conns \ {c} : D[d] = C[d]
  BY DEF HoldSets
<1>2. \A d \in Conns : D[d] \subseteq C[d]
  BY <1>1
<1>3. x0 \in C[c] /\ x0[1] = s /\ x0[2] = l
  OBVIOUS
<1>4. /\ s \in Sessions /\ l \in Nat /\ Holds(a.index[s], l)
      /\ a.slots[s].st = "established" /\ a.slots[s].lease = l
  <2>1. \A x \in C[c] : /\ x[1] \in Sessions /\ x[2] \in Nat
                        /\ a.index[x[1]].present /\ a.index[x[1]].lease = x[2]
                        /\ a.slots[x[1]].st = "established" /\ a.slots[x[1]].lease = x[2]
    BY ClaimFacts
  <2> QED BY <1>3, <2>1 DEF Holds
<1>5. /\ b.nextLease = a.nextLease
      /\ \A t \in Sessions : b.slots[t] = a.slots[t]
      /\ \A t \in Sessions \ {s} : b.index[t] = a.index[t]
  BY DEF Elsewhere
<1>6. ASSUME NEW d \in Conns, NEW x \in D[d]
      PROVE  Holds(b.index[x[1]], x[2]) /\ ~b.index[x[1]].parked
  <2>1. x \in C[d] /\ d # c
    BY <1>1
  <2>2. x[1] \in Sessions
    BY <2>1, ClaimFacts
  <2>3. x[1] # s
    BY <1>3, <2>1 DEF HoldAgg
  <2> QED BY <1>5, <2>1, <2>2, <2>3 DEF HoldAgg
<1>7. ASSUME NEW k, Released(a, C, k) PROVE Released(b, D, k)
  <2>1. k # l /\ Released(a, D, k)
    BY <1>2, <1>3, <1>7, FewerClaims DEF Released
  <2>2. \A t \in Sessions : b.index[t].parked => b.index[t].lease # k
    BY <1>5, <2>1 DEF Released, Holds
  <2> QED BY <1>5, <2>1, <2>2 DEF Released
<1>8. \A d, e \in Conns : \A x \in D[d], y \in D[e] : x[1] = y[1] => d = e
  BY <1>2 DEF HoldAgg
<1>9. \A k \in E : Released(b, D, k)
  BY <1>7 DEF HoldAgg
<1>10. ASSUME NEW x \in T
       PROVE  /\ Released(b, D, x[2])
              /\ \A t \in Sessions : b.slots[t].st # "absent" /\ b.slots[t].lease = x[2] => t = x[1]
  <2>1. Released(a, C, x[2])
    BY DEF HoldAgg
  <2>2. Released(b, D, x[2])
    BY <1>7, <2>1
  <2>3. \A t \in Sessions : b.slots[t].st # "absent" /\ b.slots[t].lease = x[2] => t = x[1]
    BY <1>5 DEF HoldAgg
  <2> QED BY <2>2, <2>3
<1>11. ASSUME NEW t \in Sessions, b.slots[t].st = "established"
       PROVE  b.index[t].parked \/ Due(D, E, T, b.slots[t].lease)
  <2>1. CASE t = s
    BY <2>1
  <2>2. CASE t # s
    <3>1. a.index[t].parked \/ Due(C, E, T, a.slots[t].lease)
      BY <1>5, <1>11 DEF HoldAgg
    <3>2. a.slots[t].lease # l
      BY <1>4, <1>5, <1>11, <2>2 DEF AggInv, LeasesDistinct, Occupied
    <3>3. ASSUME NEW d \in Conns, NEW x \in C[d], x[2] = a.slots[t].lease PROVE x \in D[d]
      <4>1. d # c
        BY <1>3, <3>2, <3>3
      <4> QED BY <1>1, <4>1
    <3> QED BY <1>5, <2>2, <3>1, <3>3 DEF Due
  <2> QED BY <2>1, <2>2
<1> QED BY <1>6, <1>8, <1>9, <1>10, <1>11 DEF HoldAgg

-----------------------------------------------------------------------------
(***************************************************************************)
(* What the tasks have to do, before (q) and after (r) a step.             *)
(***************************************************************************)
Moves(q, r) ==
  /\ \A c \in Conns : \/ r[c] = q[c]
                      \/ q[c] # <<>> /\ Orderly(r[c]) /\ (Admits(r[c]) => Admits(q[c]))
  /\ \A t \in Aborts : r[t] = q[t] \/ Harmless(r[t])
  /\ \A c \in Conns : \A t \in {LeaseDrop(c), EntryDrop(c)} :
       r[t] = q[t] \/ q[t] # <<>> \/ (q[c] # <<>> /\ r[c] = <<>>)
  /\ \A l \in LeaseIds : \A t \in {Connect(l), Timer(l)} :
       r[t] = q[t] \/ q[t] # <<>> \/ l \in Minted(agg.nextLease)

\* The names of the tasks.
LEMMA TaskNames ==
  /\ \A l \in LeaseIds : /\ Connect(l) \in Aborts /\ Timer(l) \in Aborts
                         /\ Connect(l) \in Tasks /\ Timer(l) \in Tasks
  /\ \A c \in Conns : c \in Tasks /\ LeaseDrop(c) \in Tasks /\ EntryDrop(c) \in Tasks
  /\ \A c \in Conns : LeaseDrop(c) \notin Conns /\ EntryDrop(c) \notin Conns
  /\ Aborts \subseteq Tasks /\ Aborts \cap Conns = {}
  /\ \A c \in Conns : LeaseDrop(c) \notin Aborts /\ EntryDrop(c) \notin Aborts
  /\ \A c, d \in Conns : LeaseDrop(c) # EntryDrop(d)
  /\ \A c, d \in Conns : LeaseDrop(c) = LeaseDrop(d) \/ EntryDrop(c) = EntryDrop(d) => c = d
<1>1. Aborts \subseteq Spawned /\ \A c \in Conns : LeaseDrop(c) \in Spawned /\ EntryDrop(c) \in Spawned
  BY DEF Aborts, Spawned
<1>2. \A c \in Conns : LeaseDrop(c) \notin Aborts /\ EntryDrop(c) \notin Aborts
  BY DEF Aborts, LeaseDrop, EntryDrop, Connect, Timer
<1>3. /\ \A c, d \in Conns : LeaseDrop(c) # EntryDrop(d)
      /\ \A c, d \in Conns : LeaseDrop(c) = LeaseDrop(d) \/ EntryDrop(c) = EntryDrop(d) => c = d
  BY DEF LeaseDrop, EntryDrop
<1>4. \A l \in LeaseIds : Connect(l) \in Aborts /\ Timer(l) \in Aborts
  BY DEF Aborts
<1> QED BY <1>1, <1>2, <1>3, <1>4, TasksAssumption DEF Tasks

\* The order of what tasks do is kept by steps of this kind.
LEMMA TasksKept ==
  ASSUME TaskInv, Moves(todo, todo'), fresh' \subseteq fresh
  PROVE  TaskInv' /\ Unadmitted' \subseteq Unadmitted
<1>1. \A c \in Conns : Asked(c)' => Asked(c)
  BY DEF Asked
<1>2. \A c \in Conns : Admits(todo'[c]) => Admits(todo[c])
  BY DEF Moves
<1>3. \A c \in Conns : Orderly(todo'[c]) /\ (Admits(todo'[c]) => c \in Attachers)
  BY <1>2 DEF Moves, TaskInv
<1>4. \A t \in Aborts : Harmless(todo'[t])
  BY DEF Moves, TaskInv
<1>5. ASSUME NEW c \in Conns
      PROVE  Asked(c)' => todo'[c] = <<>>
  BY <1>1 DEF Moves, TaskInv
<1>6. ASSUME NEW c \in Conns, Asked(c)' \/ todo'[c] # <<>>
      PROVE  todo'[LeaseDrop(c)] = <<>> /\ todo'[EntryDrop(c)] = <<>>
  <2>1. Asked(c) \/ todo[c] # <<>>
    BY <1>1, <1>6 DEF Moves
  <2>2. todo[LeaseDrop(c)] = <<>> /\ todo[EntryDrop(c)] = <<>>
    BY <2>1 DEF TaskInv
  <2>3. ~(todo[c] # <<>> /\ todo'[c] = <<>>)
    BY <1>1, <1>6 DEF TaskInv
  <2> QED BY <2>2, <2>3 DEF Moves
<1>7. TaskInv'
  BY <1>3, <1>4, <1>5, <1>6 DEF TaskInv
<1>8. Unadmitted' \subseteq Unadmitted
  BY <1>1, <1>2 DEF Unadmitted, Conns
<1> QED BY <1>7, <1>8

\* The attachers are finitely many.
LEMMA UnadmittedFinite ==
  /\ IsFiniteSet(Unadmitted) /\ Cardinality(Unadmitted) \in Nat
  /\ MaxLeases \in Nat
  /\ \A S \in SUBSET Unadmitted : Cardinality(S) \in Nat /\ Cardinality(S) <= Cardinality(Unadmitted)
<1>1. Unadmitted \subseteq Attachers
  BY DEF Unadmitted
<1>2. IsFiniteSet(Unadmitted)
  BY <1>1, TasksAssumption, FS_Subset
<1> QED BY <1>2, TasksAssumption, FS_CardinalityType, FS_Subset DEF MaxLeases

\* What an aggregate owes is a number.
LEMMA OwesNat ==
  ASSUME NEW a, AggInv(a)
  PROVE  Owes(a) \in Nat /\ a.nextLease \in Nat /\ a.nextLease <= Owes(a)
BY ClosingFinite, Fields DEF Owes

\* Every lease minted is one of LeaseIds.
LEMMA LeasesKnown ==
  ASSUME AggInv(agg), CountInv
  PROVE  Minted(agg.nextLease) \subseteq LeaseIds
<1>1. agg.nextLease \in Nat /\ agg.nextLease <= MaxLeases /\ MaxLeases \in Nat
  BY OwesNat, UnadmittedFinite DEF CountInv
<1> QED BY <1>1 DEF Minted, LeaseIds

\* No step of this kind makes room for more leases.
LEMMA CountKept ==
  ASSUME AggInv(agg), AggInv(agg'), CountInv, Owes(agg') <= Owes(agg),
         Unadmitted' \subseteq Unadmitted
  PROVE  CountInv'
<1>1. Cardinality(Unadmitted') \in Nat /\ Cardinality(Unadmitted') <= Cardinality(Unadmitted)
      /\ Cardinality(Unadmitted) \in Nat /\ MaxLeases \in Nat
  BY UnadmittedFinite
<1>2. Owes(agg) \in Nat /\ Owes(agg') \in Nat
  BY OwesNat
<1>3. Owes(agg') + Cardinality(Unadmitted') <= MaxLeases
  BY <1>1, <1>2 DEF CountInv
<1> QED BY <1>3 DEF CountInv, MaxLeases

\* The parts of the invariant a step must re-establish.
LEMMA StepCounted ==
  ASSUME IInv, AggInv(agg'), io' \in [Sessions -> IoSlots], SocketMapMatchesIndex',
         leases' \in [LeaseIds -> LeaseStates], aborted' \subseteq Aborts, now' \in Nat,
         fresh' \subseteq fresh, CountInv', agg.nextLease <= agg'.nextLease,
         todo' \in [Tasks -> Seq(Items(agg'.nextLease))], Moves(todo, todo'), HoldInv'
  PROVE  IInv'
<1>1. TaskInv'
  BY TasksKept DEF IInv
<1>2. ASSUME NEW l \in LeaseIds, todo'[Connect(l)] # <<>> \/ todo'[Timer(l)] # <<>>
      PROVE  l \in Minted(agg'.nextLease)
  <2>1. Minted(agg.nextLease) \subseteq Minted(agg'.nextLease)
    BY MintedGrows, Fields DEF IInv
  <2> QED BY <1>2, <2>1 DEF Moves, IInv, TypeInv
<1>3. TypeInv'
  BY <1>2 DEF TypeInv
<1> QED BY <1>1, <1>3 DEF IInv

\* The same for a step that owes no more leases.
LEMMA Step ==
  ASSUME IInv, AggInv(agg'), io' \in [Sessions -> IoSlots], SocketMapMatchesIndex',
         leases' \in [LeaseIds -> LeaseStates], aborted' \subseteq Aborts, now' \in Nat,
         fresh' \subseteq fresh, Owes(agg') <= Owes(agg), agg.nextLease <= agg'.nextLease,
         todo' \in [Tasks -> Seq(Items(agg'.nextLease))], Moves(todo, todo'), HoldInv'
  PROVE  IInv'
<1>1. Unadmitted' \subseteq Unadmitted
  BY TasksKept DEF IInv
<1>2. CountInv'
  BY <1>1, CountKept DEF IInv
<1> QED BY <1>2, StepCounted

-----------------------------------------------------------------------------
(***************************************************************************)
(* Lists that say the same of the incarnations.                            *)
(***************************************************************************)
Same(t, q, r) ==
  /\ t \in Conns => ClaimOf(q) = ClaimOf(r)
  /\ EndsOf(q) = EndsOf(r) /\ TermsOf(q) = TermsOf(r)

\* What is claimed, ended and terminated depends only on that.
LEMMA HoldSame ==
  ASSUME NEW q, NEW r, \A t \in Tasks : r[t] = q[t] \/ Same(t, q[t], r[t])
  PROVE  Claims(r) = Claims(q) /\ Ended(r) = Ended(q) /\ Terminated(r) = Terminated(q)
<1>1. \A t \in Tasks : EndsOf(r[t]) = EndsOf(q[t]) /\ TermsOf(r[t]) = TermsOf(q[t])
  BY DEF Same
<1>2. \A c \in Conns : ClaimOf(r[c]) = ClaimOf(q[c])
  BY TaskNames DEF Same
<1> QED BY <1>1, <1>2 DEF Claims, Ended, Terminated

\* Claims are of sessions, and everything is about leases.
LEMMA HoldTyped ==
  ASSUME NEW n \in Nat, NEW td \in [Tasks -> Seq(Items(n))]
  PROVE  HoldSets(Claims(td), Ended(td), Terminated(td))
<1>1. Minted(n) \subseteq Nat
  BY DEF Minted
<1>2. ASSUME NEW t \in Tasks, NEW x \in Elems(td[t]) PROVE x \in Items(n)
  <2>1. td[t] \in Seq(Items(n))
    OBVIOUS
  <2> QED BY <2>1 DEF Elems
<1>3. ASSUME NEW t \in Tasks PROVE EndsOf(td[t]) \subseteq Nat
  <2> SUFFICES ASSUME NEW x \in Elems(td[t]), x.op = "ended" PROVE x.lease \in Nat
    BY DEF EndsOf
  <2> QED BY <1>1, <1>2, ItemFields DEF LeaseOps
<1>4. ASSUME NEW t \in Tasks PROVE TermsOf(td[t]) \subseteq Sessions \X Nat
  <2> SUFFICES ASSUME NEW x \in Elems(td[t]), x.op = "terminated"
               PROVE  x.sid \in Sessions /\ x.lease \in Nat
    BY DEF TermsOf
  <2> QED BY <1>1, <1>2, ItemFields
<1>5. ASSUME NEW c \in Conns PROVE ClaimOf(td[c]) \subseteq Sessions \X Nat
  <2> SUFFICES ASSUME td[c] # <<>>, Head(td[c]).op \in ClaimOps
               PROVE  Head(td[c]).sid \in Sessions /\ Head(td[c]).lease \in Nat
    BY DEF ClaimOf
  <2>1. td[c] \in Seq(Items(n))
    BY TaskNames
  <2>2. Head(td[c]) \in Items(n)
    BY <2>1
  <2> QED BY <1>1, <2>2, ItemFields
<1>6. Claims(td) \in [Conns -> SUBSET (Sessions \X Nat)]
  BY <1>5 DEF Claims
<1>7. Ended(td) \subseteq Nat /\ Terminated(td) \subseteq Sessions \X Nat
  BY <1>3, <1>4 DEF Ended, Terminated
<1> QED BY <1>6, <1>7 DEF HoldSets

\* A quiet event, and lists that say the same: the holds are what they were.
LEMMA HoldsKept ==
  ASSUME IInv, AggInv(agg'), Quiet(agg, agg'),
         \A t \in Tasks : todo'[t] = todo[t] \/ Same(t, todo[t], todo'[t])
  PROVE  HoldInv'
<1>1. HoldSets(Claims(todo), Ended(todo), Terminated(todo))
  BY HoldTyped, Fields DEF IInv, TypeInv
<1>2. HoldAgg(agg', Claims(todo), Ended(todo), Terminated(todo))
  BY <1>1, HoldQuiet DEF IInv, HoldInv
<1>3. Claims(todo') = Claims(todo) /\ Ended(todo') = Ended(todo) /\ Terminated(todo') = Terminated(todo)
  BY HoldSame
<1> QED BY <1>2, <1>3 DEF HoldInv

\* A step that changes nothing for those who hold a target.
LEMMA QuietStep ==
  ASSUME IInv, AggInv(agg'), io' \in [Sessions -> IoSlots], SocketMapMatchesIndex',
         leases' \in [LeaseIds -> LeaseStates], aborted' \subseteq Aborts, now' \in Nat,
         fresh' \subseteq fresh, Owes(agg') <= Owes(agg), Quiet(agg, agg'),
         todo' \in [Tasks -> Seq(Items(agg'.nextLease))], Moves(todo, todo'),
         \A t \in Tasks : todo'[t] = todo[t] \/ Same(t, todo[t], todo'[t])
  PROVE  IInv'
BY HoldsKept, Step DEF Quiet

\* The lists of all tasks when one of them does its first item.
LEMMA ThenTodo ==
  ASSUME AggInv(agg), TypeInv, NEW t \in Tasks, todo[t] # <<>>,
         NEW n \in Nat, agg.nextLease <= n, NEW p \in Seq(Items(n))
  PROVE  /\ Then(t, p) \in [Tasks -> Seq(Items(n))]
         /\ Then(t, p)[t] = p \o Tail(todo[t])
         /\ \A u \in Tasks \ {t} : Then(t, p)[u] = todo[u]
         /\ Item(t) \in Items(agg.nextLease) /\ todo[t] \in Seq(Items(n))
<1>1. todo \in [Tasks -> Seq(Items(agg.nextLease))] /\ todo[t] \in Seq(Items(agg.nextLease))
  BY DEF TypeInv
<1>2. Seq(Items(agg.nextLease)) \subseteq Seq(Items(n))
  BY ItemsGrow, Fields
<1>3. todo \in [Tasks -> Seq(Items(n))] /\ todo[t] \in Seq(Items(n))
  BY <1>1, <1>2
<1>4. p \o Tail(todo[t]) \in Seq(Items(n))
  BY <1>3, ThenList
<1>5. Item(t) \in Items(agg.nextLease)
  BY <1>1 DEF Item
<1> QED BY <1>3, <1>4, <1>5 DEF Then

\* The lists of all tasks when one of them is given a new one.
LEMMA PutTodo ==
  ASSUME NEW n, NEW td \in [Tasks -> Seq(Items(n))], NEW t \in Tasks, NEW p \in Seq(Items(n))
  PROVE  /\ [td EXCEPT ![t] = p] \in [Tasks -> Seq(Items(n))]
         /\ [td EXCEPT ![t] = p][t] = p
         /\ \A u \in Tasks \ {t} : [td EXCEPT ![t] = p][u] = td[u]
OBVIOUS

\* One task moves.
LEMMA OneMoves ==
  ASSUME NEW td, NEW t \in Tasks, todo[t] # <<>>, \A u \in Tasks \ {t} : td[u] = todo[u],
         t \in Conns => Orderly(td[t]) /\ (Admits(td[t]) => Admits(todo[t])),
         t \in Aborts => Harmless(td[t])
  PROVE  Moves(todo, td)
<1>1. \A c \in Conns : \/ td[c] = todo[c]
                       \/ todo[c] # <<>> /\ Orderly(td[c]) /\ (Admits(td[c]) => Admits(todo[c]))
  BY TaskNames
<1>2. \A u \in Aborts : td[u] = todo[u] \/ Harmless(td[u])
  BY TaskNames
<1>3. \A c \in Conns : \A u \in {LeaseDrop(c), EntryDrop(c)} : td[u] = todo[u] \/ todo[u] # <<>>
  BY TaskNames
<1>4. \A l \in LeaseIds : \A u \in {Connect(l), Timer(l)} : td[u] = todo[u] \/ todo[u] # <<>>
  BY TaskNames
<1> QED BY <1>1, <1>2, <1>3, <1>4 DEF Moves

\* A task replaces an item that owns nothing by plain ones.
LEMMA PlainThen ==
  ASSUME AggInv(agg), TypeInv, TaskInv, NEW t \in Tasks, todo[t] # <<>>,
         NEW n \in Nat, agg.nextLease <= n, NEW p \in Seq(Items(n)), Plain(p),
         Item(t).op \notin ClaimOps \cup {"ended", "terminated"}
  PROVE  LET r == p \o Tail(todo[t]) IN
         /\ Same(t, todo[t], r)
         /\ t \in Conns => Orderly(r) /\ ~Admits(r)
         /\ t \in Aborts => Harmless(r)
<1> DEFINE q == todo[t]
           r == p \o Tail(q)
<1>1. q \in Seq(Items(n))
  BY ThenTodo
<1>2. Elems(r) = Elems(p) \cup Elems(Tail(q)) /\ Elems(q) = {Item(t)} \cup Elems(Tail(q))
  BY <1>1, ThenList DEF Item
<1>3. \A x \in Elems(p) : x.op \notin SoloOps \cup LastOps \cup {"admit", "ended", "terminated"}
  BY DEF Plain
<1>4. t \in Conns => Orderly(r) /\ ~Admits(r) /\ ClaimOf(r) = {}
  BY <1>1, <1>3, OrderlyThen DEF TaskInv
<1>5. ClaimOf(q) = {}
  BY DEF ClaimOf, Item
<1>6. /\ {x \in Elems(r) : x.op = "ended"} = {x \in Elems(q) : x.op = "ended"}
      /\ {x \in Elems(r) : x.op = "terminated"} = {x \in Elems(q) : x.op = "terminated"}
  BY <1>2, <1>3
<1>7. EndsOf(q) = EndsOf(r) /\ TermsOf(q) = TermsOf(r)
  BY <1>6 DEF EndsOf, TermsOf
<1>8. t \in Aborts => Harmless(r)
  BY <1>2, <1>3 DEF TaskInv, Harmless, SoloOps
<1> QED BY <1>4, <1>5, <1>7, <1>8 DEF Same

\* A quiet step of one task.
LEMMA GoesOn ==
  ASSUME IInv, AggInv(agg'), io' \in [Sessions -> IoSlots], SocketMapMatchesIndex',
         leases' \in [LeaseIds -> LeaseStates], aborted' \subseteq Aborts, now' \in Nat,
         fresh' \subseteq fresh, Owes(agg') <= Owes(agg), Quiet(agg, agg'),
         NEW t \in Tasks, todo[t] # <<>>, Item(t).op \notin ClaimOps \cup {"ended", "terminated"},
         NEW p \in Seq(Items(agg'.nextLease)), Plain(p), todo' = Then(t, p)
  PROVE  IInv'
<1>1. agg.nextLease \in Nat /\ agg'.nextLease \in Nat /\ agg.nextLease <= agg'.nextLease
  BY Fields DEF IInv, Quiet
<1>2. /\ todo' \in [Tasks -> Seq(Items(agg'.nextLease))]
      /\ todo'[t] = p \o Tail(todo[t])
      /\ \A u \in Tasks \ {t} : todo'[u] = todo[u]
  <2>1. AggInv(agg) /\ TypeInv
    BY DEF IInv
  <2>2. PICK n \in Nat : n = agg'.nextLease
    BY <1>1
  <2>3. agg.nextLease <= n /\ p \in Seq(Items(n))
    BY <1>1, <2>2
  <2>4. /\ Then(t, p) \in [Tasks -> Seq(Items(n))]
        /\ Then(t, p)[t] = p \o Tail(todo[t])
        /\ \A u \in Tasks \ {t} : Then(t, p)[u] = todo[u]
    BY ONLY <2>1, <2>3, t \in Tasks, todo[t] # <<>>, ThenTodo
  <2> QED BY <2>2, <2>4
<1>3. /\ Same(t, todo[t], todo'[t])
      /\ t \in Conns => Orderly(todo'[t]) /\ ~Admits(todo'[t])
      /\ t \in Aborts => Harmless(todo'[t])
  BY <1>1, <1>2, PlainThen DEF IInv
<1>4. Moves(todo, todo')
  BY <1>2, <1>3, OneMoves
<1>5. \A u \in Tasks : todo'[u] = todo[u] \/ Same(u, todo[u], todo'[u])
  BY <1>2, <1>3
<1> QED BY <1>2, <1>4, <1>5, QuietStep

\* A step that leaves the lock `core` alone keeps what is under it.
LEMMA CoreKept ==
  ASSUME IInv, UNCHANGED <<agg, io>>
  PROVE  /\ AggInv(agg') /\ io' \in [Sessions -> IoSlots] /\ SocketMapMatchesIndex'
         /\ Owes(agg') <= Owes(agg) /\ Quiet(agg, agg')
         /\ agg'.nextLease = agg.nextLease /\ agg.nextLease \in Nat
<1>1. AggInv(agg') /\ io' \in [Sessions -> IoSlots]
  BY DEF IInv, TypeInv
<1>2. SocketMapMatchesIndex'
  BY DEF IInv, SocketMapMatchesIndex
<1>3. Owes(agg') <= Owes(agg) /\ Quiet(agg, agg')
  BY OwesNat, QuietSame DEF IInv
<1> QED BY <1>1, <1>2, <1>3, Fields DEF IInv

\* A step of one task that touches neither the aggregate nor the socket map.
LEMMA ActsAlone ==
  ASSUME IInv, UNCHANGED <<agg, io, fresh, now>>,
         leases' \in [LeaseIds -> LeaseStates], aborted' \subseteq Aborts,
         NEW t \in Tasks, todo[t] # <<>>, Item(t).op \notin ClaimOps \cup {"ended", "terminated"},
         NEW p \in Seq(Items(agg.nextLease)), Plain(p), todo' = Then(t, p)
  PROVE  IInv'
<1>1. now' \in Nat /\ fresh' \subseteq fresh
  BY DEF IInv, TypeInv
<1>2. p \in Seq(Items(agg'.nextLease))
  BY CoreKept
<1> QED BY <1>1, <1>2, CoreKept, GoesOn

\* What the reducers return is plain.
LEMMA EffectsPlain ==
  ASSUME NEW n, NEW p \in Seq(Effects(n))
  PROVE  p \in Seq(Items(n)) /\ Plain(p)
<1>1. p \in Seq(Items(n))
  BY ItemsMade
<1>2. \A x \in Elems(p) : x.op \in {"connect", "cancel", "arm", "ready", "reject"}
  BY ItemsMade DEF Elems
<1> QED BY <1>1, <1>2 DEF Plain, SoloOps, LastOps, ClaimOps, Holding

\* What apply_with does with a quiet event.
LEMMA AppliedQuietly ==
  ASSUME IInv, NEW r, QuietResult(agg, r), Owes(r.agg) <= Owes(agg), ApplyWith(r)
  PROVE  /\ AggInv(agg') /\ io' \in [Sessions -> IoSlots] /\ SocketMapMatchesIndex'
         /\ Owes(agg') <= Owes(agg) /\ Quiet(agg, agg') /\ agg' = r.agg
<1>1. agg' = r.agg
  BY DEF ApplyWith
<1> QED BY <1>1, ApplyFollows DEF QuietResult, IInv, TypeInv

\* A task reports a quiet event and has to do what the reducer returned.
LEMMA Applies ==
  ASSUME IInv, UNCHANGED <<leases, aborted, fresh, now>>,
         NEW t \in Tasks, todo[t] # <<>>, Item(t).op \notin ClaimOps \cup {"ended", "terminated"},
         NEW r, QuietResult(agg, r), Owes(r.agg) <= Owes(agg), ApplyWith(r),
         todo' = Then(t, r.out)
  PROVE  IInv'
<1>1. now' \in Nat /\ fresh' \subseteq fresh /\ leases' \in [LeaseIds -> LeaseStates] /\ aborted' \subseteq Aborts
  BY DEF IInv, TypeInv
<1>2. /\ AggInv(agg') /\ io' \in [Sessions -> IoSlots] /\ SocketMapMatchesIndex'
      /\ Owes(agg') <= Owes(agg) /\ Quiet(agg, agg') /\ agg' = r.agg
  BY AppliedQuietly
<1>3. r.out \in Seq(Items(agg'.nextLease)) /\ Plain(r.out)
  BY <1>2, EffectsPlain DEF QuietResult
<1> QED BY <1>1, <1>2, <1>3, GoesOn

-----------------------------------------------------------------------------
(***************************************************************************)
(* Steps of the effects, of the connect tasks and of the timers.           *)
(***************************************************************************)

\* Ops that own nothing.
LEMMA OpsApart ==
  /\ \A op \in (LeaseOps \ {"ended"}) \cup KeyOps \cup {"resume", "ready", "reject", "notify"} :
       op \notin ClaimOps \cup {"ended", "terminated"}
  /\ \A op \in (LeaseOps \ {"ended"}) \cup {"notify"} :
       op \notin SoloOps \cup LastOps \cup {"admit", "ended", "terminated"}
BY DEF LeaseOps, KeyOps, ClaimOps, Holding, SoloOps, LastOps

\* The first item of a task, and the lease it is about.
LEMMA ItemKnown ==
  ASSUME IInv, NEW t \in Tasks, todo[t] # <<>>
  PROVE  /\ Item(t) \in Items(agg.nextLease) /\ todo[t] \in Seq(Items(agg.nextLease))
         /\ Item(t).op \in LeaseOps => Item(t).lease \in Minted(agg.nextLease)
                                       /\ Item(t).lease \in LeaseIds
         /\ Item(t).op \in ClaimOps \cup {"terminated", "notify"} =>
              /\ Item(t).sid \in Sessions /\ Item(t).lease \in Minted(agg.nextLease)
              /\ Item(t).lease \in LeaseIds
         /\ Item(t).op \in KeyOps => Item(t).key \in Keys
         /\ Item(t).op = "resume" => Item(t).sid \in Sessions
<1>1. todo[t] \in Seq(Items(agg.nextLease))
  BY DEF IInv, TypeInv
<1>2. Item(t) \in Items(agg.nextLease)
  BY <1>1 DEF Item
<1>3. Minted(agg.nextLease) \subseteq LeaseIds
  BY LeasesKnown DEF IInv
<1> QED BY <1>1, <1>2, <1>3, ItemFields

\* No item, or one or two that are plain.
LEMMA PlainShort ==
  ASSUME NEW n
  PROVE  /\ <<>> \in Seq(Items(n)) /\ Plain(<<>>)
         /\ \A x \in Items(n) : x.op \in (LeaseOps \ {"ended"}) \cup {"notify"} =>
              <<x>> \in Seq(Items(n)) /\ Plain(<<x>>)
         /\ \A x, y \in Items(n) :
              x.op \in LeaseOps \ {"ended"} /\ y.op \in LeaseOps \ {"ended"} =>
                <<x, y>> \in Seq(Items(n)) /\ Plain(<<x, y>>)
<1>1. <<>> \in Seq(Items(n)) /\ Plain(<<>>)
  BY DEF Plain, Elems
<1>2. ASSUME NEW x \in Items(n), x.op \in (LeaseOps \ {"ended"}) \cup {"notify"}
      PROVE  <<x>> \in Seq(Items(n)) /\ Plain(<<x>>)
  <2>1. <<x>> \in Seq(Items(n)) /\ Elems(<<x>>) = {x}
    BY ElemsShort
  <2> QED BY <1>2, <2>1, OpsApart DEF Plain
<1>3. ASSUME NEW x \in Items(n), NEW y \in Items(n),
             x.op \in LeaseOps \ {"ended"}, y.op \in LeaseOps \ {"ended"}
      PROVE  <<x, y>> \in Seq(Items(n)) /\ Plain(<<x, y>>)
  <2>1. <<x, y>> \in Seq(Items(n)) /\ Elems(<<x, y>>) = {x, y}
    BY ElemsShort
  <2> QED BY <1>3, <2>1, OpsApart DEF Plain
<1> QED BY <1>1, <1>2, <1>3

\* An item is done and nothing comes of it: outcomes, joins and notices.
LEMMA DoneStep ==
  ASSUME IInv, NEW t \in Tasks, SendsReady(t) \/ SendsReject(t) \/ Joins(t)
  PROVE  IInv'
<1>1. /\ UNCHANGED <<agg, io, fresh, now, leases, aborted>> /\ todo[t] # <<>>
      /\ todo' = Then(t, <<>>) /\ Item(t).op \in {"ready", "reject", "join"}
  BY DEF SendsReady, SendsReject, Joins, At, Item
<1>2. leases' \in [LeaseIds -> LeaseStates] /\ aborted' \subseteq Aborts
  BY <1>1 DEF IInv, TypeInv
<1>3. Item(t).op \notin ClaimOps \cup {"ended", "terminated"}
  BY <1>1, OpsApart DEF LeaseOps
<1>4. <<>> \in Seq(Items(agg.nextLease)) /\ Plain(<<>>)
  BY PlainShort
<1> QED BY <1>1, <1>2, <1>3, <1>4, ActsAlone

\* cancel_lease.
LEMMA CancelsLeaseStep ==
  ASSUME IInv, NEW t \in Tasks, CancelsLease(t)
  PROVE  IInv'
<1> DEFINE l == Item(t).lease
<1>1. UNCHANGED <<agg, io, fresh, now>> /\ todo[t] # <<>> /\ Item(t).op = "cancel"
  BY DEF CancelsLease, At, Item
<1>2. l \in Minted(agg.nextLease) /\ l \in LeaseIds
  BY <1>1, ItemKnown DEF LeaseOps
<1>3. leases' \in [LeaseIds -> LeaseStates]
  BY <1>2 DEF CancelsLease, IInv, TypeInv, LeaseStates
<1>4. Item(t).op \notin ClaimOps \cup {"ended", "terminated"}
  BY <1>1, OpsApart DEF LeaseOps
<1>5. aborted \subseteq Aborts /\ Connect(l) \in Aborts /\ Timer(l) \in Aborts
  BY <1>2, TaskNames DEF IInv, TypeInv
<1>6. leases[l] \in LeaseStates
  BY <1>2 DEF IInv, TypeInv
<1>7. Do("join", l) \in Items(agg.nextLease) /\ Do("stopped", l) \in Items(agg.nextLease)
      /\ Do("join", l).op = "join" /\ Do("stopped", l).op = "stopped"
  BY <1>2, ItemsMade DEF LeaseOps
<1>8. CASE leases[l] = "none"
  <2>1. todo' = Then(t, <<>>) /\ aborted' = aborted
    BY <1>8 DEF CancelsLease
  <2> QED BY <1>1, <1>3, <1>4, <1>5, <2>1, PlainShort, ActsAlone
<1>9. CASE leases[l] = "connecting"
  <2>1. todo' = Then(t, <<Do("join", l), Do("stopped", l)>>) /\ aborted' \subseteq Aborts
    BY <1>5, <1>9 DEF CancelsLease
  <2>2. <<Do("join", l), Do("stopped", l)>> \in Seq(Items(agg.nextLease))
        /\ Plain(<<Do("join", l), Do("stopped", l)>>)
    BY <1>7, PlainShort DEF LeaseOps
  <2> QED BY <1>1, <1>3, <1>4, <2>1, <2>2, ActsAlone
<1>10. CASE leases[l] \in {"target", "timed"}
  <2>1. todo' = Then(t, <<Do("stopped", l)>>) /\ aborted' \subseteq Aborts
    BY <1>5, <1>10 DEF CancelsLease
  <2>2. <<Do("stopped", l)>> \in Seq(Items(agg.nextLease)) /\ Plain(<<Do("stopped", l)>>)
    BY <1>7, PlainShort DEF LeaseOps
  <2> QED BY <1>1, <1>3, <1>4, <2>1, <2>2, ActsAlone
<1> QED BY <1>6, <1>8, <1>9, <1>10 DEF LeaseStates

\* The steps that report a quiet event.
LEMMA ReportStep ==
  ASSUME IInv,
         \/ \E t \in Tasks : ReportsStopped(t)
         \/ \E l \in LeaseIds : ReportsConnected(l) \/ ReportsExpired(l)
         \/ \E c \in Conns : Cancels(c)
  PROVE  IInv'
<1>1. ASSUME NEW t \in Tasks, ReportsStopped(t) PROVE IInv'
  <2>1. /\ UNCHANGED <<leases, aborted, fresh, now>> /\ todo[t] # <<>> /\ Item(t).op = "stopped"
        /\ ApplyWith(OnLeaseStopped(agg, Item(t).lease))
        /\ todo' = Then(t, OnLeaseStopped(agg, Item(t).lease).out)
    BY <1>1 DEF ReportsStopped, At, Item
  <2>2. PICK l : l = Item(t).lease
    OBVIOUS
  <2>3. QuietResult(agg, OnLeaseStopped(agg, l)) /\ Owes(OnLeaseStopped(agg, l).agg) <= Owes(agg)
    BY LeaseStoppedQuiet DEF IInv
  <2>4. Item(t).op \notin ClaimOps \cup {"ended", "terminated"}
    BY <2>1, OpsApart DEF LeaseOps
  <2> QED BY <2>1, <2>2, <2>3, <2>4, Applies
<1>2. ASSUME NEW l \in LeaseIds, ReportsConnected(l) PROVE IInv'
  <2> DEFINE t == Connect(l)
  <2>1. /\ UNCHANGED <<leases, aborted, fresh, now>> /\ todo[t] # <<>> /\ Item(t).op = "connected"
        /\ ApplyWith(OnTargetConnected(agg, l)) /\ t \in Tasks
        /\ todo' = Then(t, OnTargetConnected(agg, l).out)
    BY <1>2, TaskNames DEF ReportsConnected, At, Item
  <2>3. QuietResult(agg, OnTargetConnected(agg, l)) /\ Owes(OnTargetConnected(agg, l).agg) <= Owes(agg)
    BY TargetConnectedQuiet DEF IInv
  <2>4. Item(t).op \notin ClaimOps \cup {"ended", "terminated"}
    BY <2>1, OpsApart DEF LeaseOps
  <2> QED BY <2>1, <2>3, <2>4, Applies
<1>3. ASSUME NEW l \in LeaseIds, ReportsExpired(l) PROVE IInv'
  <2> DEFINE t == Timer(l)
  <2>1. /\ UNCHANGED <<leases, aborted, fresh, now>> /\ todo[t] # <<>> /\ Item(t).op = "expire"
        /\ ApplyWith(OnPendingExpired(agg, l)) /\ t \in Tasks
        /\ todo' = Then(t, OnPendingExpired(agg, l).out)
    BY <1>3, TaskNames DEF ReportsExpired, At, Item
  <2>3. QuietResult(agg, OnPendingExpired(agg, l)) /\ Owes(OnPendingExpired(agg, l).agg) <= Owes(agg)
    BY PendingExpiredQuiet DEF IInv
  <2>4. Item(t).op \notin ClaimOps \cup {"ended", "terminated"}
    BY <2>1, OpsApart DEF LeaseOps
  <2> QED BY <2>1, <2>3, <2>4, Applies
<1>4. ASSUME NEW c \in Conns, Cancels(c) PROVE IInv'
  <2>1. /\ UNCHANGED <<leases, aborted, fresh, now>> /\ todo[c] # <<>> /\ Item(c).op = "cancelAttach"
        /\ ApplyWith(OnCancelReceived(agg, Item(c).key)) /\ c \in Tasks
        /\ todo' = Then(c, OnCancelReceived(agg, Item(c).key).out)
    BY <1>4, TaskNames DEF Cancels, At, Item
  <2>2. PICK key \in Keys : key = Item(c).key
    BY <2>1, ItemKnown DEF KeyOps
  <2>3. QuietResult(agg, OnCancelReceived(agg, key)) /\ Owes(OnCancelReceived(agg, key).agg) <= Owes(agg)
    BY CancelReceivedQuiet DEF IInv
  <2>4. Item(c).op \notin ClaimOps \cup {"ended", "terminated"}
    BY <2>1, OpsApart DEF KeyOps
  <2> QED BY <2>1, <2>2, <2>3, <2>4, Applies
<1> QED BY <1>1, <1>2, <1>3, <1>4

\* A task spawns another: the one it replaces, if any, owned nothing.
LEMMA SpawnStep ==
  ASSUME IInv, UNCHANGED <<agg, io, fresh, now, aborted>>, leases' \in [LeaseIds -> LeaseStates],
         NEW t \in Tasks, todo[t] # <<>>, Item(t).op \in {"connect", "arm"},
         NEW l \in LeaseIds, l \in Minted(agg.nextLease), NEW u \in {Connect(l), Timer(l)},
         NEW x \in Items(agg.nextLease), x.op \in {"dial", "sleep"},
         todo' = [Then(t, <<>>) EXCEPT ![u] = <<x>>]
  PROVE  IInv'
<1> DEFINE n == agg.nextLease
<1>1. /\ AggInv(agg) /\ TypeInv /\ TaskInv /\ n \in Nat /\ n <= n
      /\ Item(t).op \notin ClaimOps \cup {"ended", "terminated"}
  BY Fields, OpsApart DEF IInv, LeaseOps
<1>2. u \in Tasks /\ u \in Aborts /\ u \notin Conns
  BY TaskNames
<1>3. /\ <<>> \in Seq(Items(n)) /\ Plain(<<>>) /\ <<x>> \in Seq(Items(n)) /\ Plain(<<x>>)
  BY PlainShort DEF LeaseOps
<1>4. /\ Then(t, <<>>) \in [Tasks -> Seq(Items(n))]
      /\ Then(t, <<>>)[t] = <<>> \o Tail(todo[t])
      /\ \A w \in Tasks \ {t} : Then(t, <<>>)[w] = todo[w]
  <2>1. todo \in [Tasks -> Seq(Items(n))] /\ todo[t] \in Seq(Items(n))
    BY <1>1 DEF TypeInv
  <2>2. <<>> \o Tail(todo[t]) \in Seq(Items(n))
    BY <1>3, <2>1, ThenList
  <2> QED BY <2>1, <2>2 DEF Then
<1>5. /\ Same(t, todo[t], Then(t, <<>>)[t])
      /\ t \in Conns => Orderly(Then(t, <<>>)[t]) /\ ~Admits(Then(t, <<>>)[t])
      /\ t \in Aborts => Harmless(Then(t, <<>>)[t])
  BY <1>1, <1>3, <1>4, PlainThen
<1>6. /\ todo' \in [Tasks -> Seq(Items(n))] /\ todo'[u] = <<x>>
      /\ \A w \in Tasks \ {u} : todo'[w] = Then(t, <<>>)[w]
  BY <1>2, <1>3, <1>4, PutTodo
<1>7. Harmless(todo[u]) /\ Harmless(<<x>>)
  BY <1>1, <1>2, <1>3 DEF TaskInv, Plain, Harmless, SoloOps
<1>8. Same(u, todo[u], todo'[u])
  <2>1. EndsOf(todo[u]) = {} /\ EndsOf(<<x>>) = {} /\ TermsOf(todo[u]) = {} /\ TermsOf(<<x>>) = {}
    BY <1>7 DEF EndsOf, TermsOf, Harmless
  <2> QED BY <1>2, <1>6, <2>1 DEF Same
<1>9. \A w \in Tasks : todo'[w] = todo[w] \/ Same(w, todo[w], todo'[w])
  BY <1>4, <1>5, <1>6, <1>8
<1>10. Moves(todo, todo')
  <2>1. ASSUME NEW c \in Conns
        PROVE  \/ todo'[c] = todo[c]
               \/ todo[c] # <<>> /\ Orderly(todo'[c]) /\ (Admits(todo'[c]) => Admits(todo[c]))
    <3>1. c \in Tasks /\ c # u
      BY <1>2, TaskNames
    <3> QED BY <1>4, <1>5, <1>6, <3>1
  <2>2. \A w \in Aborts : todo'[w] = todo[w] \/ Harmless(todo'[w])
    BY <1>4, <1>5, <1>6, <1>7, TaskNames
  <2>3. ASSUME NEW c \in Conns, NEW w \in {LeaseDrop(c), EntryDrop(c)}
        PROVE  todo'[w] = todo[w] \/ todo[w] # <<>>
    <3>1. w \in Tasks /\ w # u
      BY <1>2, TaskNames
    <3> QED BY <1>4, <1>6, <3>1
  <2>4. ASSUME NEW k \in LeaseIds, NEW w \in {Connect(k), Timer(k)}
        PROVE  todo'[w] = todo[w] \/ todo[w] # <<>> \/ k \in Minted(n)
    <3>1. w \in Tasks
      BY TaskNames
    <3>2. w = u => k = l
      BY DEF Connect, Timer
    <3> QED BY <1>4, <1>6, <3>1, <3>2
  <2> QED BY <2>1, <2>2, <2>3, <2>4 DEF Moves
<1>11. now' \in Nat /\ aborted' \subseteq Aborts /\ fresh' \subseteq fresh
  BY DEF IInv, TypeInv
<1>12. /\ AggInv(agg') /\ io' \in [Sessions -> IoSlots] /\ SocketMapMatchesIndex'
       /\ Owes(agg') <= Owes(agg) /\ Quiet(agg, agg') /\ agg'.nextLease = n
  BY CoreKept
<1> QED BY <1>6, <1>9, <1>10, <1>11, <1>12, QuietStep

\* start_connect and arm_pending_timeout.
LEMMA StartsStep ==
  ASSUME IInv, NEW t \in Tasks, StartsConnect(t) \/ ArmsTimer(t)
  PROVE  IInv'
<1> DEFINE l == Item(t).lease
<1>1. /\ UNCHANGED <<agg, io, fresh, now, aborted>> /\ todo[t] # <<>>
      /\ Item(t).op \in {"connect", "arm"}
  BY DEF StartsConnect, ArmsTimer, At, Item
<1>2. l \in Minted(agg.nextLease) /\ l \in LeaseIds
  BY <1>1, ItemKnown DEF LeaseOps
<1>3. leases' \in [LeaseIds -> LeaseStates]
  BY <1>2 DEF StartsConnect, ArmsTimer, IInv, TypeInv, LeaseStates
<1>4. /\ Do("dial", l) \in Items(agg.nextLease) /\ Do("dial", l).op = "dial"
      /\ Do("sleep", l) \in Items(agg.nextLease) /\ Do("sleep", l).op = "sleep"
  BY <1>2, ItemsMade DEF LeaseOps
<1>5. CASE todo' = [Then(t, <<>>) EXCEPT ![Connect(l)] = <<Do("dial", l)>>]
  BY <1>1, <1>2, <1>3, <1>4, <1>5, SpawnStep
<1>6. CASE todo' = [Then(t, <<>>) EXCEPT ![Timer(l)] = <<Do("sleep", l)>>]
  BY <1>1, <1>2, <1>3, <1>4, <1>6, SpawnStep
<1>7. CASE todo' = Then(t, <<>>)
  <2>1. aborted' \subseteq Aborts
    BY <1>1 DEF IInv, TypeInv
  <2>2. Item(t).op \notin ClaimOps \cup {"ended", "terminated"}
    BY <1>1, OpsApart DEF LeaseOps
  <2>3. <<>> \in Seq(Items(agg.nextLease)) /\ Plain(<<>>)
    BY PlainShort
  <2> QED BY <1>1, <1>3, <1>7, <2>1, <2>2, <2>3, ActsAlone
<1> QED BY <1>5, <1>6, <1>7 DEF StartsConnect, ArmsTimer

\* A connect task or a timer that ends owned nothing.
LEMMA EndsAlone ==
  ASSUME IInv, NEW t \in Aborts, todo[t] # <<>>, todo' = Ends(t),
         UNCHANGED <<agg, io, fresh, now, leases, aborted>>
  PROVE  IInv'
<1>1. t \in Tasks /\ todo' = [todo EXCEPT ![t] = <<>>]
  BY TaskNames DEF Ends
<1>2. t \notin Conns /\ Harmless(todo[t])
  BY <1>1, TaskNames DEF IInv, TaskInv
<1>3. todo \in [Tasks -> Seq(Items(agg.nextLease))] /\ <<>> \in Seq(Items(agg.nextLease))
  BY PlainShort DEF IInv, TypeInv
<1>4. /\ todo' \in [Tasks -> Seq(Items(agg.nextLease))] /\ todo'[t] = <<>>
      /\ \A w \in Tasks \ {t} : todo'[w] = todo[w]
  BY <1>1, <1>3, PutTodo
<1>5. Elems(<<>>) = {}
  BY DEF Elems
<1>6. Harmless(todo'[t])
  BY <1>4, <1>5 DEF Harmless
<1>7. Same(t, todo[t], todo'[t])
  BY <1>2, <1>6 DEF Same, EndsOf, TermsOf, Harmless
<1>8. Moves(todo, todo')
  BY <1>1, <1>2, <1>4, <1>6, OneMoves
<1>9. \A w \in Tasks : todo'[w] = todo[w] \/ Same(w, todo[w], todo'[w])
  BY <1>4, <1>7
<1>10. /\ now' \in Nat /\ aborted' \subseteq Aborts /\ fresh' \subseteq fresh
       /\ leases' \in [LeaseIds -> LeaseStates]
  BY <1>1 DEF IInv, TypeInv
<1>11. /\ AggInv(agg') /\ io' \in [Sessions -> IoSlots] /\ SocketMapMatchesIndex'
       /\ Owes(agg') <= Owes(agg) /\ Quiet(agg, agg') /\ agg'.nextLease = agg.nextLease
  BY <1>1, CoreKept
<1> QED BY <1>4, <1>8, <1>9, <1>10, <1>11, QuietStep

\* A plain item before plain ones.
LEMMA PlainBefore ==
  ASSUME NEW n, NEW x \in Items(n), x.op \in LeaseOps \ {"ended"}, NEW p \in Seq(Items(n)), Plain(p)
  PROVE  <<x>> \o p \in Seq(Items(n)) /\ Plain(<<x>> \o p)
<1> DEFINE r == <<x>> \o p
<1>1. r \in Seq(Items(n)) /\ Len(r) = Len(p) + 1 /\ Len(p) \in Nat /\ r[1] = x
  OBVIOUS
<1>2. \A i \in 1 .. Len(p) : r[i + 1] = p[i]
  OBVIOUS
<1>3. ASSUME NEW i \in DOMAIN r
      PROVE  r[i].op \notin SoloOps \cup LastOps \cup {"admit", "ended", "terminated"}
  <2>0. i \in 1 .. (Len(p) + 1)
    BY <1>1
  <2>1. CASE i = 1
    BY <1>1, <2>1, OpsApart
  <2>2. CASE i # 1
    <3>1. i - 1 \in 1 .. Len(p) /\ (i - 1) + 1 = i
      BY <1>1, <2>0, <2>2
    <3>2. r[i] = p[i - 1] /\ i - 1 \in DOMAIN p
      BY <1>2, <3>1
    <3>3. r[i] \in Elems(p)
      BY <3>2 DEF Elems
    <3> QED BY <3>3 DEF Plain
  <2> QED BY <2>1, <2>2
<1>4. Plain(r)
  BY <1>3 DEF Plain, Elems
<1> QED BY <1>1, <1>4

\* connect_failed.
LEMMA ReportsConnectFailedStep ==
  ASSUME IInv, NEW l \in LeaseIds, ReportsConnectFailed(l)
  PROVE  IInv'
<1> DEFINE t == Connect(l)
           r == OnTargetConnectFailed(agg, l)
           p == IF r.out = <<>> THEN <<>> ELSE <<Do("forget", l)>> \o r.out
<1>1. /\ UNCHANGED <<leases, aborted, fresh, now>> /\ todo[t] # <<>> /\ Item(t).op = "failed"
      /\ ApplyWith(r) /\ t \in Tasks /\ todo' = Then(t, p)
  BY TaskNames DEF ReportsConnectFailed, At, Item
<1>2. QuietResult(agg, r) /\ Owes(r.agg) <= Owes(agg)
  BY TargetConnectFailedQuiet DEF IInv
<1>3. Item(t).op \notin ClaimOps \cup {"ended", "terminated"}
  BY <1>1, OpsApart DEF LeaseOps
<1>4. /\ AggInv(agg') /\ io' \in [Sessions -> IoSlots] /\ SocketMapMatchesIndex'
      /\ Owes(agg') <= Owes(agg) /\ Quiet(agg, agg') /\ agg' = r.agg
  BY <1>1, <1>2, AppliedQuietly
<1>5. r.out \in Seq(Items(agg'.nextLease)) /\ Plain(r.out)
  BY <1>2, <1>4, EffectsPlain DEF QuietResult
<1>6. Do("forget", l) \in Items(agg'.nextLease) /\ Do("forget", l).op = "forget"
  <2>1. l \in Minted(agg.nextLease)
    BY <1>1 DEF IInv, TypeInv
  <2>2. l \in Minted(agg'.nextLease)
    BY <1>4, <2>1, MintedGrows, Fields DEF Quiet, IInv
  <2> QED BY <2>2, ItemsMade DEF LeaseOps
<1>7. p \in Seq(Items(agg'.nextLease)) /\ Plain(p)
  <2>1. <<Do("forget", l)>> \o r.out \in Seq(Items(agg'.nextLease)) /\ Plain(<<Do("forget", l)>> \o r.out)
    BY <1>5, <1>6, PlainBefore DEF LeaseOps
  <2> QED BY <2>1, PlainShort
<1>8. /\ now' \in Nat /\ aborted' \subseteq Aborts /\ fresh' \subseteq fresh
      /\ leases' \in [LeaseIds -> LeaseStates]
  BY <1>1 DEF IInv, TypeInv
<1> QED BY <1>1, <1>3, <1>4, <1>7, <1>8, GoesOn

\* What a connect task or a timer does by itself.
LEMMA LeaseTaskStep ==
  ASSUME IInv, NEW l \in LeaseIds,
         Dials(l) \/ StoresTarget(l) \/ ForgetsConnecting(l) \/ TimerFires(l)
  PROVE  IInv'
<1> DEFINE n == agg.nextLease
<1>0. /\ aborted \subseteq Aborts /\ leases \in [LeaseIds -> LeaseStates]
      /\ Connect(l) \in Tasks /\ Connect(l) \in Aborts /\ Timer(l) \in Tasks
      /\ todo[Connect(l)] # <<>> \/ todo[Timer(l)] # <<>> => l \in Minted(n)
  BY TaskNames DEF IInv, TypeInv
<1>1. ASSUME l \in Minted(n)
      PROVE  /\ Do("store", l) \in Items(n) /\ Do("store", l).op = "store"
             /\ Do("connected", l) \in Items(n) /\ Do("connected", l).op = "connected"
             /\ Do("failed", l) \in Items(n) /\ Do("failed", l).op = "failed"
             /\ Do("expire", l) \in Items(n) /\ Do("expire", l).op = "expire"
  BY <1>1, ItemsMade DEF LeaseOps
<1>2. <<>> \in Seq(Items(n)) /\ Plain(<<>>)
  BY PlainShort
<1>3. CASE Dials(l)
  <2> DEFINE t == Connect(l)
             p == <<Do("store", l), Do("connected", l)>>
  <2>1. /\ UNCHANGED <<agg, io, fresh, now, leases, aborted>> /\ todo[t] # <<>>
        /\ Item(t).op = "dial" /\ (todo' = Then(t, p) \/ todo' = Then(t, <<Do("failed", l)>>))
    BY <1>3 DEF Dials, At, Item
  <2>2. Item(t).op \notin ClaimOps \cup {"ended", "terminated"}
    BY <2>1, OpsApart DEF LeaseOps
  <2>3. p \in Seq(Items(n)) /\ Plain(p)
    BY <1>0, <1>1, <2>1, PlainShort DEF LeaseOps
  <2>4. <<Do("failed", l)>> \in Seq(Items(n)) /\ Plain(<<Do("failed", l)>>)
    BY <1>0, <1>1, <2>1, PlainShort DEF LeaseOps
  <2>5. leases' \in [LeaseIds -> LeaseStates] /\ aborted' \subseteq Aborts
    BY <1>0, <2>1
  <2>6. CASE todo' = Then(t, p)
    BY <1>0, <2>1, <2>2, <2>3, <2>5, <2>6, ActsAlone
  <2>7. CASE todo' = Then(t, <<Do("failed", l)>>)
    BY <1>0, <2>1, <2>2, <2>4, <2>5, <2>7, ActsAlone
  <2> QED BY <2>1, <2>6, <2>7
<1>4. CASE StoresTarget(l)
  <2> DEFINE t == Connect(l)
  <2>1. /\ UNCHANGED <<agg, io, fresh, now, aborted>> /\ todo[t] # <<>> /\ Item(t).op = "store"
    BY <1>4 DEF StoresTarget, At, Item
  <2>2. Item(t).op \notin ClaimOps \cup {"ended", "terminated"}
    BY <2>1, OpsApart DEF LeaseOps
  <2>3. CASE leases[l] = "connecting"
    <3>1. leases' \in [LeaseIds -> LeaseStates] /\ aborted' \subseteq Aborts /\ todo' = Then(t, <<>>)
      BY <1>0, <1>4, <2>1, <2>3 DEF StoresTarget, LeaseStates
    <3> QED BY <1>0, <1>2, <2>1, <2>2, <3>1, ActsAlone
  <2>4. CASE leases[l] # "connecting"
    <3>1. UNCHANGED leases /\ todo' = Ends(t)
      BY <1>4, <2>4 DEF StoresTarget
    <3> QED BY <1>0, <2>1, <3>1, EndsAlone
  <2> QED BY <2>3, <2>4
<1>5. CASE ForgetsConnecting(l)
  <2> DEFINE t == Connect(l)
  <2>1. /\ UNCHANGED <<agg, io, fresh, now, aborted>> /\ todo[t] # <<>> /\ Item(t).op = "forget"
        /\ todo' = Then(t, <<>>)
    BY <1>5 DEF ForgetsConnecting, At, Item
  <2>2. Item(t).op \notin ClaimOps \cup {"ended", "terminated"}
    BY <2>1, OpsApart DEF LeaseOps
  <2>3. leases' \in [LeaseIds -> LeaseStates] /\ aborted' \subseteq Aborts
    BY <1>0, <1>5, <2>1 DEF ForgetsConnecting, LeaseStates
  <2> QED BY <1>0, <1>2, <2>1, <2>2, <2>3, ActsAlone
<1>6. CASE TimerFires(l)
  <2> DEFINE t == Timer(l)
  <2>1. /\ UNCHANGED <<agg, io, fresh, now, leases, aborted>> /\ todo[t] # <<>>
        /\ Item(t).op = "sleep" /\ todo' = Then(t, <<Do("expire", l)>>)
    BY <1>6 DEF TimerFires, At, Item
  <2>2. Item(t).op \notin ClaimOps \cup {"ended", "terminated"}
    BY <2>1, OpsApart DEF LeaseOps
  <2>3. <<Do("expire", l)>> \in Seq(Items(n)) /\ Plain(<<Do("expire", l)>>)
    BY <1>0, <1>1, <2>1, PlainShort DEF LeaseOps
  <2>4. leases' \in [LeaseIds -> LeaseStates] /\ aborted' \subseteq Aborts
    BY <1>0, <2>1
  <2> QED BY <1>0, <2>1, <2>2, <2>3, <2>4, ActsAlone
<1> QED BY <1>3, <1>4, <1>5, <1>6

-----------------------------------------------------------------------------
(***************************************************************************)
(* Steps of the connections that leave all holds alone.                    *)
(***************************************************************************)

\* A connection whose item had nothing after it.
LEMMA ThenLast ==
  ASSUME IInv, NEW c \in Conns, todo[c] # <<>>, Item(c).op \in SoloOps \cup LastOps,
         NEW p \in Seq(Items(agg.nextLease))
  PROVE  /\ Then(c, p) = [todo EXCEPT ![c] = p]
         /\ Elems(todo[c]) = {Item(c)} /\ ClaimOf(todo[c]) =
              IF Item(c).op \in ClaimOps THEN {<<Item(c).sid, Item(c).lease>>} ELSE {}
<1>1. c \in Tasks /\ todo[c] \in Seq(Items(agg.nextLease)) /\ todo \in [Tasks -> Seq(Items(agg.nextLease))]
  BY TaskNames DEF IInv, TypeInv
<1>2. Orderly(todo[c])
  BY DEF IInv, TaskInv
<1>3. Len(todo[c]) = 1 /\ Elems(todo[c]) = {Item(c)}
  BY <1>1, <1>2, OrderlyLast DEF Item
<1>4. p \o Tail(todo[c]) = p
  BY <1>1, <1>3, ThenList
<1>5. Then(c, p) = [todo EXCEPT ![c] = p]
  BY <1>4 DEF Then
<1> QED BY <1>3, <1>5 DEF ClaimOf, Item

\* A connection goes on with another list.
LEMMA Placed ==
  ASSUME IInv, NEW c \in Conns, todo[c] # <<>>,
         NEW q \in Seq(Items(agg.nextLease)), Orderly(q), ~Admits(q),
         todo' = [todo EXCEPT ![c] = q]
  PROVE  /\ todo' \in [Tasks -> Seq(Items(agg.nextLease))] /\ todo'[c] = q /\ c \in Tasks
         /\ \A w \in Tasks \ {c} : todo'[w] = todo[w]
         /\ \A d \in Conns \ {c} : todo'[d] = todo[d]
         /\ Moves(todo, todo')
<1>1. c \in Tasks /\ c \notin Aborts /\ todo \in [Tasks -> Seq(Items(agg.nextLease))]
  BY TaskNames DEF IInv, TypeInv
<1>2. /\ todo' \in [Tasks -> Seq(Items(agg.nextLease))] /\ todo'[c] = q
      /\ \A w \in Tasks \ {c} : todo'[w] = todo[w]
  BY <1>1, PutTodo
<1>3. Moves(todo, todo')
  BY <1>1, <1>2, OneMoves
<1>4. \A d \in Conns \ {c} : todo'[d] = todo[d]
  BY <1>2, TaskNames
<1> QED BY <1>1, <1>2, <1>3, <1>4

\* It says the same as before, and so does the aggregate.
LEMMA Replaced ==
  ASSUME IInv, agg' = agg, io' \in [Sessions -> IoSlots], SocketMapMatchesIndex',
         UNCHANGED <<fresh, now>>,
         leases' \in [LeaseIds -> LeaseStates], aborted' \subseteq Aborts,
         NEW c \in Conns, todo[c] # <<>>,
         NEW q \in Seq(Items(agg.nextLease)), Orderly(q), ~Admits(q), Same(c, todo[c], q),
         todo' = [todo EXCEPT ![c] = q]
  PROVE  IInv'
<1>1. /\ todo' \in [Tasks -> Seq(Items(agg.nextLease))] /\ todo'[c] = q
      /\ \A w \in Tasks \ {c} : todo'[w] = todo[w]
      /\ Moves(todo, todo')
  BY Placed
<1>2. \A w \in Tasks : todo'[w] = todo[w] \/ Same(w, todo[w], todo'[w])
  BY <1>1
<1>3. now' \in Nat /\ fresh' \subseteq fresh
  BY DEF IInv, TypeInv
<1>4. AggInv(agg') /\ Owes(agg') <= Owes(agg) /\ Quiet(agg, agg')
  BY OwesNat, QuietSame DEF IInv
<1> QED BY <1>1, <1>2, <1>3, <1>4, QuietStep

\* Lists that say nothing of any incarnation.
LEMMA SameNothing ==
  ASSUME NEW c, NEW q, NEW r, ClaimOf(q) = {}, ClaimOf(r) = {}, Harmless(q), Harmless(r)
  PROVE  Same(c, q, r)
BY DEF Same, EndsOf, TermsOf, Harmless

\* A single item.
LEMMA OneItem ==
  ASSUME NEW n, NEW x \in Items(n)
  PROVE  /\ <<x>> \in Seq(Items(n)) /\ Orderly(<<x>>) /\ Elems(<<x>>) = {x}
         /\ ClaimOf(<<x>>) = IF x.op \in ClaimOps THEN {<<x.sid, x.lease>>} ELSE {}
         /\ x.op # "admit" => ~Admits(<<x>>)
         /\ x.op \notin ClaimOps \cup {"ended", "terminated"} => Harmless(<<x>>)
<1>1. <<x>> \in Seq(Items(n)) /\ Elems(<<x>>) = {x} /\ Head(<<x>>) = x /\ <<x>> # <<>>
  BY ElemsShort
<1> QED BY <1>1, OrderlyOne DEF ClaimOf, Admits, Harmless

\* No item.
LEMMA NoItem ==
  ASSUME NEW n
  PROVE  /\ <<>> \in Seq(Items(n)) /\ Orderly(<<>>) /\ Elems(<<>>) = {} /\ ClaimOf(<<>>) = {}
         /\ ~Admits(<<>>) /\ Harmless(<<>>)
<1>1. Elems(<<>>) = {}
  BY DEF Elems
<1>2. <<>> \in Seq(Items(n)) /\ ClaimOf(<<>>) = {}
  BY DEF ClaimOf
<1>3. Orderly(<<>>)
  BY DEF Orderly
<1> QED BY <1>1, <1>2, <1>3 DEF Admits, Harmless

\* wait_hello_outcome, with and without an outcome.
LEMMA OutcomeStep ==
  ASSUME IInv, NEW c \in Conns, GetsOutcome(c) \/ GivesUpHello(c)
  PROVE  IInv'
<1> DEFINE x == [op |-> "activate", key |-> Item(c).key]
<1>1. /\ UNCHANGED <<agg, io, fresh, now, leases, aborted>> /\ todo[c] # <<>> /\ Item(c).op = "await"
      /\ todo' = Then(c, <<x>>) \/ todo' = Ends(c)
  BY DEF GetsOutcome, GivesUpHello, At, Item
<1>2. leases' \in [LeaseIds -> LeaseStates] /\ aborted' \subseteq Aborts
  BY <1>1 DEF IInv, TypeInv
<1>3. Item(c).op \in SoloOps \cup LastOps /\ Item(c).op \notin ClaimOps \cup {"ended", "terminated"}
  BY <1>1, OpsApart DEF KeyOps, LastOps
<1>4. x \in Items(agg.nextLease) /\ x.op = "activate"
  BY <1>1, TaskNames, ItemKnown DEF KeyOps, Items
<1>5. /\ <<x>> \in Seq(Items(agg.nextLease)) /\ Orderly(<<x>>) /\ ~Admits(<<x>>)
      /\ ClaimOf(<<x>>) = {} /\ Harmless(<<x>>)
  BY <1>4, OneItem, OpsApart DEF KeyOps
<1>6. Then(c, <<x>>) = [todo EXCEPT ![c] = <<x>>] /\ ClaimOf(todo[c]) = {} /\ Elems(todo[c]) = {Item(c)}
  BY <1>1, <1>3, <1>5, ThenLast
<1>7. Harmless(todo[c])
  BY <1>3, <1>6 DEF Harmless
<1>8. CASE todo' = Then(c, <<x>>)
  <2>1. Same(c, todo[c], <<x>>)
    BY <1>5, <1>6, <1>7, SameNothing
  <2> QED BY <1>1, <1>2, <1>5, <1>6, <1>8, <2>1, CoreKept, Replaced
<1>9. CASE todo' = Ends(c)
  <2>1. /\ <<>> \in Seq(Items(agg.nextLease)) /\ Orderly(<<>>) /\ ~Admits(<<>>)
        /\ Same(c, todo[c], <<>>)
    BY <1>6, <1>7, NoItem, SameNothing
  <2> QED BY <1>1, <1>2, <1>9, <2>1, CoreKept, Replaced DEF Ends
<1> QED BY <1>1, <1>8, <1>9

\* A connection keeps hold of its incarnation.
LEMMA KeepsHold ==
  ASSUME IInv, UNCHANGED <<agg, io, fresh, now>>,
         leases' \in [LeaseIds -> LeaseStates], aborted' \subseteq Aborts,
         NEW c \in Conns, todo[c] # <<>>, Item(c).op \in ClaimOps, NEW op \in ClaimOps,
         todo' = Then(c, <<DoFor(op, Item(c).sid, Item(c).lease)>>)
  PROVE  IInv'
<1> DEFINE x == DoFor(op, Item(c).sid, Item(c).lease)
<1>1. Item(c).sid \in Sessions /\ Item(c).lease \in Minted(agg.nextLease)
  BY TaskNames, ItemKnown
<1>2. /\ x \in Items(agg.nextLease) /\ x.op = op /\ x.sid = Item(c).sid /\ x.lease = Item(c).lease
  BY <1>1, ItemsMade
<1>3. op \notin {"admit", "ended", "terminated"} /\ Item(c).op \notin {"ended", "terminated"}
      /\ Item(c).op \in SoloOps \cup LastOps
  BY DEF ClaimOps, Holding, SoloOps
<1>4. /\ <<x>> \in Seq(Items(agg.nextLease)) /\ Orderly(<<x>>) /\ ~Admits(<<x>>) /\ Elems(<<x>>) = {x}
      /\ ClaimOf(<<x>>) = {<<Item(c).sid, Item(c).lease>>}
  BY <1>2, <1>3, OneItem
<1>5. /\ Then(c, <<x>>) = [todo EXCEPT ![c] = <<x>>] /\ Elems(todo[c]) = {Item(c)}
      /\ ClaimOf(todo[c]) = {<<Item(c).sid, Item(c).lease>>}
  BY <1>3, <1>4, ThenLast
<1>6. Same(c, todo[c], <<x>>)
  BY <1>2, <1>3, <1>4, <1>5 DEF Same, EndsOf, TermsOf
<1> QED BY <1>4, <1>5, <1>6, CoreKept, Replaced

\* Relays begin, yield or are replayed before.
LEMMA HolderStep ==
  ASSUME IInv, NEW c \in Conns,
         BeginsRelay(c) \/ DataStreamDies(c) \/ YieldsToPreemption(c) \/ Replays(c)
  PROVE  IInv'
<1>1. /\ UNCHANGED <<agg, io, fresh, now, leases, aborted>> /\ todo[c] # <<>> /\ Item(c).op \in ClaimOps
      /\ \E op \in ClaimOps : todo' = Then(c, <<DoFor(op, Item(c).sid, Item(c).lease)>>)
  BY DEF BeginsRelay, DataStreamDies, YieldsToPreemption, Replays, At, Item, ClaimOps, Holding
<1>2. leases' \in [LeaseIds -> LeaseStates] /\ aborted' \subseteq Aborts
  BY <1>1 DEF IInv, TypeInv
<1> QED BY <1>1, <1>2, KeepsHold

\* The notice of a RESUME that preempts.
LEMMA NotifiesStep ==
  ASSUME IInv, NEW c \in Conns, NotifiesPreempt(c)
  PROVE  IInv'
<1>1. /\ UNCHANGED <<agg, io, fresh, now, leases, aborted>> /\ todo[c] # <<>> /\ c \in Tasks
      /\ Item(c).op = "notify" /\ todo' = Then(c, <<>>)
  BY TaskNames DEF NotifiesPreempt, At, Item
<1>2. leases' \in [LeaseIds -> LeaseStates] /\ aborted' \subseteq Aborts
  BY <1>1 DEF IInv, TypeInv
<1>3. Item(c).op \notin ClaimOps \cup {"ended", "terminated"}
  BY <1>1, OpsApart
<1>4. <<>> \in Seq(Items(agg.nextLease)) /\ Plain(<<>>)
  BY PlainShort
<1> QED BY <1>1, <1>2, <1>3, <1>4, ActsAlone

\* A quiet event that leaves every task where it is.
LEMMA CoreStep ==
  ASSUME IInv, AggInv(agg'), io' \in [Sessions -> IoSlots], SocketMapMatchesIndex',
         Owes(agg') <= Owes(agg), Quiet(agg, agg'), now' \in Nat,
         UNCHANGED <<leases, aborted, fresh, todo>>
  PROVE  IInv'
<1>1. /\ leases' \in [LeaseIds -> LeaseStates] /\ aborted' \subseteq Aborts /\ fresh' \subseteq fresh
      /\ todo \in [Tasks -> Seq(Items(agg.nextLease))]
  BY DEF IInv, TypeInv
<1>2. Seq(Items(agg.nextLease)) \subseteq Seq(Items(agg'.nextLease))
  BY ItemsGrow, Fields DEF Quiet, IInv
<1>3. todo' \in [Tasks -> Seq(Items(agg'.nextLease))]
  BY <1>1, <1>2
<1>4. Moves(todo, todo')
  BY DEF Moves
<1>5. \A w \in Tasks : todo'[w] = todo[w]
  OBVIOUS
<1> QED BY <1>1, <1>3, <1>4, <1>5, QuietStep

\* The sweep, and a replay that is given up.
LEMMA SweepStep ==
  ASSUME IInv, SweepsParked \/ (\E c \in Conns : GivesUpReplay(c))
  PROVE  IInv'
<1>1. CASE SweepsParked
  <2>1. ApplyWith(OnSweep(agg, now)) /\ UNCHANGED <<leases, aborted, fresh, todo, now>>
    BY <1>1 DEF SweepsParked
  <2>2. QuietResult(agg, OnSweep(agg, now)) /\ Owes(OnSweep(agg, now).agg) <= Owes(agg)
    BY SweepQuiet DEF IInv
  <2>3. now' \in Nat
    BY <2>1 DEF IInv, TypeInv
  <2> QED BY <2>1, <2>2, <2>3, AppliedQuietly, CoreStep
<1>2. ASSUME NEW c \in Conns, GivesUpReplay(c) PROVE IInv'
  <2>1. /\ todo[c] # <<>> /\ Item(c).op = "relay" /\ UNCHANGED <<leases, aborted, fresh, todo, now>>
        /\ ApplyWith(OnResumeUnavailable(agg, Item(c).sid, Item(c).lease))
    BY <1>2 DEF GivesUpReplay, At, Item
  <2>2a. PICK s \in Sessions : s = Item(c).sid
    BY <2>1, TaskNames, ItemKnown DEF ClaimOps, Holding
  <2>2. PICK l : l = Item(c).lease
    OBVIOUS
  <2>3. /\ QuietResult(agg, OnResumeUnavailable(agg, s, l))
        /\ Owes(OnResumeUnavailable(agg, s, l).agg) <= Owes(agg)
    BY ResumeUnavailableQuiet DEF IInv
  <2>4. now' \in Nat
    BY <2>1 DEF IInv, TypeInv
  <2> QED BY <2>1, <2>2a, <2>2, <2>3, <2>4, AppliedQuietly, CoreStep
<1> QED BY <1>1, <1>2

\* Time passes.
LEMMA TickStep ==
  ASSUME IInv, Tick
  PROVE  IInv'
<1>1. UNCHANGED <<agg, io>> /\ UNCHANGED <<leases, aborted, fresh, todo>> /\ now' = now + 1
  BY DEF Tick, shell
<1>2. now' \in Nat
  BY <1>1 DEF IInv, TypeInv
<1> QED BY <1>1, <1>2, CoreKept, CoreStep

\* A step that changes nothing.
LEMMA StutterStep ==
  ASSUME IInv, UNCHANGED vars
  PROVE  IInv'
<1>1. UNCHANGED <<agg, io>> /\ UNCHANGED <<leases, aborted, fresh, todo, now>>
  BY DEF vars
<1>2. now' \in Nat
  BY <1>1 DEF IInv, TypeInv
<1> QED BY <1>1, <1>2, CoreKept, CoreStep

-----------------------------------------------------------------------------
(***************************************************************************)
(* Connections arrive, and are admitted.                                   *)
(***************************************************************************)

\* A connection that has asked for nothing yet begins.
LEMMA ArrivalStep ==
  ASSUME IInv, UNCHANGED <<agg, io, leases, aborted, now>>,
         NEW c \in Conns, Asked(c), fresh' = Unasked(c),
         NEW q \in Seq(Items(agg.nextLease)), Orderly(q), ClaimOf(q) = {}, Harmless(q),
         Admits(q) => c \in Attachers, todo' = Starts(c, q)
  PROVE  IInv'
<1> DEFINE n == agg.nextLease
<1>1. /\ c \in Tasks /\ c \notin Aborts /\ todo[c] = <<>>
      /\ todo[LeaseDrop(c)] = <<>> /\ todo[EntryDrop(c)] = <<>>
      /\ todo \in [Tasks -> Seq(Items(n))] /\ todo' = [todo EXCEPT ![c] = q]
  BY TaskNames DEF IInv, TaskInv, TypeInv, Starts
<1>2. /\ todo' \in [Tasks -> Seq(Items(n))] /\ todo'[c] = q
      /\ \A w \in Tasks \ {c} : todo'[w] = todo[w]
  BY <1>1, PutTodo
<1>3. fresh' \subseteq fresh /\ ~(Asked(c)') /\ \A d \in Conns : Asked(d)' => Asked(d)
  BY DEF Unasked, Asked
<1>4. \A d \in Conns : todo'[LeaseDrop(d)] = todo[LeaseDrop(d)] /\ todo'[EntryDrop(d)] = todo[EntryDrop(d)]
  BY <1>2, TaskNames
<1>5. \A d \in Conns : d # c => todo'[d] = todo[d]
  BY <1>2, TaskNames
<1>6. TaskInv'
  <2>1. \A d \in Conns : Orderly(todo'[d]) /\ (Admits(todo'[d]) => d \in Attachers)
    BY <1>2, <1>5 DEF IInv, TaskInv
  <2>2. \A t \in Aborts : Harmless(todo'[t])
    BY <1>1, <1>2, TaskNames DEF IInv, TaskInv
  <2>3. ASSUME NEW d \in Conns
        PROVE  /\ Asked(d)' => todo'[d] = <<>>
               /\ Asked(d)' \/ todo'[d] # <<>> =>
                    todo'[LeaseDrop(d)] = <<>> /\ todo'[EntryDrop(d)] = <<>>
    BY <1>1, <1>3, <1>4, <1>5 DEF IInv, TaskInv
  <2> QED BY <2>1, <2>2, <2>3 DEF TaskInv
<1>7. Unadmitted' \subseteq Unadmitted
  BY <1>3, <1>5 DEF Unadmitted, Conns
<1>8. /\ AggInv(agg') /\ io' \in [Sessions -> IoSlots] /\ SocketMapMatchesIndex'
      /\ Owes(agg') <= Owes(agg) /\ agg' = agg
  BY CoreKept
<1>9. CountInv'
  BY <1>7, <1>8, CountKept DEF IInv
<1>10. Same(c, todo[c], todo'[c])
  BY <1>1, <1>2, NoItem, SameNothing
<1>11. HoldInv'
  <2>1. \A w \in Tasks : todo'[w] = todo[w] \/ Same(w, todo[w], todo'[w])
    BY <1>2, <1>10
  <2>2. Claims(todo') = Claims(todo) /\ Ended(todo') = Ended(todo) /\ Terminated(todo') = Terminated(todo)
    BY <2>1, HoldSame
  <2> QED BY <1>8, <2>2 DEF IInv, HoldInv
<1>12. TypeInv'
  <2>1. \A l \in LeaseIds : todo'[Connect(l)] = todo[Connect(l)] /\ todo'[Timer(l)] = todo[Timer(l)]
    BY <1>1, <1>2, TaskNames
  <2> QED BY <1>2, <1>8, <2>1 DEF IInv, TypeInv
<1> QED BY <1>6, <1>8, <1>9, <1>11, <1>12 DEF IInv

\* ATTACH_HELLO, RESUME and CANCEL_ATTACH arrive.
LEMMA SendsStep ==
  ASSUME IInv, NEW c \in Conns,
         \/ \E key \in Keys : SendsHello(c, key) \/ SendsCancel(c, key)
         \/ \E s \in Sessions : SendsResume(c, s)
  PROVE  IInv'
<1> DEFINE n == agg.nextLease
<1>1. ASSUME NEW key \in Keys, SendsHello(c, key) PROVE IInv'
  <2> DEFINE x == [op |-> "admit", key |-> key]
             y == [op |-> "await", key |-> key]
  <2>1. /\ UNCHANGED <<agg, io, leases, aborted, now>> /\ Asked(c) /\ fresh' = Unasked(c)
        /\ c \in Attachers /\ todo' = Starts(c, <<x, y>>)
    BY <1>1 DEF SendsHello, Asked
  <2>2. x \in Items(n) /\ y \in Items(n) /\ x.op = "admit" /\ y.op = "await"
    BY DEF Items, KeyOps
  <2>3. <<x, y>> \in Seq(Items(n)) /\ Elems(<<x, y>>) = {x, y} /\ Head(<<x, y>>) = x
    <3>1. <<x, y>> \in Seq(Items(n)) /\ Elems(<<x, y>>) = {x, y}
      BY <2>2, ElemsShort
    <3> QED BY <3>1
  <2>4. x.op \notin ClaimOps /\ x.op \notin SoloOps \cup LastOps /\ y.op \notin ClaimOps /\ y.op \notin SoloOps
    BY <2>2 DEF ClaimOps, Holding, SoloOps, LastOps
  <2>5. Orderly(<<x, y>>)
    <3>1. /\ DOMAIN <<x, y>> = {1, 2} /\ Len(<<x, y>>) = 2
          /\ <<x, y>>[1] = x /\ <<x, y>>[2] = y
      OBVIOUS
    <3> HIDE DEF x, y
    <3> QED BY <2>2, <2>4, <3>1 DEF Orderly
  <2>6. ClaimOf(<<x, y>>) = {} /\ Harmless(<<x, y>>)
    BY <2>2, <2>3, <2>4 DEF ClaimOf, Harmless
  <2> QED BY <2>1, <2>3, <2>5, <2>6, ArrivalStep
<1>2. ASSUME NEW key \in Keys, SendsCancel(c, key) PROVE IInv'
  <2> DEFINE x == [op |-> "cancelAttach", key |-> key]
  <2>1. /\ UNCHANGED <<agg, io, leases, aborted, now>> /\ Asked(c) /\ fresh' = Unasked(c)
        /\ todo' = Starts(c, <<x>>)
    BY <1>2 DEF SendsCancel, Asked
  <2>2. x \in Items(n) /\ x.op = "cancelAttach" /\ x.op \notin ClaimOps \cup {"ended", "terminated"}
    BY OpsApart DEF Items, KeyOps
  <2>3. /\ <<x>> \in Seq(Items(n)) /\ Orderly(<<x>>) /\ ClaimOf(<<x>>) = {} /\ ~Admits(<<x>>)
        /\ Harmless(<<x>>)
    BY <2>2, OneItem
  <2> QED BY <2>1, <2>3, ArrivalStep
<1>3. ASSUME NEW s \in Sessions, SendsResume(c, s) PROVE IInv'
  <2> DEFINE x == [op |-> "resume", sid |-> s, again |-> FALSE]
  <2>1. /\ UNCHANGED <<agg, io, leases, aborted, now>> /\ Asked(c) /\ fresh' = Unasked(c)
        /\ todo' = Starts(c, <<x>>)
    BY <1>3 DEF SendsResume, Asked
  <2>2. x \in Items(n) /\ x.op = "resume" /\ x.op \notin ClaimOps \cup {"ended", "terminated"}
    BY OpsApart DEF Items
  <2>3. /\ <<x>> \in Seq(Items(n)) /\ Orderly(<<x>>) /\ ClaimOf(<<x>>) = {} /\ ~Admits(<<x>>)
        /\ Harmless(<<x>>)
    BY <2>2, OneItem
  <2> QED BY <2>1, <2>3, ArrivalStep
<1> QED BY <1>1, <1>2, <1>3

\* hello() asks for admission: the attacher has caused its one lease.
LEMMA AdmissionStep ==
  ASSUME IInv, NEW c \in Conns, RequestsAdmission(c)
  PROVE  IInv'
<1>1. PICK key : key = Item(c).key
  OBVIOUS
<1> DEFINE r == OnAdmitRequested(agg, key)
<1>2. /\ UNCHANGED <<leases, aborted, fresh, now>> /\ todo[c] # <<>> /\ Item(c).op = "admit"
      /\ ApplyWith(r) /\ c \in Tasks /\ todo' = Then(c, r.out)
  BY <1>1, TaskNames DEF RequestsAdmission, At, Item
<1>3. key \in Keys
  BY <1>1, <1>2, ItemKnown DEF KeyOps
<1>4. QuietResult(agg, r) /\ Owes(r.agg) <= Owes(agg) + 1
  BY <1>3, AdmitRequestedQuiet DEF IInv
<1>5. agg' = r.agg /\ AggInv(agg') /\ Quiet(agg, agg') /\ Owes(agg') <= Owes(agg) + 1
  BY <1>2, <1>4 DEF QuietResult, ApplyWith
<1>6. io' \in [Sessions -> IoSlots] /\ SocketMapMatchesIndex'
  BY <1>2, <1>4, ApplyFollows DEF QuietResult, IInv, TypeInv
<1>7. PICK p \in Seq(Items(agg'.nextLease)) : p = r.out /\ Plain(p)
  BY <1>4, <1>5, EffectsPlain DEF QuietResult
<1>8. PICK n \in Nat : n = agg'.nextLease
  BY <1>5, Fields
<1>9. AggInv(agg) /\ TypeInv /\ TaskInv /\ agg.nextLease <= n /\ p \in Seq(Items(n)) /\ todo' = Then(c, p)
      /\ Item(c).op \notin ClaimOps \cup {"ended", "terminated"}
  BY <1>2, <1>5, <1>7, <1>8, OpsApart DEF Quiet, IInv, KeyOps
<1>10. /\ Then(c, p) \in [Tasks -> Seq(Items(n))]
       /\ Then(c, p)[c] = p \o Tail(todo[c])
       /\ \A u \in Tasks \ {c} : Then(c, p)[u] = todo[u]
  <2>1. AggInv(agg) /\ TypeInv
    BY <1>9
  <2>2. agg.nextLease <= n /\ p \in Seq(Items(n))
    BY <1>9
  <2>3. c \in Tasks /\ todo[c] # <<>>
    BY <1>2
  <2> QED BY ONLY <2>1, <2>2, <2>3, ThenTodo
<1>11. /\ Same(c, todo[c], todo'[c]) /\ Orderly(todo'[c]) /\ ~Admits(todo'[c])
  BY <1>2, <1>7, <1>9, <1>10, PlainThen
<1>12. Moves(todo, todo')
  BY <1>2, <1>9, <1>10, <1>11, TaskNames, OneMoves
<1>13. HoldInv'
  BY <1>5, <1>9, <1>10, <1>11, HoldsKept
<1>14. c \in Unadmitted /\ c \notin Unadmitted' /\ Unadmitted' \subseteq Unadmitted
  <2>1. Item(c) \in Elems(todo[c])
    <3>1. todo[c] \in Seq(Items(agg.nextLease))
      BY <1>2, ItemKnown
    <3> QED BY <1>2, <3>1 DEF Item, Elems
  <2>2. Admits(todo[c]) /\ c \in Attachers /\ ~Asked(c)
    BY <1>2, <2>1 DEF Admits, IInv, TaskInv
  <2>3. ~(Asked(c)')
    BY <1>2, <2>2 DEF Asked
  <2>4. Unadmitted' \subseteq Unadmitted
    BY <1>2, <1>12, TasksKept DEF IInv
  <2> QED BY <1>11, <2>2, <2>3, <2>4 DEF Unadmitted
<1>15. CountInv'
  <2>1. Cardinality(Unadmitted \ {c}) = Cardinality(Unadmitted) - 1
    BY <1>14, UnadmittedFinite, FS_RemoveElement
  <2>2. /\ IsFiniteSet(Unadmitted \ {c}) /\ Unadmitted' \subseteq Unadmitted \ {c}
    BY <1>14, UnadmittedFinite, FS_RemoveElement
  <2>3. Cardinality(Unadmitted') <= Cardinality(Unadmitted \ {c}) /\ Cardinality(Unadmitted') \in Nat
    BY <2>2, FS_Subset, FS_CardinalityType
  <2>4. /\ Owes(agg) \in Nat /\ Owes(agg') \in Nat /\ Cardinality(Unadmitted) \in Nat /\ MaxLeases \in Nat
    BY <1>5, OwesNat, UnadmittedFinite DEF IInv
  <2>5. Owes(agg') + Cardinality(Unadmitted') <= MaxLeases
    BY <1>5, <2>1, <2>3, <2>4 DEF IInv, CountInv
  <2> QED BY <2>5 DEF CountInv, MaxLeases
<1>16. /\ now' \in Nat /\ aborted' \subseteq Aborts /\ fresh' \subseteq fresh
       /\ leases' \in [LeaseIds -> LeaseStates]
  BY <1>2 DEF IInv, TypeInv
<1>17. todo' \in [Tasks -> Seq(Items(agg'.nextLease))] /\ agg.nextLease <= agg'.nextLease
  BY <1>8, <1>9, <1>10
<1> QED BY <1>5, <1>6, <1>12, <1>13, <1>15, <1>16, <1>17, StepCounted

-----------------------------------------------------------------------------
(***************************************************************************)
(* Steps by which holds come and go.                                       *)
(***************************************************************************)

\* What is ended and terminated follows the lists.
LEMMA SubReleased ==
  ASSUME NEW q, NEW r, NEW X, NEW Y,
         \A t \in Tasks : EndsOf(q[t]) \subseteq EndsOf(r[t]) \cup X,
         \A t \in Tasks : TermsOf(q[t]) \subseteq TermsOf(r[t]) \cup Y
  PROVE  Ended(q) \subseteq Ended(r) \cup X /\ Terminated(q) \subseteq Terminated(r) \cup Y
<1>1. Ended(q) \subseteq Ended(r) \cup X
  BY DEF Ended
<1>2. Terminated(q) \subseteq Terminated(r) \cup Y
  BY DEF Terminated
<1> QED BY <1>1, <1>2

\* What the invariant says of the holds.
LEMMA HoldFacts ==
  ASSUME IInv
  PROVE  /\ AggInv(agg)
         /\ HoldSets(Claims(todo), Ended(todo), Terminated(todo))
         /\ HoldAgg(agg, Claims(todo), Ended(todo), Terminated(todo))
BY HoldTyped, Fields DEF IInv, TypeInv, HoldInv

\* A connection gets hold of an incarnation.
LEMMA GrantStep ==
  ASSUME IInv, AggInv(agg'), io' \in [Sessions -> IoSlots], SocketMapMatchesIndex',
         UNCHANGED <<leases, aborted, fresh, now>>, Owes(agg') <= Owes(agg),
         NEW s \in Sessions, NEW l, Elsewhere(agg, agg', s),
         Holds(agg'.index[s], l), ~agg'.index[s].parked,
         \/ Holds(agg.index[s], l) /\ agg.index[s].parked
         \/ agg.slots[s].st = "pending" /\ agg.slots[s].lease = l,
         NEW c \in Conns, todo[c] # <<>>, Item(c).op \in {"activate", "resume"},
         NEW op \in ClaimOps, todo' = Then(c, <<DoFor(op, s, l)>>)
  PROVE  IInv'
<1> DEFINE n == agg.nextLease
<1>1. agg'.nextLease = n /\ n \in Nat /\ l \in Nat /\ l \in Minted(n)
  BY Fields DEF IInv, Elsewhere, Holds
<1>2. PICK x \in Items(n) : x = DoFor(op, s, l) /\ x.op = op /\ x.sid = s /\ x.lease = l
  BY <1>1, ItemsMade
<1>3. op \notin {"admit", "ended", "terminated"} /\ Item(c).op \in SoloOps \cup LastOps
      /\ Item(c).op \notin ClaimOps \cup {"ended", "terminated"}
  BY DEF ClaimOps, Holding, SoloOps, LastOps
<1>4. /\ <<x>> \in Seq(Items(n)) /\ Orderly(<<x>>) /\ ~Admits(<<x>>) /\ Elems(<<x>>) = {x}
      /\ ClaimOf(<<x>>) = {<<s, l>>}
  <2>1. /\ <<x>> \in Seq(Items(n)) /\ Orderly(<<x>>) /\ Elems(<<x>>) = {x}
        /\ ClaimOf(<<x>>) = IF x.op \in ClaimOps THEN {<<x.sid, x.lease>>} ELSE {}
        /\ x.op # "admit" => ~Admits(<<x>>)
    BY OneItem
  <2> QED BY <1>2, <1>3, <2>1
<1>5. /\ Then(c, <<x>>) = [todo EXCEPT ![c] = <<x>>] /\ Elems(todo[c]) = {Item(c)}
      /\ ClaimOf(todo[c]) = {}
  BY <1>3, <1>4, ThenLast
<1>6. todo' = [todo EXCEPT ![c] = <<x>>]
  BY <1>2, <1>5
<1>7. /\ todo' \in [Tasks -> Seq(Items(n))] /\ todo'[c] = <<x>>
      /\ \A w \in Tasks \ {c} : todo'[w] = todo[w]
      /\ \A d \in Conns \ {c} : todo'[d] = todo[d]
      /\ Moves(todo, todo')
  BY <1>4, <1>6, Placed
<1>9. HoldInv'
  <2> DEFINE C == Claims(todo)
  <2>1. EndsOf(<<x>>) = {} /\ TermsOf(<<x>>) = {} /\ EndsOf(todo[c]) = {} /\ TermsOf(todo[c]) = {}
    BY <1>2, <1>3, <1>4, <1>5 DEF EndsOf, TermsOf
  <2>2. Ended(todo') = Ended(todo) /\ Terminated(todo') = Terminated(todo)
    <3>1. \A w \in Tasks : EndsOf(todo'[w]) = EndsOf(todo[w]) /\ TermsOf(todo'[w]) = TermsOf(todo[w])
      BY <1>7, <2>1
    <3> QED BY <3>1 DEF Ended, Terminated
  <2>3. Claims(todo') = [C EXCEPT ![c] = {<<s, l>>}] /\ C[c] = {}
    <3>0. \A d \in Conns \ {c} : todo'[d] = todo[d]
      BY <1>7
    <3>1. Claims(todo') = [C EXCEPT ![c] = ClaimOf(todo'[c])] /\ C[c] = ClaimOf(todo[c])
      BY <3>0 DEF Claims
    <3> QED BY <1>4, <1>5, <1>7, <3>1
  <2>4. HoldAgg(agg', [C EXCEPT ![c] = {<<s, l>>}], Ended(todo), Terminated(todo))
    BY <1>1, <2>3, HoldFacts, HoldGranted
  <2> QED BY <2>2, <2>3, <2>4 DEF HoldInv
<1>10. /\ now' \in Nat /\ aborted' \subseteq Aborts /\ fresh' \subseteq fresh
       /\ leases' \in [LeaseIds -> LeaseStates]
  BY DEF IInv, TypeInv
<1> QED BY <1>1, <1>7, <1>9, <1>10, Step

\* AttachActivate: the session is established, or the token is not its own.
LEMMA ActivatesStep ==
  ASSUME IInv, NEW c \in Conns, NEW grace \in Graces, Activates(c, grace)
  PROVE  IInv'
<1>1. PICK key, token : key = Item(c).key /\ token = outcome[c].token
  OBVIOUS
<1> DEFINE r == OnActivated(agg, key, token, grace)
           s == key.sid
<1>2. /\ UNCHANGED <<leases, aborted, fresh, now>> /\ todo[c] # <<>> /\ Item(c).op = "activate"
      /\ ApplyWith(r) /\ c \in Tasks
      /\ todo' = IF r.out = <<>> THEN Ends(c) ELSE Then(c, <<DoFor("take", s, token)>>)
  BY <1>1, TaskNames DEF Activates, At, Item
<1>3. key \in Keys /\ grace \in Nat
  BY <1>1, <1>2, ItemKnown, ClockAssumption DEF KeyOps
<1>4. /\ AggInv(r.agg) /\ Follows(agg, r) /\ Owes(r.agg) <= Owes(agg) /\ s \in Sessions
      /\ \/ /\ r.out # <<>> /\ Elsewhere(agg, r.agg, s)
            /\ agg.slots[s].st = "pending" /\ agg.slots[s].lease = token
            /\ r.agg.slots[s].st = "established" /\ r.agg.slots[s].lease = token
            /\ r.agg.index[s].present /\ r.agg.index[s].lease = token /\ ~r.agg.index[s].parked
         \/ r.out = <<>> /\ r.agg = agg
  BY <1>3, ActivatedEstablishes DEF IInv
<1>5. agg' = r.agg
  BY <1>2 DEF ApplyWith
<1>6. AggInv(agg') /\ io' \in [Sessions -> IoSlots] /\ SocketMapMatchesIndex'
  BY <1>2, <1>4, ApplyFollows DEF IInv, TypeInv
<1>7. CASE r.out # <<>>
  <2>1. todo' = Then(c, <<DoFor("take", s, token)>>)
    BY <1>2, <1>7
  <2>2. /\ Elsewhere(agg, agg', s) /\ Holds(agg'.index[s], token) /\ ~agg'.index[s].parked
        /\ agg.slots[s].st = "pending" /\ agg.slots[s].lease = token
    BY <1>4, <1>5, <1>7 DEF Holds
  <2>3. Owes(agg') <= Owes(agg) /\ "take" \in ClaimOps
    BY <1>4, <1>5 DEF ClaimOps
  <2> QED BY <1>2, <1>4, <1>6, <2>1, <2>2, <2>3, GrantStep
<1>8. CASE r.out = <<>>
  <2>1. agg' = agg /\ todo' = [todo EXCEPT ![c] = <<>>]
    BY <1>2, <1>4, <1>5, <1>8 DEF Ends
  <2>2. <<>> \in Seq(Items(agg.nextLease)) /\ Orderly(<<>>) /\ ~Admits(<<>>) /\ Harmless(<<>>)
        /\ ClaimOf(<<>>) = {}
    BY NoItem
  <2>3. Item(c).op \in SoloOps \cup LastOps /\ Item(c).op \notin ClaimOps \cup {"ended", "terminated"}
    BY <1>2, OpsApart DEF KeyOps, SoloOps
  <2>4. ClaimOf(todo[c]) = {} /\ Elems(todo[c]) = {Item(c)}
    BY <1>2, <2>2, <2>3, ThenLast
  <2>5. Harmless(todo[c])
    BY <2>3, <2>4 DEF Harmless
  <2>6. Same(c, todo[c], <<>>)
    BY <2>2, <2>4, <2>5, SameNothing
  <2>7. leases' \in [LeaseIds -> LeaseStates] /\ aborted' \subseteq Aborts
    BY <1>2 DEF IInv, TypeInv
  <2> QED BY <1>2, <1>6, <2>1, <2>2, <2>6, <2>7, Replaced
<1> QED BY <1>7, <1>8

\* RESUME: granted, asked to preempt, or rejected; never orphaned.
LEMMA RequestsResumeStep ==
  ASSUME IInv, NEW c \in Conns, RequestsResume(c)
  PROVE  IInv'
<1>0. /\ todo[c] # <<>> /\ Item(c).op = "resume" /\ c \in Tasks
      /\ UNCHANGED <<leases, aborted, fresh, now>>
  BY TaskNames DEF RequestsResume, At, Item
<1>1. PICK s \in Sessions : s = Item(c).sid
  BY <1>0, ItemKnown
<1>2. PICK l : l = agg.index[s].lease
  OBVIOUS
<1> DEFINE r == OnResumeRequested(agg, s)
           again == [op |-> "resume", sid |-> s, again |-> TRUE]
           retry == <<DoFor("notify", s, l), again>>
<1>3. /\ ApplyWith(r)
      /\ todo' = Then(c, CASE Granted(s, r) -> <<DoFor("replay", s, l)>>
                           [] Orphaned(s, r) -> <<DoFor("terminated", s, l)>>
                           [] Preempting(s, r) /\ ~Item(c).again -> retry
                           [] OTHER -> <<>>)
  BY <1>1, <1>2 DEF RequestsResume
<1>4. /\ AggInv(r.agg) /\ Follows(agg, r) /\ Owes(r.agg) <= Owes(agg)
      /\ \/ /\ r.io = {ResumeGranted(s, l)} /\ agg.index[s].present /\ agg.index[s].parked
            /\ Elsewhere(agg, r.agg, s) /\ r.agg.slots[s] = agg.slots[s]
            /\ r.agg.index[s].present /\ r.agg.index[s].lease = l /\ ~r.agg.index[s].parked
         \/ r.io = {RequestPreempt(s, l)} /\ agg.index[s].present /\ r.agg = agg
         \/ r.io = {ResumeRejected(s)} /\ r.agg = agg
  BY <1>2, ResumeRequestedGrants DEF IInv
<1>5. agg' = r.agg
  BY <1>3 DEF ApplyWith
<1>6. AggInv(agg') /\ io' \in [Sessions -> IoSlots] /\ SocketMapMatchesIndex'
  BY <1>3, <1>4, ApplyFollows DEF IInv, TypeInv
<1>7. CASE /\ r.io = {ResumeGranted(s, l)} /\ agg.index[s].present /\ agg.index[s].parked
           /\ Elsewhere(agg, r.agg, s) /\ r.agg.slots[s] = agg.slots[s]
           /\ r.agg.index[s].present /\ r.agg.index[s].lease = l /\ ~r.agg.index[s].parked
  <2>1. Granted(s, r) /\ ~Orphaned(s, r) /\ ~Preempting(s, r)
    <3>1. io[s].present /\ io[s].lease = l /\ io[s].socket
      BY <1>2, <1>7 DEF IInv, SocketMapMatchesIndex
    <3>2. ResumeGranted(s, l).op = "granted" /\ ResumeGranted(s, l).lease = l
      BY DEF ResumeGranted
    <3> QED BY <1>7, <3>1, <3>2 DEF Granted, Orphaned, Preempting, Mine
  <2>2. todo' = Then(c, <<DoFor("replay", s, l)>>)
    BY <1>3, <2>1
  <2>3. Holds(agg.index[s], l) /\ Holds(agg'.index[s], l) /\ Elsewhere(agg, agg', s)
        /\ ~agg'.index[s].parked
    BY <1>2, <1>5, <1>7 DEF Holds
  <2>4. Owes(agg') <= Owes(agg) /\ "replay" \in ClaimOps
    BY <1>4, <1>5 DEF ClaimOps, Holding
  <2> QED BY <1>0, <1>6, <1>7, <2>2, <2>3, <2>4, GrantStep
<1>8. CASE \/ r.io = {RequestPreempt(s, l)} /\ agg.index[s].present /\ r.agg = agg
           \/ r.io = {ResumeRejected(s)} /\ r.agg = agg
  <2>1. \A fx \in r.io : fx.op \notin {"granted", "store"}
    BY <1>8 DEF RequestPreempt, ResumeRejected
  <2>2. ~Granted(s, r) /\ ~Orphaned(s, r)
    BY <2>1 DEF Granted, Orphaned
  <2>3. Preempting(s, r) => agg.index[s].present
    BY <1>8 DEF Preempting, ResumeRejected
  <2>4. todo' = Then(c, <<>>) \/ (agg.index[s].present /\ todo' = Then(c, retry))
    BY <1>3, <2>2, <2>3
  <2>5. Item(c).op \in SoloOps \cup LastOps /\ Item(c).op \notin ClaimOps \cup {"ended", "terminated"}
    BY <1>0, OpsApart DEF LastOps
  <2>6. <<>> \in Seq(Items(agg.nextLease)) /\ Orderly(<<>>) /\ ~Admits(<<>>) /\ Harmless(<<>>)
        /\ ClaimOf(<<>>) = {}
    BY NoItem
  <2>7. ClaimOf(todo[c]) = {} /\ Elems(todo[c]) = {Item(c)} /\ Then(c, <<>>) = [todo EXCEPT ![c] = <<>>]
    BY <1>0, <2>5, <2>6, ThenLast
  <2>8. Harmless(todo[c])
    BY <2>5, <2>7 DEF Harmless
  <2>9. leases' \in [LeaseIds -> LeaseStates] /\ aborted' \subseteq Aborts /\ agg' = agg
    BY <1>0, <1>5, <1>8 DEF IInv, TypeInv
  <2>10. CASE todo' = Then(c, <<>>)
    <3>1. Same(c, todo[c], <<>>)
      BY <2>6, <2>7, <2>8, SameNothing
    <3> QED BY <1>0, <1>6, <2>6, <2>7, <2>9, <2>10, <3>1, Replaced
  <2>11. CASE agg.index[s].present /\ todo' = Then(c, retry)
    <3>1. l \in Minted(agg.nextLease)
      BY <1>2, <2>11, Fields DEF IInv
    <3>2. PICK x \in Items(agg.nextLease) : x = DoFor("notify", s, l) /\ x.op = "notify"
      BY <3>1, ItemsMade
    <3>3. PICK y \in Items(agg.nextLease) : y = again /\ y.op = "resume"
      <4>1. again \in [op : {"resume"}, sid : Sessions, again : BOOLEAN] /\ again.op = "resume"
        OBVIOUS
      <4>2. again \in Items(agg.nextLease)
        BY <4>1 DEF Items
      <4> QED BY <4>1, <4>2
    <3>4. <<x, y>> \in Seq(Items(agg.nextLease)) /\ Elems(<<x, y>>) = {x, y}
      BY ElemsShort
    <3>5. /\ x.op \notin SoloOps \cup LastOps \cup ClaimOps \cup {"admit", "ended", "terminated"}
          /\ y.op \notin SoloOps \cup ClaimOps \cup {"admit", "ended", "terminated"}
      BY <3>2, <3>3 DEF SoloOps, LastOps, ClaimOps, Holding
    <3>6. Orderly(<<x, y>>)
      <4>1. /\ DOMAIN <<x, y>> = {1, 2} /\ Len(<<x, y>>) = 2
            /\ <<x, y>>[1] = x /\ <<x, y>>[2] = y
        OBVIOUS
      <4> QED BY <3>5, <4>1 DEF Orderly
    <3>7. ~Admits(<<x, y>>) /\ Harmless(<<x, y>>)
      BY <3>4, <3>5 DEF Admits, Harmless
    <3>8. ClaimOf(<<x, y>>) = {}
      <4>1. Head(<<x, y>>) = x
        OBVIOUS
      <4> QED BY <3>5, <4>1 DEF ClaimOf
    <3>9. todo' = [todo EXCEPT ![c] = <<x, y>>]
      <4>1. Then(c, <<x, y>>) = [todo EXCEPT ![c] = <<x, y>>]
        BY <1>0, <2>5, <3>4, ThenLast
      <4> QED BY <2>11, <3>2, <3>3, <4>1
    <3>10. Same(c, todo[c], <<x, y>>)
      BY <2>7, <2>8, <3>7, <3>8, SameNothing
    <3> QED BY <1>0, <1>6, <2>9, <3>4, <3>6, <3>7, <3>9, <3>10, Replaced
  <2> QED BY <2>4, <2>10, <2>11
<1> QED BY <1>4, <1>7, <1>8

\* A connection gives up its hold and leaves a report of it to be made.
LEMMA YieldHold ==
  ASSUME IInv, agg' = agg, NEW c \in Conns, todo[c] # <<>>, Item(c).op \in ClaimOps,
         NEW s, NEW l, s = Item(c).sid, l = Item(c).lease,
         ClaimOf(todo'[c]) = {}, \A d \in Conns \ {c} : todo'[d] = todo[d],
         \A t \in Tasks : /\ EndsOf(todo[t]) \subseteq EndsOf(todo'[t])
                          /\ EndsOf(todo'[t]) \subseteq EndsOf(todo[t]) \cup {l}
                          /\ TermsOf(todo[t]) \subseteq TermsOf(todo'[t])
                          /\ TermsOf(todo'[t]) \subseteq TermsOf(todo[t]) \cup {<<s, l>>},
         NEW u \in Tasks, l \in EndsOf(todo'[u]) \/ <<s, l>> \in TermsOf(todo'[u])
  PROVE  HoldInv'
<1> DEFINE C == Claims(todo)
<1>1. Claims(todo') = [C EXCEPT ![c] = {}] /\ C[c] = {<<s, l>>}
  BY DEF Claims, ClaimOf, Item
<1>2. Ended(todo) \subseteq Ended(todo') /\ Terminated(todo) \subseteq Terminated(todo')
  <2>1. /\ \A t \in Tasks : EndsOf(todo[t]) \subseteq EndsOf(todo'[t]) \cup {}
        /\ \A t \in Tasks : TermsOf(todo[t]) \subseteq TermsOf(todo'[t]) \cup {}
    OBVIOUS
  <2>2. Ended(todo) \subseteq Ended(todo') \cup {} /\ Terminated(todo) \subseteq Terminated(todo') \cup {}
    BY ONLY <2>1, SubReleased
  <2> QED BY <2>2
<1>3. Ended(todo') \subseteq Ended(todo) \cup {l} /\ Terminated(todo') \subseteq Terminated(todo) \cup {<<s, l>>}
  <2>1. /\ \A t \in Tasks : EndsOf(todo'[t]) \subseteq EndsOf(todo[t]) \cup {l}
        /\ \A t \in Tasks : TermsOf(todo'[t]) \subseteq TermsOf(todo[t]) \cup {<<s, l>>}
    OBVIOUS
  <2> QED BY ONLY <2>1, SubReleased
<1>4. l \in Ended(todo') \/ <<s, l>> \in Terminated(todo')
  BY DEF Ended, Terminated
<1>5. /\ AggInv(agg) /\ HoldSets(C, Ended(todo), Terminated(todo))
      /\ HoldAgg(agg, C, Ended(todo), Terminated(todo))
  BY HoldFacts
<1> HIDE DEF C
<1>6. PICK F, U : F = Ended(todo') /\ U = Terminated(todo')
  OBVIOUS
<1>7. /\ Ended(todo) \subseteq F /\ F \subseteq Ended(todo) \cup {l}
      /\ Terminated(todo) \subseteq U /\ U \subseteq Terminated(todo) \cup {<<s, l>>}
      /\ l \in F \/ <<s, l>> \in U
  BY <1>2, <1>3, <1>4, <1>6
<1>8. C[c] = {<<s, l>>}
  BY <1>1
<1>9. HoldAgg(agg, [C EXCEPT ![c] = {}], F, U)
  BY ONLY <1>5, <1>7, <1>8, c \in Conns, HoldYielded
<1> QED BY <1>1, <1>6, <1>9 DEF HoldInv

\* What lists of reports say.
LEMMA ReportLists ==
  ASSUME NEW n, NEW s \in Sessions, NEW l \in Minted(n),
         NEW x, x = Do("ended", l), NEW y, y = DoFor("terminated", s, l)
  PROVE  /\ <<x>> \in Seq(Items(n)) /\ <<y>> \in Seq(Items(n)) /\ <<x, y>> \in Seq(Items(n))
         /\ EndsOf(<<x>>) = {l} /\ TermsOf(<<x>>) = {}
         /\ EndsOf(<<y>>) = {} /\ TermsOf(<<y>>) = {<<s, l>>}
         /\ EndsOf(<<x, y>>) = {l} /\ TermsOf(<<x, y>>) = {<<s, l>>}
         /\ Orderly(<<x>>) /\ Orderly(<<x, y>>) /\ ~Admits(<<x>>) /\ ~Admits(<<x, y>>)
         /\ ClaimOf(<<x>>) = {} /\ ClaimOf(<<x, y>>) = {}
<1>1. x \in Items(n) /\ x.op = "ended" /\ x.lease = l
  BY ItemsMade DEF LeaseOps
<1>2. y \in Items(n) /\ y.op = "terminated" /\ y.sid = s /\ y.lease = l
  BY ItemsMade
<1>3. /\ x.op \notin ClaimOps \cup SoloOps \cup LastOps \cup {"admit"}
      /\ y.op \notin ClaimOps \cup SoloOps \cup LastOps \cup {"admit"}
  BY <1>1, <1>2 DEF ClaimOps, Holding, SoloOps, LastOps
<1>4. /\ <<x>> \in Seq(Items(n)) /\ <<y>> \in Seq(Items(n)) /\ <<x, y>> \in Seq(Items(n))
      /\ Elems(<<x>>) = {x} /\ Elems(<<y>>) = {y} /\ Elems(<<x, y>>) = {x, y}
  <2>1. x \in Items(n) /\ y \in Items(n)
    BY <1>1, <1>2
  <2> QED BY ONLY <2>1, ElemsShort
<1>5. EndsOf(<<x>>) = {l} /\ TermsOf(<<x>>) = {}
  BY <1>1, <1>4 DEF EndsOf, TermsOf
<1>6. EndsOf(<<y>>) = {} /\ TermsOf(<<y>>) = {<<s, l>>}
  BY <1>2, <1>4 DEF EndsOf, TermsOf
<1>7. EndsOf(<<x, y>>) = {l} /\ TermsOf(<<x, y>>) = {<<s, l>>}
  <2>1. {z \in {x, y} : z.op = "ended"} = {x} /\ {z \in {x, y} : z.op = "terminated"} = {y}
    BY <1>1, <1>2
  <2> QED BY <1>1, <1>2, <1>4, <2>1 DEF EndsOf, TermsOf
<1>8. Orderly(<<x>>) /\ ~Admits(<<x>>) /\ ~Admits(<<x, y>>)
  BY <1>3, <1>4, OrderlyOne DEF Admits
<1>9. Orderly(<<x, y>>)
  <2>1. DOMAIN <<x, y>> = {1, 2} /\ <<x, y>>[1] = x /\ <<x, y>>[2] = y
    OBVIOUS
  <2> QED BY <1>3, <2>1 DEF Orderly
<1>10. ClaimOf(<<x>>) = {} /\ ClaimOf(<<x, y>>) = {}
  <2>1. Head(<<x>>) = x /\ Head(<<x, y>>) = x
    OBVIOUS
  <2> QED BY <1>3, <2>1 DEF ClaimOf
<1> QED BY <1>1, <1>2, <1>4, <1>5, <1>6, <1>7, <1>8, <1>9, <1>10

\* activate() finds no target: the session ends; the target dies: both ends do.
LEMMA YieldStep ==
  ASSUME IInv, UNCHANGED <<agg, io, fresh, now>>,
         leases' \in [LeaseIds -> LeaseStates], aborted' \subseteq Aborts,
         NEW c \in Conns, todo[c] # <<>>, Item(c).op \in ClaimOps,
         NEW q, q \in {<<Do("ended", Item(c).lease)>>,
                       <<Do("ended", Item(c).lease),
                         DoFor("terminated", Item(c).sid, Item(c).lease)>>},
         todo' = Then(c, q)
  PROVE  IInv'
<1> DEFINE n == agg.nextLease
<1>1. PICK s \in Sessions, l \in Minted(n) : s = Item(c).sid /\ l = Item(c).lease
  BY TaskNames, ItemKnown
<1>2. /\ q \in Seq(Items(n)) /\ Orderly(q) /\ ~Admits(q) /\ ClaimOf(q) = {} /\ EndsOf(q) = {l}
      /\ TermsOf(q) \subseteq {<<s, l>>}
  <2>1. PICK x, y : x = Do("ended", l) /\ y = DoFor("terminated", s, l)
    OBVIOUS
  <2>2. q = <<x>> \/ q = <<x, y>>
    BY <1>1, <2>1
  <2>5. /\ <<x>> \in Seq(Items(n)) /\ <<x, y>> \in Seq(Items(n))
        /\ EndsOf(<<x>>) = {l} /\ TermsOf(<<x>>) = {}
        /\ EndsOf(<<x, y>>) = {l} /\ TermsOf(<<x, y>>) = {<<s, l>>}
        /\ Orderly(<<x>>) /\ Orderly(<<x, y>>) /\ ~Admits(<<x>>) /\ ~Admits(<<x, y>>)
        /\ ClaimOf(<<x>>) = {} /\ ClaimOf(<<x, y>>) = {}
    BY ONLY s \in Sessions, l \in Minted(n), <2>1, ReportLists
  <2>3. CASE q = <<x>>
    BY <2>3, <2>5
  <2>4. CASE q = <<x, y>>
    BY <2>4, <2>5
  <2> QED BY <2>2, <2>3, <2>4
<1>3. Item(c).op \in SoloOps \cup LastOps /\ Item(c).op \notin {"ended", "terminated"}
  BY DEF ClaimOps, Holding, SoloOps
<1>4. Then(c, q) = [todo EXCEPT ![c] = q] /\ Elems(todo[c]) = {Item(c)}
  BY <1>2, <1>3, ThenLast
<1>5. EndsOf(todo[c]) = {} /\ TermsOf(todo[c]) = {}
  BY <1>3, <1>4 DEF EndsOf, TermsOf
<1>6. /\ todo' \in [Tasks -> Seq(Items(n))] /\ todo'[c] = q /\ c \in Tasks
      /\ \A w \in Tasks \ {c} : todo'[w] = todo[w]
      /\ \A d \in Conns \ {c} : todo'[d] = todo[d]
      /\ Moves(todo, todo')
  BY <1>2, <1>4, Placed
<1>7. HoldInv'
  <2>1. \A t \in Tasks : /\ EndsOf(todo[t]) \subseteq EndsOf(todo'[t])
                         /\ EndsOf(todo'[t]) \subseteq EndsOf(todo[t]) \cup {l}
                         /\ TermsOf(todo[t]) \subseteq TermsOf(todo'[t])
                         /\ TermsOf(todo'[t]) \subseteq TermsOf(todo[t]) \cup {<<s, l>>}
    BY <1>2, <1>5, <1>6
  <2>2. ClaimOf(todo'[c]) = {} /\ l \in EndsOf(todo'[c]) /\ agg' = agg /\ c \in Tasks
    BY <1>2, <1>6
  <2>3. \A d \in Conns \ {c} : todo'[d] = todo[d]
    BY <1>6
  <2> QED BY <1>1, <2>1, <2>2, <2>3, YieldHold
<1>8. now' \in Nat /\ fresh' \subseteq fresh
  BY DEF IInv, TypeInv
<1>9. /\ AggInv(agg') /\ io' \in [Sessions -> IoSlots] /\ SocketMapMatchesIndex'
      /\ Owes(agg') <= Owes(agg) /\ agg'.nextLease = n /\ n \in Nat
  BY CoreKept
<1> QED BY <1>6, <1>7, <1>8, <1>9, Step

\* StartRelay in activate(), and a target that dies.
LEMMA TargetStep ==
  ASSUME IInv, NEW c \in Conns, TakesTarget(c) \/ TargetDies(c)
  PROVE  IInv'
<1>1. CASE TargetDies(c)
  <2>1. /\ UNCHANGED <<agg, io, fresh, now, leases, aborted>> /\ todo[c] # <<>>
        /\ Item(c).op \in ClaimOps
        /\ todo' = Then(c, <<Do("ended", Item(c).lease),
                             DoFor("terminated", Item(c).sid, Item(c).lease)>>)
    BY <1>1 DEF TargetDies, At, Item, ClaimOps, Holding
  <2>2. leases' \in [LeaseIds -> LeaseStates] /\ aborted' \subseteq Aborts
    BY <2>1 DEF IInv, TypeInv
  <2> QED BY <2>1, <2>2, YieldStep
<1>2. CASE TakesTarget(c)
  <2> DEFINE l == Item(c).lease
             s == Item(c).sid
  <2>1. /\ UNCHANGED <<agg, io, fresh, now>> /\ todo[c] # <<>> /\ Item(c).op \in ClaimOps
        /\ leases' = [leases EXCEPT ![l] = "none"]
        /\ aborted' \subseteq aborted \cup {Timer(l), Connect(l)} \/ leases[l] \notin LeaseStates
        /\ \/ todo' = Then(c, <<DoFor("begin", s, l)>>)
           \/ todo' = Then(c, <<Do("ended", l)>>)
    BY <1>2 DEF TakesTarget, At, Item, ClaimOps, LeaseStates
  <2>2. l \in LeaseIds
    BY <2>1, TaskNames, ItemKnown
  <2>3. leases' \in [LeaseIds -> LeaseStates] /\ aborted' \subseteq Aborts
    BY <2>1, <2>2, TaskNames DEF IInv, TypeInv, LeaseStates
  <2>4. CASE todo' = Then(c, <<DoFor("begin", s, l)>>)
    <3>1. "begin" \in ClaimOps
      BY DEF ClaimOps, Holding
    <3> QED BY <2>1, <2>3, <2>4, <3>1, KeepsHold
  <2>5. CASE todo' = Then(c, <<Do("ended", l)>>)
    BY <2>1, <2>3, <2>5, YieldStep
  <2> QED BY <2>1, <2>4, <2>5
<1> QED BY <1>1, <1>2

\* A task that panics: its guards' Drop fallbacks report what it held.
LEMMA PanicsStep ==
  ASSUME IInv, NEW c \in Conns, Panics(c)
  PROVE  IInv'
<1> DEFINE n == agg.nextLease
<1>0. /\ UNCHANGED <<agg, io, fresh, now, leases, aborted>> /\ todo[c] # <<>>
      /\ Item(c).op \in ClaimOps
  BY DEF Panics, At, Item, ClaimOps, Holding
<1>1. PICK s \in Sessions, l \in Minted(n) : s = Item(c).sid /\ l = Item(c).lease
  BY <1>0, TaskNames, ItemKnown
<1>2. PICK x, y : x = Do("ended", l) /\ y = DoFor("terminated", s, l)
  OBVIOUS
<1> DEFINE L == LeaseDrop(c)
           D == EntryDrop(c)
<1>3. \/ todo' = [[[todo EXCEPT ![c] = <<>>] EXCEPT ![D] = <<y>>] EXCEPT ![L] = <<x>>]
      \/ todo' = [[todo EXCEPT ![c] = <<>>] EXCEPT ![D] = <<y>>]
  BY <1>1, <1>2 DEF Panics, Ends
<1>4. /\ c \in Tasks /\ L \in Tasks /\ D \in Tasks /\ c # L /\ c # D /\ L # D
      /\ c \notin Aborts /\ L \notin Aborts /\ D \notin Aborts /\ L \notin Conns /\ D \notin Conns
  BY TaskNames
<1>5. /\ todo \in [Tasks -> Seq(Items(n))] /\ todo[L] = <<>> /\ todo[D] = <<>> /\ ~Asked(c)
  BY <1>0 DEF IInv, TypeInv, TaskInv
<1>6. /\ <<x>> \in Seq(Items(n)) /\ <<y>> \in Seq(Items(n)) /\ <<>> \in Seq(Items(n))
      /\ EndsOf(<<x>>) = {l} /\ TermsOf(<<x>>) = {}
      /\ EndsOf(<<y>>) = {} /\ TermsOf(<<y>>) = {<<s, l>>}
  <2>1. <<>> \in Seq(Items(n))
    OBVIOUS
  <2>2. /\ <<x>> \in Seq(Items(n)) /\ <<y>> \in Seq(Items(n)) /\ <<x, y>> \in Seq(Items(n))
        /\ EndsOf(<<x>>) = {l} /\ TermsOf(<<x>>) = {}
        /\ EndsOf(<<y>>) = {} /\ TermsOf(<<y>>) = {<<s, l>>}
        /\ EndsOf(<<x, y>>) = {l} /\ TermsOf(<<x, y>>) = {<<s, l>>}
    <3>1. PICK m : m = n
      OBVIOUS
    <3>2. x = Do("ended", l) /\ y = DoFor("terminated", s, l) /\ s \in Sessions /\ l \in Minted(m)
      BY <1>2, <3>1
    <3>3. /\ <<x>> \in Seq(Items(m)) /\ <<y>> \in Seq(Items(m)) /\ <<x, y>> \in Seq(Items(m))
          /\ EndsOf(<<x>>) = {l} /\ TermsOf(<<x>>) = {}
          /\ EndsOf(<<y>>) = {} /\ TermsOf(<<y>>) = {<<s, l>>}
          /\ EndsOf(<<x, y>>) = {l} /\ TermsOf(<<x, y>>) = {<<s, l>>}
          /\ Orderly(<<x>>) /\ Orderly(<<x, y>>) /\ ~Admits(<<x>>) /\ ~Admits(<<x, y>>)
          /\ ClaimOf(<<x>>) = {} /\ ClaimOf(<<x, y>>) = {}
      BY ONLY <3>2, ReportLists
    <3> QED BY <3>1, <3>3
  <2> QED BY <2>1, <2>2
<1>7. /\ todo' \in [Tasks -> Seq(Items(n))] /\ todo'[c] = <<>> /\ todo'[D] = <<y>>
      /\ todo'[L] = <<x>> \/ todo'[L] = todo[L]
      /\ \A w \in Tasks \ {c, L, D} : todo'[w] = todo[w]
  BY <1>3, <1>4, <1>5, <1>6
<1>8. Elems(<<>>) = {} /\ Orderly(<<>>) /\ ~Admits(<<>>) /\ ClaimOf(<<>>) = {}
  BY NoItem
<1>9. EndsOf(<<>>) = {} /\ TermsOf(<<>>) = {}
  BY <1>8 DEF EndsOf, TermsOf
<1>10. EndsOf(todo[c]) = {} /\ TermsOf(todo[c]) = {}
  <2>1. Item(c).op \in SoloOps \cup LastOps /\ Item(c).op \notin {"ended", "terminated"}
    BY <1>0 DEF ClaimOps, Holding, SoloOps
  <2>2. Elems(todo[c]) = {Item(c)}
    BY <1>0, <1>6, <2>1, ThenLast
  <2> QED BY <2>1, <2>2 DEF EndsOf, TermsOf
<1>11. \A d \in Conns \ {c} : todo'[d] = todo[d]
  BY <1>4, <1>7, TaskNames
<1>12. HoldInv'
  <2>1. \A t \in Tasks : /\ EndsOf(todo[t]) \subseteq EndsOf(todo'[t])
                         /\ EndsOf(todo'[t]) \subseteq EndsOf(todo[t]) \cup {l}
                         /\ TermsOf(todo[t]) \subseteq TermsOf(todo'[t])
                         /\ TermsOf(todo'[t]) \subseteq TermsOf(todo[t]) \cup {<<s, l>>}
    BY <1>5, <1>6, <1>7, <1>9, <1>10
  <2>2. ClaimOf(todo'[c]) = {} /\ <<s, l>> \in TermsOf(todo'[D]) /\ agg' = agg /\ D \in Tasks
    BY <1>0, <1>4, <1>6, <1>7, <1>8
  <2> QED BY <1>0, <1>1, <1>11, <2>1, <2>2, YieldHold
<1>13. Moves(todo, todo')
  <2>1. \A d \in Conns : \/ todo'[d] = todo[d]
                         \/ /\ todo[d] # <<>> /\ Orderly(todo'[d])
                            /\ Admits(todo'[d]) => Admits(todo[d])
    BY <1>0, <1>7, <1>8, <1>11
  <2>2. \A t \in Aborts : todo'[t] = todo[t]
    BY <1>4, <1>7, TaskNames
  <2>3. ASSUME NEW d \in Conns, NEW t \in {LeaseDrop(d), EntryDrop(d)}
        PROVE  todo'[t] = todo[t] \/ (todo[d] # <<>> /\ todo'[d] = <<>>)
    <3>1. CASE d = c
      BY <1>0, <1>7, <3>1
    <3>2. CASE d # c
      <4>1. t \in Tasks /\ t # c /\ t # L /\ t # D
        BY <3>2, TaskNames
      <4> QED BY <1>7, <4>1
    <3> QED BY <3>1, <3>2
  <2>4. \A k \in LeaseIds : \A t \in {Connect(k), Timer(k)} : todo'[t] = todo[t]
    BY <2>2, TaskNames
  <2> QED BY <2>1, <2>2, <2>3, <2>4 DEF Moves
<1>14. /\ now' \in Nat /\ fresh' \subseteq fresh
       /\ leases' \in [LeaseIds -> LeaseStates] /\ aborted' \subseteq Aborts
  BY <1>0 DEF IInv, TypeInv
<1>15. /\ AggInv(agg') /\ io' \in [Sessions -> IoSlots] /\ SocketMapMatchesIndex'
       /\ Owes(agg') <= Owes(agg) /\ agg'.nextLease = n /\ n \in Nat
  BY <1>0, CoreKept
<1> QED BY <1>7, <1>12, <1>13, <1>14, <1>15, Step

\* A report is made, and what it was about has left the aggregate.
LEMMA ReportedHold ==
  ASSUME IInv, AggInv(agg'), NEW t \in Tasks, todo[t] # <<>>,
         NEW l, NEW s, \/ Item(t).op = "ended" /\ Item(t).lease = l
                       \/ Item(t).op = "terminated" /\ Item(t).lease = l /\ Item(t).sid = s,
         todo' = Then(t, <<>>),
         \/ s \in Sessions /\ IsCurrent(agg, s, l) /\ Drops(agg, agg', s)
         \/ /\ agg' = agg
            /\ \A u \in Sessions : agg.slots[u].st = "established" => agg.slots[u].lease # l
  PROVE  HoldInv' /\ Moves(todo, todo') /\ todo' \in [Tasks -> Seq(Items(agg.nextLease))]
<1> DEFINE n == agg.nextLease
<1>1. AggInv(agg) /\ TypeInv /\ n \in Nat
  BY Fields DEF IInv
<1>2. todo \in [Tasks -> Seq(Items(n))] /\ todo[t] \in Seq(Items(n)) /\ <<>> \in Seq(Items(n))
  BY <1>1 DEF TypeInv
<1>3. PICK q \in Seq(Items(n)) : q = todo[t]
  BY <1>2
<1>4. PICK p \in Seq(Items(n)) : p = <<>> \o Tail(q)
  <2>1. q # <<>> /\ q \in Seq(Items(n)) /\ <<>> \in Seq(Items(n))
    BY <1>2, <1>3
  <2>2. <<>> \o Tail(q) \in Seq(Items(n))
    BY ONLY <2>1, ThenList
  <2> QED BY <2>2
<1>5. Elems(q) = {Item(t)} \cup Elems(p)
  <2>1. p = Tail(q) /\ q # <<>> /\ Head(q) = Item(t)
    BY <1>3, <1>4 DEF Item
  <2>2. Elems(q) = {Head(q)} \cup Elems(Tail(q))
    BY <1>2, <2>1, ThenList
  <2> QED BY <2>1, <2>2
<1>6. /\ todo' \in [Tasks -> Seq(Items(n))] /\ todo'[t] = p
      /\ \A w \in Tasks \ {t} : todo'[w] = todo[w]
  BY <1>2, <1>3, <1>4 DEF Then
<1>7. t \in Conns => Orderly(p) /\ ~Admits(p) /\ ClaimOf(p) = {}
  <2>1. \A x \in Elems(<<>>) : x.op \notin SoloOps \cup LastOps \cup {"admit"}
    BY DEF Elems
  <2>2. t \in Conns => Orderly(q)
    BY <1>3 DEF IInv, TaskInv
  <2> QED BY <1>2, <1>3, <1>4, <2>1, <2>2, OrderlyThen
<1>8. t \notin Aborts
  <2>1. Item(t) \in Elems(todo[t])
    BY <1>3, <1>5
  <2> QED BY <2>1 DEF IInv, TaskInv, Harmless
<1>9. Moves(todo, todo')
  BY <1>6, <1>7, <1>8, OneMoves
<1>10. Claims(todo') = Claims(todo)
  <2>1. ClaimOf(q) = {}
    BY <1>3 DEF ClaimOf, Item, ClaimOps, Holding
  <2>2. \A d \in Conns : ClaimOf(todo'[d]) = ClaimOf(todo[d])
    BY <1>3, <1>6, <1>7, <2>1, TaskNames
  <2> QED BY <2>2 DEF Claims
<1>11. /\ EndsOf(p) \subseteq EndsOf(q) /\ EndsOf(q) \subseteq EndsOf(p) \cup {l}
       /\ TermsOf(p) \subseteq TermsOf(q) /\ TermsOf(q) \subseteq TermsOf(p) \cup {<<s, l>>}
       /\ Item(t).op = "ended" => TermsOf(q) = TermsOf(p) /\ l \in EndsOf(q)
       /\ Item(t).op = "terminated" => <<s, l>> \in TermsOf(q)
  BY <1>5 DEF EndsOf, TermsOf
<1>12. Ended(todo') \subseteq Ended(todo) /\ Terminated(todo') \subseteq Terminated(todo)
  <2>1. /\ \A w \in Tasks : EndsOf(todo'[w]) \subseteq EndsOf(todo[w]) \cup {}
        /\ \A w \in Tasks : TermsOf(todo'[w]) \subseteq TermsOf(todo[w]) \cup {}
    BY <1>3, <1>6, <1>11
  <2>2. Ended(todo') \subseteq Ended(todo) \cup {} /\ Terminated(todo') \subseteq Terminated(todo) \cup {}
    BY ONLY <2>1, SubReleased
  <2> QED BY <2>2
<1>13. Ended(todo) \subseteq Ended(todo') \cup {l} /\ Terminated(todo) \subseteq Terminated(todo') \cup {<<s, l>>}
  <2>1. /\ \A w \in Tasks : EndsOf(todo[w]) \subseteq EndsOf(todo'[w]) \cup {l}
        /\ \A w \in Tasks : TermsOf(todo[w]) \subseteq TermsOf(todo'[w]) \cup {<<s, l>>}
    BY <1>3, <1>6, <1>11
  <2> QED BY ONLY <2>1, SubReleased
<1>14. PICK C, E, T, F, U : /\ C = Claims(todo) /\ E = Ended(todo) /\ T = Terminated(todo)
                            /\ F = Ended(todo') /\ U = Terminated(todo')
  OBVIOUS
<1>15. /\ HoldSets(C, E, T) /\ HoldAgg(agg, C, E, T)
       /\ F \subseteq E /\ U \subseteq T /\ E \subseteq F \cup {l} /\ T \subseteq U \cup {<<s, l>>}
  BY <1>12, <1>13, <1>14, HoldFacts
<1>16. CASE s \in Sessions /\ IsCurrent(agg, s, l) /\ Drops(agg, agg', s)
  <2>1. l \in E \/ <<s, l>> \in T
    BY <1>3, <1>11, <1>14 DEF Ended, Terminated
  <2>2. Released(agg, C, l)
    <3>1. <<s, l>>[2] = l
      OBVIOUS
    <3> QED BY <1>15, <2>1, <3>1 DEF HoldAgg
  <2>3. \A d \in Conns : C[d] = {x \in C[d] : x[2] # l}
    BY <2>2 DEF Released
  <2>4. agg.index[s].lease = l
    BY <1>16 DEF IsCurrent
  <2>5. PICK b : b = agg'
    OBVIOUS
  <2>6. AggInv(b) /\ Drops(agg, b, s) /\ s \in Sessions
    BY <1>16, <2>5
  <2>7. HoldAgg(b, C, F, U)
    <3>1. AggInv(agg) /\ AggInv(b) /\ s \in Sessions /\ Drops(agg, b, s) /\ agg.index[s].lease = l
      BY <1>1, <2>4, <2>6
    <3>2. HoldSets(C, E, T) /\ HoldAgg(agg, C, E, T)
      BY <1>15
    <3>3. F \subseteq E /\ E \subseteq F \cup {l} /\ U \subseteq T /\ T \subseteq U \cup {<<s, l>>}
      BY <1>15
    <3> QED BY ONLY <2>3, <3>1, <3>2, <3>3, HoldDropped
  <2>8. HoldInv'
    BY <1>10, <1>14, <2>5, <2>7 DEF HoldInv
  <2> QED BY <1>6, <1>9, <2>8
<1>17. CASE /\ agg' = agg
            /\ \A u \in Sessions : agg.slots[u].st = "established" => agg.slots[u].lease # l
  <2>1. \A x \in T \ U : x[2] = l
    <3>1. <<s, l>>[2] = l
      OBVIOUS
    <3> QED BY <1>15, <3>1
  <2>2. \A u \in Sessions : agg.slots[u].st = "established" => agg.slots[u].lease # l
    BY <1>17
  <2>3. HoldAgg(agg, C, F, U)
    BY ONLY <1>1, <1>15, <2>1, <2>2, HoldGone
  <2>4. HoldInv'
    BY <1>10, <1>14, <1>17, <2>3 DEF HoldInv
  <2> QED BY <1>6, <1>9, <2>4
<1> QED BY <1>16, <1>17

\* relay_ended and relay_terminated.
LEMMA ReleaseStep ==
  ASSUME IInv, NEW t \in Tasks, ReportsRelayEnded(t) \/ ReportsTerminated(t)
  PROVE  IInv'
<1>1. PICK l : l = Item(t).lease
  OBVIOUS
<1>2. ASSUME NEW r, ApplyWith(r), todo' = Then(t, r.out), AggInv(r.agg), Follows(agg, r),
             r.out = <<>>, Owes(r.agg) <= Owes(agg), todo[t] # <<>>,
             UNCHANGED <<leases, aborted, fresh, now>>, NEW s,
             \/ Item(t).op = "ended"
             \/ Item(t).op = "terminated" /\ Item(t).sid = s,
             \/ s \in Sessions /\ IsCurrent(agg, s, l) /\ Drops(agg, r.agg, s)
             \/ /\ r.agg = agg
                /\ \A u \in Sessions : agg.slots[u].st = "established" => agg.slots[u].lease # l
      PROVE  IInv'
  <2>1. agg' = r.agg
    BY <1>2 DEF ApplyWith
  <2>2. AggInv(agg') /\ io' \in [Sessions -> IoSlots] /\ SocketMapMatchesIndex'
    BY <1>2, ApplyFollows DEF IInv, TypeInv
  <2>3. HoldInv' /\ Moves(todo, todo') /\ todo' \in [Tasks -> Seq(Items(agg.nextLease))]
    BY <1>1, <1>2, <2>1, <2>2, ReportedHold
  <2>4. agg'.nextLease = agg.nextLease /\ agg.nextLease \in Nat
    BY <1>2, <2>1, Fields DEF Drops, Elsewhere, IInv
  <2>5. /\ now' \in Nat /\ aborted' \subseteq Aborts /\ fresh' \subseteq fresh
        /\ leases' \in [LeaseIds -> LeaseStates] /\ Owes(agg') <= Owes(agg)
    BY <1>2, <2>1 DEF IInv, TypeInv
  <2> QED BY <2>2, <2>3, <2>4, <2>5, Step
<1>3. ASSUME NEW u \in Sessions, agg.slots[u].st = "established", agg.slots[u].lease = l
      PROVE  IsCurrent(agg, u, l)
  BY <1>3 DEF IInv, AggInv, IndexMatches, IsCurrent
<1>4. CASE ReportsRelayEnded(t)
  <2>1. PICK r : r = OnRelayEnded(agg, l)
    OBVIOUS
  <2>2. /\ ApplyWith(r) /\ todo' = Then(t, r.out) /\ todo[t] # <<>> /\ Item(t).op = "ended"
        /\ UNCHANGED <<leases, aborted, fresh, now>>
    BY <1>1, <1>4, <2>1 DEF ReportsRelayEnded, At, Item
  <2>3. /\ AggInv(r.agg) /\ Follows(agg, r) /\ r.out = <<>> /\ Owes(r.agg) <= Owes(agg)
        /\ \/ \E s \in Sessions : IsCurrent(agg, s, l) /\ Drops(agg, r.agg, s)
           \/ (\A s \in Sessions : ~IsCurrent(agg, s, l)) /\ r.agg = agg
    BY <2>1, RelayEndedDrops DEF IInv
  <2>4. PICK s : \/ s \in Sessions /\ IsCurrent(agg, s, l) /\ Drops(agg, r.agg, s)
                 \/ (\A u \in Sessions : ~IsCurrent(agg, u, l)) /\ r.agg = agg
    BY <2>3
  <2> QED BY <1>2, <1>3, <2>2, <2>3, <2>4
<1>5. CASE ReportsTerminated(t)
  <2>0. todo[t] # <<>> /\ Item(t).op = "terminated"
    BY <1>5 DEF ReportsTerminated, At, Item
  <2>1. PICK s \in Sessions : s = Item(t).sid
    BY <2>0, ItemKnown
  <2>2. PICK r : r = OnRelayTerminated(agg, s, l)
    OBVIOUS
  <2>3. /\ ApplyWith(r) /\ todo' = Then(t, r.out) /\ UNCHANGED <<leases, aborted, fresh, now>>
    BY <1>1, <1>5, <2>1, <2>2 DEF ReportsTerminated
  <2>4. /\ AggInv(r.agg) /\ Follows(agg, r) /\ r.out = <<>> /\ Owes(r.agg) <= Owes(agg)
        /\ IF IsCurrent(agg, s, l) THEN Drops(agg, r.agg, s) ELSE r.agg = agg
    BY <2>2, RelayTerminatedDrops DEF IInv
  <2>5. ASSUME NEW u \in Sessions, agg.slots[u].st = "established", agg.slots[u].lease = l
        PROVE  IsCurrent(agg, s, l)
    <3>0. PICK x : x = <<s, l>>
      OBVIOUS
    <3>1. x = <<s, l>> /\ x[1] = s /\ x[2] = l
      BY <3>0
    <3>2. x \in Terminated(todo)
      <4>1. todo[t] \in Seq(Items(agg.nextLease))
        BY <2>0, ItemKnown
      <4>2. Item(t) \in Elems(todo[t])
        BY <2>0, <4>1 DEF Item, Elems
      <4>3. x \in TermsOf(todo[t])
        BY <1>1, <2>0, <2>1, <3>1, <4>2 DEF TermsOf
      <4> QED BY <4>3 DEF Terminated
    <3>3. u = s
      BY <2>5, <3>1, <3>2, HoldFacts DEF HoldAgg
    <3> QED BY <1>3, <2>5, <3>3
  <2>6. CASE IsCurrent(agg, s, l)
    BY <1>2, <2>0, <2>1, <2>3, <2>4, <2>6
  <2>7. CASE ~IsCurrent(agg, s, l)
    BY <1>2, <2>0, <2>1, <2>3, <2>4, <2>5, <2>7
  <2> QED BY <2>6, <2>7
<1> QED BY <1>4, <1>5

\* park(): the relay's socket goes back to the socket map, or, when no replay is
\* possible any more, the session leaves the aggregate.  No park is an orphan.
LEMMA ParksStep ==
  ASSUME IInv, NEW c \in Conns, Parks(c)
  PROVE  IInv'
<1> DEFINE n == agg.nextLease
<1>0. todo[c] # <<>> /\ Item(c).op = "park" /\ UNCHANGED <<leases, aborted, fresh, now>>
  BY DEF Parks, At, Item
<1>1. PICK s \in Sessions, l \in Minted(n) : s = Item(c).sid /\ l = Item(c).lease
  <2>1. Item(c).op \in ClaimOps
    BY <1>0 DEF ClaimOps, Holding
  <2> QED BY <1>0, <2>1, TaskNames, ItemKnown
<1>2. PICK C, E, T : C = Claims(todo) /\ E = Ended(todo) /\ T = Terminated(todo)
  OBVIOUS
<1>3. AggInv(agg) /\ HoldSets(C, E, T) /\ HoldAgg(agg, C, E, T) /\ n \in Nat /\ now \in Nat
  BY <1>2, HoldFacts, Fields DEF IInv, TypeInv
<1>4. C[c] = {<<s, l>>}
  BY <1>0, <1>1, <1>2 DEF Claims, ClaimOf, ClaimOps, Holding, Item
<1>5. /\ agg.index[s].present /\ agg.index[s].lease = l
      /\ agg.slots[s].st = "established" /\ agg.slots[s].lease = l
  <2>1. PICK x : x = <<s, l>>
    OBVIOUS
  <2>2. x \in C[c] /\ x[1] = s /\ x[2] = l
    BY <1>4, <2>1
  <2>3. /\ agg.index[x[1]].present /\ agg.index[x[1]].lease = x[2]
        /\ agg.slots[x[1]].st = "established" /\ agg.slots[x[1]].lease = x[2]
    BY ONLY <1>3, <2>2, c \in Conns, ClaimFacts
  <2> QED BY <2>2, <2>3
<1>6. IsCurrent(agg, s, l)
  BY <1>5 DEF IsCurrent
<1>7. PICK r : r = OnParked(agg, s, l, now)
  OBVIOUS
<1>8. /\ AggInv(r.agg) /\ Follows(agg, r) /\ r.out = <<>> /\ Owes(r.agg) <= Owes(agg)
      /\ \/ Drops(agg, r.agg, s)
         \/ /\ Elsewhere(agg, r.agg, s) /\ r.agg.slots[s] = agg.slots[s]
            /\ r.agg.index[s].present /\ r.agg.index[s].lease = l /\ r.agg.index[s].parked
      /\ \A fx \in r.io : fx.sid = s /\ fx.op # "granted" /\ (fx.op = "store" => fx.lease = l)
  BY <1>3, <1>6, <1>7, ParkedParks
<1>9. ~Orphaned(s, r)
  <2>1. io[s].present /\ io[s].lease = l
    BY <1>5 DEF IInv, SocketMapMatchesIndex
  <2> QED BY <1>8, <2>1 DEF Orphaned, Mine
<1>10. ApplyWith(r) /\ todo' = Then(c, r.out \o <<>>) /\ agg' = r.agg
  BY <1>1, <1>7, <1>9 DEF Parks, ApplyWith
<1>11. /\ todo' = [todo EXCEPT ![c] = <<>>] /\ Elems(todo[c]) = {Item(c)}
  <2>1. <<>> \o <<>> = <<>> /\ <<>> \in Seq(Items(n))
    OBVIOUS
  <2>2. todo' = Then(c, <<>>)
    BY <1>8, <1>10, <2>1
  <2>3. Item(c).op \in SoloOps \cup LastOps
    BY <1>0 DEF SoloOps, ClaimOps, Holding
  <2> QED BY <1>0, <2>1, <2>2, <2>3, ThenLast
<1>12. /\ Elems(<<>>) = {} /\ Orderly(<<>>) /\ ~Admits(<<>>) /\ ClaimOf(<<>>) = {}
       /\ <<>> \in Seq(Items(n))
  BY NoItem
<1>13. /\ todo' \in [Tasks -> Seq(Items(n))] /\ todo'[c] = <<>>
       /\ \A w \in Tasks \ {c} : todo'[w] = todo[w]
       /\ \A d \in Conns \ {c} : todo'[d] = todo[d]
       /\ Moves(todo, todo')
  BY <1>0, <1>11, <1>12, Placed
<1>14. Ended(todo') = E /\ Terminated(todo') = T
  <2>1. /\ EndsOf(<<>>) = {} /\ TermsOf(<<>>) = {}
        /\ EndsOf(todo[c]) = {} /\ TermsOf(todo[c]) = {}
    BY <1>0, <1>11, <1>12 DEF EndsOf, TermsOf
  <2>2. \A w \in Tasks : EndsOf(todo'[w]) = EndsOf(todo[w]) /\ TermsOf(todo'[w]) = TermsOf(todo[w])
    BY <1>13, <2>1
  <2> QED BY <1>2, <2>2 DEF Ended, Terminated
<1>15. PICK D : D = [C EXCEPT ![c] = {}]
  OBVIOUS
<1>16. Claims(todo') = D
  <2>1. Claims(todo') = [Claims(todo) EXCEPT ![c] = ClaimOf(todo'[c])]
    BY <1>13 DEF Claims
  <2> QED BY <1>2, <1>12, <1>13, <1>15, <2>1
<1>17. PICK b : b = r.agg
  OBVIOUS
<1>18. HoldAgg(b, D, E, T)
  <2>1. CASE Drops(agg, r.agg, s)
    <3>1. \A d \in Conns : D[d] = {x \in C[d] : x[2] # l}
      <4>1. D[c] = {} /\ \A d \in Conns \ {c} : D[d] = C[d]
        BY <1>3, <1>15 DEF HoldSets
      <4>2. {x \in C[c] : x[2] # l} = {}
        BY <1>4
      <4>3. ASSUME NEW d \in Conns \ {c}, NEW x \in C[d] PROVE x[2] # l
        <5>1. PICK y : y = <<s, l>>
          OBVIOUS
        <5>2. y \in C[c] /\ y[1] = s
          BY <1>4, <5>1
        <5>3. x[1] # s
          BY <1>3, <4>3, <5>2 DEF HoldAgg
        <5>4. /\ x[1] \in Sessions /\ agg.slots[x[1]].st = "established"
              /\ agg.slots[x[1]].lease = x[2]
          BY ONLY <1>3, d \in Conns \ {c}, x \in C[d], ClaimFacts
        <5> QED BY <1>3, <1>5, <5>3, <5>4 DEF AggInv, LeasesDistinct, Occupied
      <4> QED BY <4>1, <4>2, <4>3
    <3>2. AggInv(agg) /\ AggInv(b) /\ Drops(agg, b, s) /\ agg.index[s].lease = l
      BY <1>3, <1>5, <1>8, <1>17, <2>1
    <3>3. HoldSets(C, E, T) /\ HoldAgg(agg, C, E, T)
      BY <1>3
    <3>4. E \subseteq E /\ E \subseteq E \cup {l} /\ T \subseteq T /\ T \subseteq T \cup {<<s, l>>}
      OBVIOUS
    <3> QED BY ONLY <3>1, <3>2, <3>3, <3>4, s \in Sessions, HoldDropped
  <2>2. CASE /\ Elsewhere(agg, r.agg, s) /\ r.agg.slots[s] = agg.slots[s]
             /\ r.agg.index[s].present /\ r.agg.index[s].lease = l /\ r.agg.index[s].parked
    <3>1. /\ AggInv(agg) /\ AggInv(b) /\ Elsewhere(agg, b, s) /\ b.slots[s] = agg.slots[s]
          /\ Holds(b.index[s], l) /\ b.index[s].parked
      BY <1>3, <1>8, <1>17, <2>2 DEF Holds
    <3>2. HoldSets(C, E, T) /\ HoldAgg(agg, C, E, T) /\ C[c] = {<<s, l>>} /\ c \in Conns
      BY <1>3, <1>4
    <3>3. HoldAgg(b, [C EXCEPT ![c] = {}], E, T)
      BY ONLY <3>1, <3>2, HoldParked
    <3> QED BY <1>15, <3>3
  <2> QED BY <1>8, <2>1, <2>2
<1>19. HoldInv'
  BY <1>10, <1>14, <1>16, <1>17, <1>18 DEF HoldInv
<1>20. AggInv(agg') /\ io' \in [Sessions -> IoSlots] /\ SocketMapMatchesIndex'
  BY <1>8, <1>10, ApplyFollows DEF IInv, TypeInv
<1>21. agg'.nextLease = n /\ n \in Nat /\ Owes(agg') <= Owes(agg)
  BY <1>3, <1>8, <1>10 DEF Drops, Elsewhere
<1>22. /\ now' \in Nat /\ aborted' \subseteq Aborts /\ fresh' \subseteq fresh
       /\ leases' \in [LeaseIds -> LeaseStates]
  BY <1>0 DEF IInv, TypeInv
<1> QED BY <1>13, <1>19, <1>20, <1>21, <1>22, Step

\* An aborted task is dropped.
LEMMA DiesStep ==
  ASSUME IInv, NEW t \in Tasks, Dies(t)
  PROVE  IInv'
<1>1. t \in Aborts
  BY DEF Dies, IInv, TypeInv
<1> QED BY <1>1, EndsAlone DEF Dies

-----------------------------------------------------------------------------
(***************************************************************************)
(* The inductive invariant.                                                *)
(***************************************************************************)

\* A new server: no session, no task, no lease.
LEMMA InitInv == Init => IInv
<1> SUFFICES ASSUME Init PROVE IInv
  OBVIOUS
<1>1. agg \in Aggregates
  BY DEF Init, NewAggregate, Aggregates, NoSlot, NoEntry, Slots, SlotStates, Entries
<1>2. /\ \A s \in Sessions : agg.slots[s] = NoSlot /\ agg.index[s] = NoEntry
      /\ Occupied(agg) = {} /\ ClosingSlots(agg) = {} /\ agg.nextLease = 0
  BY DEF Init, NewAggregate, Occupied, ClosingSlots, NoSlot
<1>3. AggInv(agg)
  <2>1. IndexMatches(agg) /\ LeasesDistinct(agg) /\ HolesNotParked(agg)
    BY <1>2 DEF IndexMatches, LeasesDistinct, HolesNotParked, NoSlot, NoEntry
  <2>2. WithinCapacity(agg)
    BY <1>2, FS_EmptySet, MaxSessionsAssumption DEF WithinCapacity, SessionCount
  <2> QED BY <1>1, <2>1, <2>2 DEF AggInv
<1>4. \A t \in Tasks : todo[t] = <<>>
  BY DEF Init
<1>5. /\ Orderly(<<>>) /\ Elems(<<>>) = {} /\ ClaimOf(<<>>) = {} /\ ~Admits(<<>>)
      /\ Harmless(<<>>) /\ <<>> \in Seq(Items(agg.nextLease))
  BY NoItem
<1>6. TypeInv
  <2>1. io \in [Sessions -> IoSlots] /\ leases \in [LeaseIds -> LeaseStates]
    BY DEF Init, NoIo, IoSlots, LeaseStates
  <2>2. todo \in [Tasks -> Seq(Items(agg.nextLease))]
    BY <1>5 DEF Init
  <2>3. \A l \in LeaseIds : todo[Connect(l)] = <<>> /\ todo[Timer(l)] = <<>>
    BY <1>4, TaskNames
  <2> QED BY <2>1, <2>2, <2>3 DEF TypeInv, Init
<1>7. TaskInv
  <2>1. /\ \A c \in Conns : todo[c] = <<>> /\ todo[LeaseDrop(c)] = <<>> /\ todo[EntryDrop(c)] = <<>>
        /\ \A t \in Aborts : todo[t] = <<>>
    BY <1>4, TaskNames
  <2> QED BY <1>5, <2>1 DEF TaskInv
<1>8. CountInv
  <2>1. Owes(agg) = 0
    BY <1>2, FS_EmptySet DEF Owes
  <2>2. Unadmitted \subseteq Attachers
    BY DEF Unadmitted
  <2>3. Cardinality(Unadmitted) <= MaxLeases /\ Cardinality(Unadmitted) \in Nat
    BY <2>2, TasksAssumption, FS_Subset, UnadmittedFinite DEF MaxLeases
  <2> QED BY <2>1, <2>3 DEF CountInv
<1>9. SocketMapMatchesIndex
  BY <1>2 DEF SocketMapMatchesIndex, Init, NoIo, NoEntry
<1>10. HoldInv
  <2>1. \A c \in Conns : Claims(todo)[c] = {}
    BY <1>4, <1>5, TaskNames DEF Claims
  <2>2. EndsOf(<<>>) = {} /\ TermsOf(<<>>) = {}
    BY <1>5 DEF EndsOf, TermsOf
  <2>3. Ended(todo) = {} /\ Terminated(todo) = {}
    BY <1>4, <2>2 DEF Ended, Terminated
  <2>4. \A s \in Sessions : agg.slots[s].st # "established"
    BY <1>2 DEF NoSlot
  <2> QED BY <2>1, <2>3, <2>4 DEF HoldInv, HoldAgg
<1> QED BY <1>3, <1>6, <1>7, <1>8, <1>9, <1>10 DEF IInv

\* Every step of every task, peer and clock keeps the inductive invariant.
LEMMA NextInv == IInv /\ [Next]_vars => IInv'
<1> SUFFICES ASSUME IInv, [Next]_vars PROVE IInv'
  OBVIOUS
<1>1. ASSUME NEW t \in Tasks, EffectStep(t) PROVE IInv'
  <2>1. CASE SendsReady(t) \/ SendsReject(t) \/ Joins(t)
    BY <2>1, DoneStep
  <2>2. CASE StartsConnect(t) \/ ArmsTimer(t)
    BY <2>2, StartsStep
  <2>3. CASE CancelsLease(t)
    BY <2>3, CancelsLeaseStep
  <2>4. CASE ReportsStopped(t)
    BY <2>4, ReportStep
  <2>5. CASE ReportsRelayEnded(t) \/ ReportsTerminated(t)
    BY <2>5, ReleaseStep
  <2>6. CASE Dies(t)
    BY <2>6, DiesStep
  <2> QED BY <1>1, <2>1, <2>2, <2>3, <2>4, <2>5, <2>6 DEF EffectStep
<1>2. ASSUME NEW l \in LeaseIds, LeaseStep(l) PROVE IInv'
  <2>1. CASE Dials(l) \/ StoresTarget(l) \/ ForgetsConnecting(l) \/ TimerFires(l)
    BY <2>1, LeaseTaskStep
  <2>2. CASE ReportsConnected(l) \/ ReportsExpired(l)
    BY <2>2, ReportStep
  <2>3. CASE ReportsConnectFailed(l)
    BY <2>3, ReportsConnectFailedStep
  <2> QED BY <1>2, <2>1, <2>2, <2>3 DEF LeaseStep
<1>3. ASSUME NEW c \in Conns, ConnStep(c) PROVE IInv'
  <2>1. CASE RequestsAdmission(c)
    BY <2>1, AdmissionStep
  <2>2. CASE GetsOutcome(c)
    BY <2>2, OutcomeStep
  <2>3. CASE TakesTarget(c)
    BY <2>3, TargetStep
  <2>4. CASE \E grace \in Graces : Activates(c, grace)
    BY <2>4, ActivatesStep
  <2>5. CASE BeginsRelay(c) \/ YieldsToPreemption(c) \/ Replays(c)
    BY <2>5, HolderStep
  <2>6. CASE Parks(c)
    BY <2>6, ParksStep
  <2>7. CASE RequestsResume(c)
    BY <2>7, RequestsResumeStep
  <2>8. CASE NotifiesPreempt(c)
    BY <2>8, NotifiesStep
  <2>9. CASE Cancels(c)
    BY <2>9, ReportStep
  <2> QED BY <1>3, <2>1, <2>2, <2>3, <2>4, <2>5, <2>6, <2>7, <2>8, <2>9 DEF ConnStep
<1>4. ASSUME Environment PROVE IInv'
  <2>1. ASSUME NEW c \in Conns, NEW key \in Keys, SendsHello(c, key) \/ SendsCancel(c, key)
        PROVE  IInv'
    BY <2>1, SendsStep
  <2>2. ASSUME NEW c \in Conns, NEW s \in Sessions, SendsResume(c, s) PROVE IInv'
    BY <2>2, SendsStep
  <2>3. ASSUME NEW c \in Conns, TargetDies(c) PROVE IInv'
    BY <2>3, TargetStep
  <2>4. ASSUME NEW c \in Conns, DataStreamDies(c) PROVE IInv'
    BY <2>4, HolderStep
  <2>5. ASSUME NEW c \in Conns, GivesUpReplay(c) PROVE IInv'
    BY <2>5, SweepStep
  <2>6. ASSUME NEW c \in Conns, Panics(c) PROVE IInv'
    BY <2>6, PanicsStep
  <2>7. ASSUME NEW c \in Conns, GivesUpHello(c) PROVE IInv'
    BY <2>7, OutcomeStep
  <2>8. CASE SweepsParked
    BY <2>8, SweepStep
  <2>9. CASE Tick
    BY <2>9, TickStep
  <2> QED BY <1>4, <2>1, <2>2, <2>3, <2>4, <2>5, <2>6, <2>7, <2>8, <2>9 DEF Environment
<1>5. CASE UNCHANGED vars
  BY <1>5, StutterStep
<1> QED BY <1>1, <1>2, <1>3, <1>4, <1>5 DEF Next, Progress

\* The inductive invariant holds in every state of the shell.
LEMMA Invariance == Spec => []IInv
BY InitInv, NextInv, PTL DEF Spec

\* The socket map agrees with the resume index at every unlock of `core`, for any
\* number of connections, sessions and leases: the orphan branches of park() and
\* resume_request() are dead code.
THEOREM SocketMapFollowsIndex == Spec => []SocketMapMatchesIndex
<1>1. IInv => SocketMapMatchesIndex
  BY DEF IInv
<1> QED BY <1>1, Invariance, PTL

\* The claim of a connection that holds a target.
LEMMA HolderClaims ==
  ASSUME IInv, NEW s \in Sessions, NEW c \in Holders(s)
  PROVE  /\ c \in Conns /\ <<s, Item(c).lease>> \in Claims(todo)[c]
         /\ agg.slots[s].st = "established" /\ agg.slots[s].lease = Item(c).lease
         /\ ~agg.index[s].parked
<1>1. c \in Conns /\ todo[c] # <<>> /\ Item(c).op \in ClaimOps /\ Item(c).sid = s
  BY DEF Holders, ClaimOps
<1>2. PICK x : x = <<s, Item(c).lease>>
  OBVIOUS
<1>3. x \in Claims(todo)[c] /\ x[1] = s /\ x[2] = Item(c).lease
  BY <1>1, <1>2 DEF Claims, ClaimOf, Item
<1>4. PICK C, E, T : C = Claims(todo) /\ E = Ended(todo) /\ T = Terminated(todo)
  OBVIOUS
<1>5. AggInv(agg) /\ HoldSets(C, E, T) /\ HoldAgg(agg, C, E, T) /\ x \in C[c]
  BY <1>3, <1>4, HoldFacts
<1>6. /\ agg.slots[x[1]].st = "established" /\ agg.slots[x[1]].lease = x[2]
      /\ ~agg.index[x[1]].parked
  BY ONLY <1>1, <1>5, ClaimFacts
<1> QED BY <1>1, <1>2, <1>3, <1>6

\* A connection that holds a target owns the Established slot of that lease,
\* whatever sweeps, evictions, late guards and stale facts interleave with it.
THEOREM HoldersOwnTheirSlots == Spec => []HolderOwnsTheSlot
<1>1. IInv => HolderOwnsTheSlot
  BY HolderClaims DEF HolderOwnsTheSlot, IsEstablished
<1> QED BY <1>1, Invariance, PTL

\* A session's target is held by one connection at most, and by none while its
\* socket is parked, however many RESUMEs preempt each other.
THEOREM TargetsHaveOneHolder == Spec => []OneHolderPerSession
<1>1. ASSUME IInv PROVE OneHolderPerSession
  <2> SUFFICES ASSUME NEW s \in Sessions
               PROVE  Cardinality(Holders(s)) <= 1 /\ (io[s].socket => Holders(s) = {})
    BY DEF OneHolderPerSession
  <2>1. io[s].socket => Holders(s) = {}
    BY <1>1, HolderClaims DEF IInv, SocketMapMatchesIndex
  <2>2. ASSUME NEW c \in Holders(s), NEW d \in Holders(s) PROVE c = d
    <3>1. PICK x, y : x = <<s, Item(c).lease>> /\ y = <<s, Item(d).lease>>
      OBVIOUS
    <3>2. c \in Conns /\ d \in Conns /\ x \in Claims(todo)[c] /\ y \in Claims(todo)[d]
      BY <1>1, <3>1, HolderClaims
    <3>3. x[1] = s /\ y[1] = s
      BY <3>1
    <3> QED BY <1>1, <3>2, <3>3, HoldFacts DEF HoldAgg
  <2>3. CASE Holders(s) = {}
    BY <2>1, <2>3, FS_EmptySet
  <2>4. CASE Holders(s) # {}
    <3>1. PICK c : Holders(s) = {c}
      BY <2>2, <2>4
    <3>2. Cardinality({c}) = 1
      BY FS_Singleton
    <3> QED BY <2>1, <3>1, <3>2
  <2> QED BY <2>3, <2>4
<1> QED BY <1>1, Invariance, PTL

\* No slot is orphaned: an Established session is parked, or some task holds its
\* target or has yet to report its end, panics included.
THEOREM SlotsAreNeverOrphaned == Spec => []NoOrphanedSlot
<1>1. ASSUME IInv PROVE NoOrphanedSlot
  <2> SUFFICES ASSUME NEW s \in Sessions, agg.slots[s].st = "established"
               PROVE  io[s].socket \/ WillBeReleased(agg.slots[s].lease)
    BY DEF NoOrphanedSlot
  <2>1. PICK l : l = agg.slots[s].lease
    OBVIOUS
  <2>2. \/ agg.index[s].parked \/ l \in Ended(todo) \/ (\E x \in Terminated(todo) : x[2] = l)
        \/ \E c \in Conns : \E x \in Claims(todo)[c] : x[2] = l
    BY <1>1, <2>1, HoldFacts DEF HoldAgg, Due
  <2>3. CASE agg.index[s].parked
    BY <1>1, <2>3 DEF IInv, SocketMapMatchesIndex
  <2>4. CASE l \in Ended(todo)
    <3>1. PICK t \in Tasks : l \in EndsOf(todo[t])
      BY <2>4 DEF Ended
    <3>2. PICK i \in DOMAIN todo[t] : todo[t][i].op = "ended" /\ todo[t][i].lease = l
      BY <3>1 DEF EndsOf, Elems
    <3> QED BY <2>1, <3>2 DEF WillBeReleased
  <2>5. CASE \E x \in Terminated(todo) : x[2] = l
    <3>0. PICK t \in Tasks : \E x \in TermsOf(todo[t]) : x[2] = l
      BY <2>5 DEF Terminated
    <3>1. PICK x \in TermsOf(todo[t]) : x[2] = l
      BY <3>0
    <3>2. PICK i \in DOMAIN todo[t] :
            todo[t][i].op = "terminated" /\ x = <<todo[t][i].sid, todo[t][i].lease>>
      BY <3>1 DEF TermsOf, Elems
    <3>3. todo[t][i].lease = l
      BY <3>1, <3>2
    <3> QED BY <2>1, <3>2, <3>3 DEF WillBeReleased
  <2>6. CASE \E c \in Conns : \E x \in Claims(todo)[c] : x[2] = l
    <3>0. PICK c \in Conns : \E x \in ClaimOf(todo[c]) : x[2] = l
      BY <2>6 DEF Claims
    <3>1. PICK x \in ClaimOf(todo[c]) : x[2] = l
      BY <3>0
    <3>2. todo[c] # <<>> /\ Item(c).op \in ClaimOps /\ x = <<Item(c).sid, Item(c).lease>>
      BY <3>1 DEF ClaimOf, Item
    <3>3. Item(c).lease = l
      BY <3>1, <3>2
    <3>4. c \in Tasks /\ todo[c] \in Seq(Items(agg.nextLease))
      BY <1>1, TaskNames DEF IInv, TypeInv
    <3>5. 1 \in DOMAIN todo[c] /\ todo[c][1] = Item(c)
      BY <3>2, <3>4 DEF Item
    <3> QED BY <2>1, <3>2, <3>3, <3>4, <3>5 DEF WillBeReleased, ClaimOps
  <2> QED BY <2>2, <2>3, <2>4, <2>5, <2>6
<1> QED BY <1>1, Invariance, PTL

-----------------------------------------------------------------------------
(***************************************************************************)
(* The shell implements ServeAggregate.  The instance Aggregate has its    *)
(* own copies of the reducers of ServeFsm; they are the same.              *)
(***************************************************************************)

\* What the capacity checks count.
LEMMA SameCounts ==
  /\ \A S : Aggregate!Cardinality(S) = Cardinality(S)
  /\ \A a : Aggregate!SessionCount(a) = SessionCount(a)
<1>1. ASSUME NEW S PROVE Aggregate!Cardinality(S) = Cardinality(S)
  BY DEF Cardinality, Aggregate!Cardinality
<1>2. ASSUME NEW a PROVE Aggregate!SessionCount(a) = SessionCount(a)
  BY <1>1 DEF SessionCount, Occupied, Aggregate!SessionCount, Aggregate!Occupied
<1> QED BY <1>1, <1>2

\* Eviction.
LEMMA SameDiscards ==
  ASSUME NEW a, NEW S
  PROVE  /\ Aggregate!OldestParked(a) = OldestParked(a)
         /\ Aggregate!DiscardAll(a, S) = DiscardAll(a, S)
         /\ Aggregate!Discards(a, S) = Discards(a, S)
         /\ Aggregate!DiscardResult(a, S) = DiscardResult(a, S)
<1>1. Aggregate!OldestParked(a) = OldestParked(a)
  BY DEF OldestParked, Parked, Aggregate!OldestParked, Aggregate!Parked
<1>2. Aggregate!DiscardAll(a, S) = DiscardAll(a, S)
  BY DEF DiscardAll, IsEstablished, NoSlot, NoEntry, Aggregate!DiscardAll,
         Aggregate!IsEstablished, Aggregate!NoSlot, Aggregate!NoEntry
<1>3. Aggregate!Discards(a, S) = Discards(a, S)
  BY DEF Discards, Discard, Aggregate!Discards, Aggregate!Discard
<1>4. Aggregate!DiscardResult(a, S) = DiscardResult(a, S)
  BY <1>2, <1>3 DEF DiscardResult, Result, Aggregate!DiscardResult, Aggregate!Result
<1> QED BY <1>1, <1>2, <1>3, <1>4

\* The ways a reducer rewrites an aggregate and what it returns.
LEMMA SameRewrites ==
  /\ \A x, y, z : /\ Aggregate!Result(x, y, z) = Result(x, y, z)
                  /\ Aggregate!SetSlot(x, y, z) = SetSlot(x, y, z)
                  /\ Aggregate!SetEntry(x, y, z) = SetEntry(x, y, z)
                  /\ Aggregate!Slot(x, y, z) = Slot(x, y, z)
                  /\ Aggregate!MintInto(x, y, z) = MintInto(x, y, z)
                  /\ Aggregate!IsEstablished(x, y, z) = IsEstablished(x, y, z)
                  /\ Aggregate!SlotsWith(x, y, z) = SlotsWith(x, y, z)
                  /\ Aggregate!SessionForLease(x, y, z) = SessionForLease(x, y, z)
                  /\ Aggregate!IsCurrent(x, y, z) = IsCurrent(x, y, z)
  /\ \A x, y : /\ Aggregate!KeyAt(x, y) = KeyAt(x, y)
               /\ Aggregate!SendReady(x, y) = SendReady(x, y)
               /\ Aggregate!SendReject(x, y) = SendReject(x, y)
               /\ Aggregate!RegisterIo(x, y) = RegisterIo(x, y)
               /\ Aggregate!StoreParked(x, y) = StoreParked(x, y)
               /\ Aggregate!ResumeGranted(x, y) = ResumeGranted(x, y)
               /\ Aggregate!RequestPreempt(x, y) = RequestPreempt(x, y)
               /\ Aggregate!HasSession(x, y) = HasSession(x, y)
  /\ \A x : /\ Aggregate!ConnectTarget(x) = ConnectTarget(x)
            /\ Aggregate!CancelLease(x) = CancelLease(x)
            /\ Aggregate!SchedulePendingTimeout(x) = SchedulePendingTimeout(x)
            /\ Aggregate!StartRelay(x) = StartRelay(x)
            /\ Aggregate!ResumeRejected(x) = ResumeRejected(x)
            /\ Aggregate!Ignored(x) = Ignored(x)
            /\ Aggregate!Live(x) = Live(x)
  /\ Aggregate!NoSlot = NoSlot /\ Aggregate!NoEntry = NoEntry
  /\ Aggregate!Keys = Keys /\ Aggregate!NewAggregate = NewAggregate
<1>1. \A x, y, z : /\ Aggregate!Result(x, y, z) = Result(x, y, z)
                   /\ Aggregate!SetSlot(x, y, z) = SetSlot(x, y, z)
                   /\ Aggregate!SetEntry(x, y, z) = SetEntry(x, y, z)
                   /\ Aggregate!Slot(x, y, z) = Slot(x, y, z)
                   /\ Aggregate!IsCurrent(x, y, z) = IsCurrent(x, y, z)
                   /\ Aggregate!IsEstablished(x, y, z) = IsEstablished(x, y, z)
  BY DEF Result, SetSlot, SetEntry, Slot, IsCurrent, IsEstablished, Aggregate!Result,
         Aggregate!SetSlot, Aggregate!SetEntry, Aggregate!Slot, Aggregate!IsCurrent,
         Aggregate!IsEstablished
<1>2. ASSUME NEW x, NEW y, NEW z PROVE Aggregate!MintInto(x, y, z) = MintInto(x, y, z)
  BY DEF MintInto, Slot, Aggregate!MintInto, Aggregate!Slot
<1>3. ASSUME NEW x, NEW y, NEW z
      PROVE  /\ Aggregate!SlotsWith(x, y, z) = SlotsWith(x, y, z)
             /\ Aggregate!SessionForLease(x, y, z) = SessionForLease(x, y, z)
  BY DEF SlotsWith, SessionForLease, Aggregate!SlotsWith, Aggregate!SessionForLease
<1>4. \A x, y : /\ Aggregate!KeyAt(x, y) = KeyAt(x, y)
                /\ Aggregate!SendReady(x, y) = SendReady(x, y)
                /\ Aggregate!SendReject(x, y) = SendReject(x, y)
                /\ Aggregate!RegisterIo(x, y) = RegisterIo(x, y)
                /\ Aggregate!StoreParked(x, y) = StoreParked(x, y)
                /\ Aggregate!ResumeGranted(x, y) = ResumeGranted(x, y)
                /\ Aggregate!RequestPreempt(x, y) = RequestPreempt(x, y)
                /\ Aggregate!HasSession(x, y) = HasSession(x, y)
  BY DEF KeyAt, SendReady, SendReject, RegisterIo, StoreParked, ResumeGranted, RequestPreempt,
         HasSession, Aggregate!KeyAt, Aggregate!SendReady, Aggregate!SendReject,
         Aggregate!RegisterIo, Aggregate!StoreParked, Aggregate!ResumeGranted,
         Aggregate!RequestPreempt, Aggregate!HasSession
<1>5. \A x : /\ Aggregate!ConnectTarget(x) = ConnectTarget(x)
             /\ Aggregate!CancelLease(x) = CancelLease(x)
             /\ Aggregate!SchedulePendingTimeout(x) = SchedulePendingTimeout(x)
             /\ Aggregate!StartRelay(x) = StartRelay(x)
             /\ Aggregate!ResumeRejected(x) = ResumeRejected(x)
             /\ Aggregate!Ignored(x) = Ignored(x)
  BY DEF ConnectTarget, CancelLease, SchedulePendingTimeout, StartRelay, ResumeRejected, Ignored,
         Result, Aggregate!ConnectTarget, Aggregate!CancelLease, Aggregate!SchedulePendingTimeout,
         Aggregate!StartRelay, Aggregate!ResumeRejected, Aggregate!Ignored, Aggregate!Result
<1>6. ASSUME NEW x PROVE Aggregate!Live(x) = Live(x)
  BY DEF Live, Indexed, Aggregate!Live, Aggregate!Indexed
<1>7. Aggregate!NoSlot = NoSlot /\ Aggregate!NoEntry = NoEntry /\ Aggregate!Keys = Keys
  BY DEF NoSlot, NoEntry, Keys, Aggregate!NoSlot, Aggregate!NoEntry, Aggregate!Keys
<1>8. Aggregate!NewAggregate = NewAggregate
  BY <1>7 DEF NewAggregate, Aggregate!NewAggregate
<1>9. \A x, y, z : /\ Aggregate!MintInto(x, y, z) = MintInto(x, y, z)
                   /\ Aggregate!SlotsWith(x, y, z) = SlotsWith(x, y, z)
                   /\ Aggregate!SessionForLease(x, y, z) = SessionForLease(x, y, z)
  BY <1>2, <1>3
<1> QED BY <1>1, <1>4, <1>5, <1>6, <1>7, <1>8, <1>9

\* Fencing: HELLO, CANCEL and the facts about a lease.
LEMMA SameFencing ==
  ASSUME NEW a, NEW key, NEW l
  PROVE  /\ Aggregate!OnHelloReceived(a, key) = OnHelloReceived(a, key)
         /\ Aggregate!OnCancelReceived(a, key) = OnCancelReceived(a, key)
         /\ Aggregate!OnTargetConnected(a, l) = OnTargetConnected(a, l)
         /\ Aggregate!OnTargetConnectFailed(a, l) = OnTargetConnectFailed(a, l)
         /\ Aggregate!OnLeaseStopped(a, l) = OnLeaseStopped(a, l)
         /\ Aggregate!OnPendingExpired(a, l) = OnPendingExpired(a, l)
<1>1. ASSUME NEW slot
      PROVE  /\ Aggregate!DecideAgainstInFlight(a, key, slot) = DecideAgainstInFlight(a, key, slot)
             /\ Aggregate!DecideAgainstClosing(a, key, slot) = DecideAgainstClosing(a, key, slot)
  BY SameRewrites DEF DecideAgainstInFlight, DecideAgainstClosing,
     Aggregate!DecideAgainstInFlight, Aggregate!DecideAgainstClosing
<1>2. Aggregate!OnHelloReceived(a, key) = OnHelloReceived(a, key)
  BY <1>1, SameRewrites DEF OnHelloReceived, Aggregate!OnHelloReceived
<1>3. Aggregate!OnCancelReceived(a, key) = OnCancelReceived(a, key)
  BY SameRewrites DEF OnCancelReceived, Aggregate!OnCancelReceived
<1>4. Aggregate!OnTargetConnected(a, l) = OnTargetConnected(a, l)
  BY SameRewrites DEF OnTargetConnected, Aggregate!OnTargetConnected
<1>5. Aggregate!OnTargetConnectFailed(a, l) = OnTargetConnectFailed(a, l)
  BY SameRewrites DEF OnTargetConnectFailed, Aggregate!OnTargetConnectFailed
<1>6. Aggregate!OnLeaseStopped(a, l) = OnLeaseStopped(a, l)
  BY SameRewrites DEF OnLeaseStopped, Aggregate!OnLeaseStopped
<1>7. Aggregate!OnPendingExpired(a, l) = OnPendingExpired(a, l)
  BY SameRewrites DEF OnPendingExpired, Aggregate!OnPendingExpired
<1> QED BY <1>2, <1>3, <1>4, <1>5, <1>6, <1>7

\* Admission and activation, which may evict.
LEMMA SameAdmission ==
  ASSUME NEW a, NEW key, NEW token, NEW grace
  PROVE  /\ Aggregate!OnAdmitRequested(a, key) = OnAdmitRequested(a, key)
         /\ Aggregate!OnActivated(a, key, token, grace) = OnActivated(a, key, token, grace)
<1>1. Aggregate!OnAdmitRequested(a, key) = OnAdmitRequested(a, key)
  BY SameCounts, SameDiscards, SameRewrites, SameFencing DEF OnAdmitRequested, Aggregate!OnAdmitRequested
<1>2. Aggregate!OnActivated(a, key, token, grace) = OnActivated(a, key, token, grace)
  BY SameCounts, SameDiscards, SameRewrites DEF OnActivated, Aggregate!OnActivated
<1> QED BY <1>1, <1>2

\* The facts about an incarnation, RESUME and the sweep.
LEMMA SameIncarnation ==
  ASSUME NEW a, NEW s, NEW l, NEW at
  PROVE  /\ Aggregate!OnRelayEnded(a, l) = OnRelayEnded(a, l)
         /\ Aggregate!OnRelayTerminated(a, s, l) = OnRelayTerminated(a, s, l)
         /\ Aggregate!OnParked(a, s, l, at) = OnParked(a, s, l, at)
         /\ Aggregate!OnResumeUnavailable(a, s, l) = OnResumeUnavailable(a, s, l)
         /\ Aggregate!OnResumeRequested(a, s) = OnResumeRequested(a, s)
         /\ Aggregate!OnSweep(a, at) = OnSweep(a, at)
<1>1. Aggregate!OnRelayEnded(a, l) = OnRelayEnded(a, l)
  BY SameDiscards, SameRewrites DEF OnRelayEnded, Aggregate!OnRelayEnded
<1>2. Aggregate!OnRelayTerminated(a, s, l) = OnRelayTerminated(a, s, l)
  BY SameDiscards, SameRewrites DEF OnRelayTerminated, Aggregate!OnRelayTerminated
<1>3. Aggregate!OnParked(a, s, l, at) = OnParked(a, s, l, at)
  BY SameDiscards, SameRewrites DEF OnParked, Aggregate!OnParked
<1>4. Aggregate!OnResumeUnavailable(a, s, l) = OnResumeUnavailable(a, s, l)
  BY SameRewrites DEF OnResumeUnavailable, Aggregate!OnResumeUnavailable
<1>5. Aggregate!OnResumeRequested(a, s) = OnResumeRequested(a, s)
  BY SameRewrites DEF OnResumeRequested, Aggregate!OnResumeRequested
<1>6. Aggregate!OnSweep(a, at) = OnSweep(a, at)
  <2>1. Aggregate!Overdue(a, at) = Overdue(a, at)
    BY DEF Overdue, Parked, Elapsed, EffectiveDeadline, Aggregate!Overdue, Aggregate!Parked,
           Aggregate!Elapsed, Aggregate!EffectiveDeadline
  <2> QED BY <2>1, SameDiscards DEF OnSweep, Aggregate!OnSweep
<1> QED BY <1>1, <1>2, <1>3, <1>4, <1>5, <1>6

\* A step of the shell that applies one event of the aggregate, or none.  A fact
\* names a lease that was minted; admission and a stopped lease may mint one.  That
\* a lease has stopped is kept apart: only ReportsStopped says it.
OtherEvent ==
  \/ agg' = agg
  \/ agg.nextLease < MaxLeases /\ \E key \in Keys : agg' = OnAdmitRequested(agg, key).agg
  \/ \E key \in Keys : agg' = OnCancelReceived(agg, key).agg
  \/ \E key \in Keys, token \in Minted(agg.nextLease), grace \in Graces :
       agg' = OnActivated(agg, key, token, grace).agg
  \/ \E s \in Sessions : agg' = OnResumeRequested(agg, s).agg
  \/ \E l \in Minted(agg.nextLease) :
       \/ agg' = OnTargetConnected(agg, l).agg
       \/ agg' = OnTargetConnectFailed(agg, l).agg
       \/ agg' = OnPendingExpired(agg, l).agg
       \/ agg' = OnRelayEnded(agg, l).agg
  \/ \E s \in Sessions, l \in Minted(agg.nextLease) :
       \/ agg' = OnParked(agg, s, l, now).agg
       \/ agg' = OnRelayTerminated(agg, s, l).agg
       \/ agg' = OnResumeUnavailable(agg, s, l).agg
  \/ agg' = OnSweep(agg, now).agg

Event ==
  \/ OtherEvent
  \/ /\ agg.nextLease < MaxLeases
     /\ \E l \in Minted(agg.nextLease) : agg' = OnLeaseStopped(agg, l).agg

\* Such a step is one of ServeAggregate, or leaves its variables alone.
LEMMA EventMaps ==
  ASSUME Event, UNCHANGED now
  PROVE  [Aggregate!Next]_(Aggregate!vars)
<1>1. CASE agg' = agg
  BY <1>1 DEF Aggregate!vars
<1>2. Aggregate!Leases = Minted(agg.nextLease) /\ Aggregate!Keys = Keys
      /\ (agg.nextLease < MaxLeases => Aggregate!MayMint)
  BY SameRewrites DEF Aggregate!Leases, Aggregate!MayMint, Minted
<1>3. CASE agg.nextLease < MaxLeases /\ \E key \in Keys : agg' = OnAdmitRequested(agg, key).agg
  <2>1. \E key \in Aggregate!Keys : Aggregate!AdmitRequested(key)
    BY <1>2, <1>3, SameAdmission DEF Aggregate!AdmitRequested, Aggregate!Apply
  <2> QED BY <2>1 DEF Aggregate!Next, Aggregate!Requests
<1>4. CASE \E key \in Keys : agg' = OnCancelReceived(agg, key).agg
  <2>1. \E key \in Aggregate!Keys : Aggregate!CancelReceived(key)
    BY <1>2, <1>4, SameFencing DEF Aggregate!CancelReceived, Aggregate!Apply
  <2> QED BY <2>1 DEF Aggregate!Next, Aggregate!Requests
<1>5. CASE \E key \in Keys, token \in Minted(agg.nextLease), grace \in Graces :
             agg' = OnActivated(agg, key, token, grace).agg
  <2>1. \E key \in Aggregate!Keys, token \in Aggregate!Leases, grace \in Graces :
          Aggregate!Activated(key, token, grace)
    BY <1>2, <1>5, SameAdmission DEF Aggregate!Activated, Aggregate!Apply
  <2> QED BY <2>1 DEF Aggregate!Next, Aggregate!Requests
<1>6. CASE \E s \in Sessions : agg' = OnResumeRequested(agg, s).agg
  <2>1. \E s \in Sessions : Aggregate!ResumeRequested(s)
    BY <1>6, SameIncarnation DEF Aggregate!ResumeRequested, Aggregate!Apply
  <2> QED BY <2>1 DEF Aggregate!Next, Aggregate!Requests
<1>7. ASSUME NEW l \in Minted(agg.nextLease),
             \/ agg' = OnTargetConnected(agg, l).agg
             \/ agg' = OnTargetConnectFailed(agg, l).agg
             \/ agg.nextLease < MaxLeases /\ agg' = OnLeaseStopped(agg, l).agg
             \/ agg' = OnPendingExpired(agg, l).agg
             \/ agg' = OnRelayEnded(agg, l).agg
      PROVE  [Aggregate!Next]_(Aggregate!vars)
  <2>1. \/ Aggregate!TargetConnected(l) \/ Aggregate!TargetConnectFailed(l)
        \/ Aggregate!LeaseStopped(l) \/ Aggregate!PendingExpired(l) \/ Aggregate!RelayEnded(l)
    BY <1>2, <1>7, SameFencing, SameIncarnation
    DEF Aggregate!TargetConnected, Aggregate!TargetConnectFailed, Aggregate!LeaseStopped,
        Aggregate!PendingExpired, Aggregate!RelayEnded, Aggregate!Apply
  <2> QED BY <1>2, <2>1 DEF Aggregate!Next, Aggregate!Facts
<1>8. ASSUME NEW s \in Sessions, NEW l \in Minted(agg.nextLease),
             \/ agg' = OnParked(agg, s, l, now).agg
             \/ agg' = OnRelayTerminated(agg, s, l).agg
             \/ agg' = OnResumeUnavailable(agg, s, l).agg
      PROVE  [Aggregate!Next]_(Aggregate!vars)
  <2>1. \/ Aggregate!ParkedFact(s, l) \/ Aggregate!RelayTerminated(s, l)
        \/ Aggregate!ResumeUnavailable(s, l)
    BY <1>8, SameIncarnation
    DEF Aggregate!ParkedFact, Aggregate!RelayTerminated, Aggregate!ResumeUnavailable, Aggregate!Apply
  <2> QED BY <1>2, <2>1 DEF Aggregate!Next, Aggregate!Facts
<1>9. CASE agg' = OnSweep(agg, now).agg
  <2>1. Aggregate!Sweep
    BY <1>9, SameIncarnation DEF Aggregate!Sweep, Aggregate!Apply
  <2> QED BY <2>1 DEF Aggregate!Next
<1> QED BY <1>1, <1>3, <1>4, <1>5, <1>6, <1>7, <1>8, <1>9 DEF Event, OtherEvent

\* Steps of the effects any task executes.
LEMMA EffectEvents ==
  ASSUME IInv, NEW t \in Tasks, EffectStep(t)
  PROVE  Event /\ UNCHANGED now /\ (OtherEvent \/ ReportsStopped(t))
<1>1. CASE \/ SendsReady(t) \/ SendsReject(t) \/ StartsConnect(t) \/ CancelsLease(t)
           \/ Joins(t) \/ ArmsTimer(t) \/ Dies(t)
  BY <1>1 DEF SendsReady, SendsReject, StartsConnect, CancelsLease, Joins, ArmsTimer, Dies, Event, OtherEvent
<1>2. CASE ReportsStopped(t)
  <2>1. todo[t] # <<>> /\ Item(t).op = "stopped" /\ UNCHANGED now
    BY <1>2 DEF ReportsStopped, At, Item
  <2>2. PICK l \in Minted(agg.nextLease) : l = Item(t).lease
    BY <2>1, ItemKnown DEF LeaseOps
  <2>3. agg' = OnLeaseStopped(agg, l).agg
    BY <1>2, <2>2 DEF ReportsStopped, ApplyWith
  <2>4. CASE SlotsWith(agg, l, "closing") = {}
    BY <1>2, <2>1, <2>3, <2>4 DEF OnLeaseStopped, Ignored, Result, Event, OtherEvent
  <2>5. CASE SlotsWith(agg, l, "closing") # {}
    <3>1. ClosingSlots(agg) # {}
      BY <2>5 DEF SlotsWith, ClosingSlots
    <3>2. Cardinality(ClosingSlots(agg)) # 0 /\ Cardinality(ClosingSlots(agg)) \in Nat
      BY <3>1, ClosingFinite, FS_EmptySet
    <3>3. Cardinality(Unadmitted) \in Nat /\ MaxLeases \in Nat /\ agg.nextLease \in Nat
      BY UnadmittedFinite, Fields DEF IInv
    <3>4. agg.nextLease < MaxLeases
      BY <3>2, <3>3 DEF IInv, CountInv, Owes
    <3> QED BY <1>2, <2>1, <2>3, <3>4 DEF Event
  <2> QED BY <2>4, <2>5
<1>3. CASE ReportsRelayEnded(t)
  <2>1. todo[t] # <<>> /\ Item(t).op = "ended" /\ UNCHANGED now
    BY <1>3 DEF ReportsRelayEnded, At, Item
  <2>2. PICK l \in Minted(agg.nextLease) : l = Item(t).lease
    BY <2>1, ItemKnown DEF LeaseOps
  <2>3. agg' = OnRelayEnded(agg, l).agg
    BY <1>3, <2>2 DEF ReportsRelayEnded, ApplyWith
  <2> QED BY <2>1, <2>3 DEF Event, OtherEvent
<1>4. CASE ReportsTerminated(t)
  <2>1. todo[t] # <<>> /\ Item(t).op = "terminated" /\ UNCHANGED now
    BY <1>4 DEF ReportsTerminated, At, Item
  <2>2. PICK s \in Sessions, l \in Minted(agg.nextLease) : s = Item(t).sid /\ l = Item(t).lease
    BY <2>1, ItemKnown
  <2>3. agg' = OnRelayTerminated(agg, s, l).agg
    BY <1>4, <2>2 DEF ReportsTerminated, ApplyWith
  <2> QED BY <2>1, <2>3 DEF Event, OtherEvent
<1> QED BY <1>1, <1>2, <1>3, <1>4 DEF EffectStep

\* Steps of the connect tasks and the timers.
LEMMA LeaseEvents ==
  ASSUME IInv, NEW l \in LeaseIds, LeaseStep(l)
  PROVE  OtherEvent /\ UNCHANGED now
<1>1. CASE Dials(l) \/ StoresTarget(l) \/ ForgetsConnecting(l) \/ TimerFires(l)
  BY <1>1 DEF Dials, StoresTarget, ForgetsConnecting, TimerFires, OtherEvent
<1>2. CASE ReportsConnected(l) \/ ReportsConnectFailed(l) \/ ReportsExpired(l)
  <2>1. todo[Connect(l)] # <<>> \/ todo[Timer(l)] # <<>>
    BY <1>2 DEF ReportsConnected, ReportsConnectFailed, ReportsExpired, At
  <2>2. l \in Minted(agg.nextLease)
    BY <2>1 DEF IInv, TypeInv
  <2>3. /\ UNCHANGED now
        /\ \/ agg' = OnTargetConnected(agg, l).agg
           \/ agg' = OnTargetConnectFailed(agg, l).agg
           \/ agg' = OnPendingExpired(agg, l).agg
    BY <1>2 DEF ReportsConnected, ReportsConnectFailed, ReportsExpired, ApplyWith
  <2> QED BY <2>2, <2>3 DEF OtherEvent
<1> QED BY <1>1, <1>2 DEF LeaseStep

\* Steps of a connection that apply an event.
LEMMA ConnEvents ==
  ASSUME IInv, NEW c \in Conns, ConnStep(c)
  PROVE  OtherEvent /\ UNCHANGED now
<1>0. c \in Tasks
  BY TaskNames
<1>1. CASE \/ GetsOutcome(c) \/ TakesTarget(c) \/ BeginsRelay(c) \/ YieldsToPreemption(c)
           \/ NotifiesPreempt(c) \/ Replays(c)
  BY <1>1 DEF GetsOutcome, TakesTarget, BeginsRelay, YieldsToPreemption, NotifiesPreempt, Replays,
              OtherEvent
<1>2. CASE RequestsAdmission(c)
  <2>1. todo[c] # <<>> /\ Item(c).op = "admit" /\ UNCHANGED now
    BY <1>2 DEF RequestsAdmission, At, Item
  <2>2. PICK key \in Keys : key = Item(c).key
    BY <1>0, <2>1, ItemKnown DEF KeyOps
  <2>3. agg' = OnAdmitRequested(agg, key).agg
    BY <1>2, <2>2 DEF RequestsAdmission, ApplyWith
  <2>4. c \in Unadmitted
    <3>1. todo[c] \in Seq(Items(agg.nextLease))
      BY <1>0, <2>1, ItemKnown
    <3>2. Item(c) \in Elems(todo[c])
      BY <2>1, <3>1 DEF Item, Elems
    <3>3. Admits(todo[c])
      BY <2>1, <3>2 DEF Admits
    <3> QED BY <3>3 DEF IInv, TaskInv, Unadmitted
  <2>5. Cardinality(Unadmitted) # 0 /\ Cardinality(Unadmitted) \in Nat /\ MaxLeases \in Nat
    BY <2>4, UnadmittedFinite, FS_EmptySet
  <2>6. Owes(agg) \in Nat /\ agg.nextLease \in Nat /\ agg.nextLease <= Owes(agg)
    BY OwesNat DEF IInv
  <2>7. agg.nextLease < MaxLeases
    BY <2>5, <2>6 DEF IInv, CountInv
  <2> QED BY <2>1, <2>3, <2>7 DEF OtherEvent
<1>3. CASE \E grace \in Graces : Activates(c, grace)
  <2>1. PICK grace \in Graces : Activates(c, grace)
    BY <1>3
  <2>2. todo[c] # <<>> /\ Item(c).op = "activate" /\ UNCHANGED now
    BY <2>1 DEF Activates, At, Item
  <2>3. PICK key \in Keys : key = Item(c).key
    BY <1>0, <2>2, ItemKnown DEF KeyOps
  <2>4. PICK token : token = outcome[c].token
    OBVIOUS
  <2>5. agg' = OnActivated(agg, key, token, grace).agg
    BY <2>1, <2>3, <2>4 DEF Activates, ApplyWith
  <2>6. CASE token \in Minted(agg.nextLease)
    BY <2>2, <2>5, <2>6 DEF OtherEvent
  <2>7. CASE token \notin Minted(agg.nextLease)
    <3>1. key.sid \in Sessions
      BY DEF Keys
    <3>2. agg.slots[key.sid].st = "pending" => agg.slots[key.sid].lease \in Minted(agg.nextLease)
      BY <3>1, Fields DEF IInv
    <3>3. ~(agg.slots[key.sid].st = "pending" /\ token = agg.slots[key.sid].lease)
      BY <2>7, <3>2
    <3>4. OnActivated(agg, key, token, grace) = Ignored(agg)
      BY <3>3 DEF OnActivated
    <3> QED BY <2>2, <2>5, <3>4 DEF Ignored, Result, OtherEvent
  <2> QED BY <2>6, <2>7
<1>4. CASE Parks(c)
  <2>1. todo[c] # <<>> /\ Item(c).op = "park" /\ UNCHANGED now
    BY <1>4 DEF Parks, At, Item
  <2>2. PICK s \in Sessions, l \in Minted(agg.nextLease) : s = Item(c).sid /\ l = Item(c).lease
    BY <1>0, <2>1, ItemKnown DEF ClaimOps, Holding
  <2>3. agg' = OnParked(agg, s, l, now).agg
    BY <1>4, <2>2 DEF Parks, ApplyWith
  <2> QED BY <2>1, <2>3 DEF OtherEvent
<1>5. CASE RequestsResume(c)
  <2>1. todo[c] # <<>> /\ Item(c).op = "resume" /\ UNCHANGED now
    BY <1>5 DEF RequestsResume, At, Item
  <2>2. PICK s \in Sessions : s = Item(c).sid
    BY <1>0, <2>1, ItemKnown
  <2>3. agg' = OnResumeRequested(agg, s).agg
    BY <1>5, <2>2 DEF RequestsResume, ApplyWith
  <2> QED BY <2>1, <2>3 DEF OtherEvent
<1>6. CASE Cancels(c)
  <2>1. todo[c] # <<>> /\ Item(c).op = "cancelAttach" /\ UNCHANGED now
    BY <1>6 DEF Cancels, At, Item
  <2>2. PICK key \in Keys : key = Item(c).key
    BY <1>0, <2>1, ItemKnown DEF KeyOps
  <2>3. agg' = OnCancelReceived(agg, key).agg
    BY <1>6, <2>2 DEF Cancels, ApplyWith
  <2> QED BY <2>1, <2>3 DEF OtherEvent
<1> QED BY <1>1, <1>2, <1>3, <1>4, <1>5, <1>6 DEF ConnStep

\* What peers, the target, a panic or the sweep bring about.
LEMMA EnvironmentEvents ==
  ASSUME IInv, Environment, ~Tick
  PROVE  OtherEvent /\ UNCHANGED now
<1>1. ASSUME NEW c \in Conns, NEW key \in Keys, SendsHello(c, key) \/ SendsCancel(c, key)
      PROVE  OtherEvent /\ UNCHANGED now
  BY <1>1 DEF SendsHello, SendsCancel, OtherEvent
<1>2. ASSUME NEW c \in Conns, NEW s \in Sessions, SendsResume(c, s)
      PROVE  OtherEvent /\ UNCHANGED now
  BY <1>2 DEF SendsResume, OtherEvent
<1>3. ASSUME NEW c \in Conns, TargetDies(c) \/ DataStreamDies(c) \/ Panics(c) \/ GivesUpHello(c)
      PROVE  OtherEvent /\ UNCHANGED now
  BY <1>3 DEF TargetDies, DataStreamDies, Panics, GivesUpHello, OtherEvent
<1>4. ASSUME NEW c \in Conns, GivesUpReplay(c)
      PROVE  OtherEvent /\ UNCHANGED now
  <2>1. todo[c] # <<>> /\ Item(c).op = "relay" /\ UNCHANGED now /\ c \in Tasks
    BY <1>4, TaskNames DEF GivesUpReplay, At, Item
  <2>2. PICK s \in Sessions, l \in Minted(agg.nextLease) : s = Item(c).sid /\ l = Item(c).lease
    BY <2>1, ItemKnown DEF ClaimOps, Holding
  <2>3. agg' = OnResumeUnavailable(agg, s, l).agg
    BY <1>4, <2>2 DEF GivesUpReplay, ApplyWith
  <2> QED BY <2>1, <2>3 DEF OtherEvent
<1>5. CASE SweepsParked
  BY <1>5 DEF SweepsParked, ApplyWith, OtherEvent
<1> QED BY <1>1, <1>2, <1>3, <1>4, <1>5 DEF Environment

\* Refinement: however the tasks of the shell interleave, the aggregate sees a
\* sequence of its own events.  Facts name leases that were minted, and the bound
\* on leases never blocks one, so what is proved of ServeAggregate holds of the
\* aggregate inside the running server.
THEOREM ShellImplementsAggregate == Spec => ImplementsAggregate
<1>1. Init => Aggregate!Init
  BY SameRewrites DEF Init, Aggregate!Init
<1>2. IInv /\ [Next]_vars => [Aggregate!Next]_(Aggregate!vars)
  <2> SUFFICES ASSUME IInv, [Next]_vars PROVE [Aggregate!Next]_(Aggregate!vars)
    OBVIOUS
  <2>1. CASE UNCHANGED vars
    BY <2>1 DEF vars, Aggregate!vars
  <2>2. CASE Tick
    <3>1. Aggregate!Tick
      BY <2>2 DEF Tick, Aggregate!Tick
    <3> QED BY <3>1 DEF Aggregate!Next
  <2>3. CASE Progress
    <3>1. Event /\ UNCHANGED now
      BY <2>3, EffectEvents, LeaseEvents, ConnEvents DEF Progress, Event
    <3> QED BY <3>1, EventMaps
  <2>4. CASE Environment /\ ~Tick
    <3>1. Event /\ UNCHANGED now
      BY <2>4, EnvironmentEvents DEF Event
    <3> QED BY <3>1, EventMaps
  <2> QED BY <2>1, <2>2, <2>3, <2>4 DEF Next
<1> QED BY <1>1, <1>2, Invariance, PTL DEF Spec, ImplementsAggregate, Aggregate!Spec

-----------------------------------------------------------------------------
(***************************************************************************)
(* Supersede.  The next attempt of a session gets its lease when a task    *)
(* reports that the old one has stopped.  By then cancel_lease has taken   *)
(* the old resource out of the map and joined the connect task, and        *)
(* nothing can start another one: a lease is connected once, because the   *)
(* effect that asks for it is issued once, when the lease is minted.       *)
(***************************************************************************)
DialOps == {"dial", "store"}
TearOps == {"connect", "stopped"} \cup DialOps
LeasesOf(q, op) == {x.lease : x \in {y \in Elems(q) : y.op = op}}
Dialing(q) == \E x \in Elems(q) : x.op \in DialOps
Joining(q, l) == q # <<>> /\ Head(q).op = "join" /\ Head(q).lease = l

\* A task dials before anything else it has to do, and connects a lease once.
Neat(q) ==
  \A i \in DOMAIN q :
    /\ q[i].op \in DialOps => i = 1
    /\ \A j \in DOMAIN q :
         q[i].op = "connect" /\ q[j].op = "connect" /\ q[i].lease = q[j].lease => i = j

\* A lease still to be connected, or about to be reported as stopped, has neither
\* an entry in the map nor a connect task that may yet reach the target, except
\* one that is joined first.
TearInv ==
  /\ \A t \in Tasks : Neat(todo[t])
  /\ \A t, u \in Tasks : \A l \in LeaseIds :
       l \in LeasesOf(todo[t], "connect") /\ l \in LeasesOf(todo[u], "connect") => t = u
  /\ \A t \in Tasks, l \in LeaseIds :
       l \in LeasesOf(todo[t], "connect") => leases[l] = "none" /\ ~Dialing(todo[Connect(l)])
  /\ \A l \in LeaseIds :
       /\ leases[l] # "none" => l \in Minted(agg.nextLease)
       /\ leases[l] \in {"target", "timed"} => ~Dialing(todo[Connect(l)])
  /\ \A t \in Tasks, l \in LeaseIds : l \in LeasesOf(todo[t], "stopped") =>
       /\ leases[l] = "none"
       /\ \A u \in Tasks : l \notin LeasesOf(todo[u], "connect")
       /\ Joining(todo[t], l) \/ ~Dialing(todo[Connect(l)])

\* Items that say nothing of the life of a lease.
Mild(p) == p \in Seq(Elems(p)) /\ \A x \in Elems(p) : x.op \notin TearOps

\* The list of a task that has done its first item.
LEMMA NeatThen ==
  ASSUME NEW S, NEW q \in Seq(S), q # <<>>, Neat(q), NEW R, NEW p \in Seq(R), Neat(p),
         \A l : ~(l \in LeasesOf(p, "connect") /\ l \in LeasesOf(q, "connect"))
  PROVE  LET r == p \o Tail(q) IN
         /\ Neat(r)
         /\ \A op : LeasesOf(r, op) \subseteq LeasesOf(p, op) \cup LeasesOf(q, op)
         /\ Dialing(r) => Dialing(p)
         /\ p # <<>> => r # <<>> /\ Head(r) = Head(p)
         /\ p = <<>> /\ Head(q).op = "connect" => Head(q).lease \notin LeasesOf(r, "connect")
<1> DEFINE r == p \o Tail(q)
<1>0. q \in Seq(S \cup R) /\ p \in Seq(S \cup R)
  OBVIOUS
<1>1. /\ Elems(r) = Elems(p) \cup Elems(Tail(q)) /\ Elems(q) = {Head(q)} \cup Elems(Tail(q))
      /\ r \in Seq(S \cup R)
  BY <1>0, ThenList
<1>2. /\ Len(q) \in Nat /\ Len(q) >= 1 /\ Len(p) \in Nat /\ r \in Seq(S \cup R)
      /\ Len(r) = Len(p) + Len(q) - 1 /\ Tail(q) \in Seq(S \cup R) /\ Len(Tail(q)) = Len(q) - 1
      /\ DOMAIN q = 1 .. Len(q) /\ DOMAIN p = 1 .. Len(p) /\ DOMAIN r = 1 .. Len(r)
      /\ DOMAIN Tail(q) = 1 .. (Len(q) - 1) /\ Head(q) = q[1]
  BY <1>0
<1>3. /\ \A i \in 1 .. Len(p) : r[i] = p[i]
      /\ \A i \in 1 .. (Len(q) - 1) : Tail(q)[i] = q[i + 1] /\ r[i + Len(p)] = Tail(q)[i]
  BY <1>0, <1>2
<1>4. ASSUME NEW i \in DOMAIN r
      PROVE  \/ i \in DOMAIN p /\ r[i] = p[i]
             \/ \E k \in DOMAIN q : k # 1 /\ i = (k - 1) + Len(p) /\ r[i] = q[k]
  <2>1. CASE i <= Len(p)
    BY <1>2, <1>3, <2>1
  <2>2. CASE ~(i <= Len(p))
    <3>1. PICK j \in 1 .. (Len(q) - 1) : i = j + Len(p)
      <4>1. i - Len(p) \in 1 .. (Len(q) - 1) /\ i = (i - Len(p)) + Len(p)
        BY <1>2, <2>2
      <4> QED BY <4>1
    <3>2. r[i] = q[j + 1] /\ j + 1 \in DOMAIN q /\ j + 1 # 1 /\ i = ((j + 1) - 1) + Len(p)
      BY <1>2, <1>3, <3>1
    <3> QED BY <3>2
  <2> QED BY <2>1, <2>2
<1>5. ASSUME NEW i \in DOMAIN r, r[i].op \in DialOps
      PROVE  i = 1 /\ i \in DOMAIN p /\ r[i] = p[i]
  <2>1. CASE i \in DOMAIN p /\ r[i] = p[i]
    BY <1>5, <2>1 DEF Neat
  <2>2. ASSUME NEW k \in DOMAIN q, k # 1, r[i] = q[k] PROVE FALSE
    BY <1>5, <2>2 DEF Neat
  <2> QED BY <1>4, <2>1, <2>2
<1>6. ASSUME NEW i \in DOMAIN r, NEW j \in DOMAIN r,
             r[i].op = "connect", r[j].op = "connect", r[i].lease = r[j].lease
      PROVE  i = j
  <2>1. CASE i \in DOMAIN p /\ r[i] = p[i] /\ j \in DOMAIN p /\ r[j] = p[j]
    BY <1>6, <2>1 DEF Neat
  <2>2. ASSUME NEW k \in DOMAIN q, i = (k - 1) + Len(p), r[i] = q[k],
               NEW m \in DOMAIN q, j = (m - 1) + Len(p), r[j] = q[m]
        PROVE  i = j
    <3>1. k = m
      BY <1>6, <2>2 DEF Neat
    <3> QED BY <2>2, <3>1
  <2>3. \A k \in DOMAIN q, m \in DOMAIN p :
          ~(q[k].op = "connect" /\ p[m].op = "connect" /\ q[k].lease = p[m].lease)
    BY DEF LeasesOf, Elems
  <2>4. CASE i \in DOMAIN p /\ r[i] = p[i]
    <3>1. ASSUME NEW m \in DOMAIN q, r[j] = q[m] PROVE FALSE
      BY <1>6, <2>3, <2>4, <3>1
    <3>2. j \in DOMAIN p /\ r[j] = p[j]
      BY <1>4, <3>1
    <3> QED BY <2>1, <2>4, <3>2
  <2>5. ASSUME NEW k \in DOMAIN q, i = (k - 1) + Len(p), r[i] = q[k] PROVE i = j
    <3>1. ~(j \in DOMAIN p /\ r[j] = p[j])
      BY <1>6, <2>3, <2>5
    <3>2. PICK m \in DOMAIN q : j = (m - 1) + Len(p) /\ r[j] = q[m]
      BY <1>4, <3>1
    <3> QED BY <2>2, <2>5, <3>2
  <2> QED BY <1>4, <2>4, <2>5
<1>7. Neat(r)
  BY <1>5, <1>6 DEF Neat
<1>8. \A op : LeasesOf(r, op) \subseteq LeasesOf(p, op) \cup LeasesOf(q, op)
  BY <1>1 DEF LeasesOf
<1>9. Dialing(r) => Dialing(p)
  BY <1>5 DEF Dialing, Elems
<1>10. p # <<>> => r # <<>> /\ Head(r) = Head(p)
  <2> SUFFICES ASSUME p # <<>> PROVE r # <<>> /\ Head(r) = Head(p)
    OBVIOUS
  <2>1. Len(p) >= 1
    BY <1>2
  <2>2. 1 \in 1 .. Len(p) /\ Len(r) >= 1
    BY <1>2, <2>1
  <2>3. r[1] = p[1] /\ r # <<>>
    BY <1>2, <1>3, <2>2
  <2> QED BY <1>1, <2>3
<1>11. p = <<>> /\ Head(q).op = "connect" => Head(q).lease \notin LeasesOf(r, "connect")
  <2> SUFFICES ASSUME p = <<>>, Head(q).op = "connect", NEW x \in Elems(r), x.op = "connect",
                      x.lease = Head(q).lease
               PROVE  FALSE
    BY DEF LeasesOf
  <2>1. PICK i \in DOMAIN r : x = r[i]
    BY DEF Elems
  <2>2. DOMAIN p = {}
    BY <1>2
  <2>3. PICK k \in DOMAIN q : k # 1 /\ x = q[k]
    BY <1>4, <2>1, <2>2
  <2>4. 1 \in DOMAIN q
    BY <1>2
  <2> QED BY <1>2, <2>3, <2>4 DEF Neat
<1> QED BY <1>7, <1>8, <1>9, <1>10, <1>11

\* Mild lists.
LEMMA MildList ==
  ASSUME NEW p, Mild(p)
  PROVE  /\ Neat(p) /\ ~Dialing(p)
         /\ LeasesOf(p, "connect") = {} /\ LeasesOf(p, "stopped") = {}
BY DEF Mild, Neat, Dialing, LeasesOf, Elems, TearOps

LEMMA MildShort ==
  /\ Mild(<<>>)
  /\ \A x : x.op \notin TearOps => Mild(<<x>>)
  /\ \A x, y : x.op \notin TearOps /\ y.op \notin TearOps => Mild(<<x, y>>)
BY DEF Mild, Elems

\* What the list of a task may become in a step in which w alone may be told to
\* connect a new lease: connects and dials only go, and a lease is to be reported
\* as stopped once its entry is gone and its connect task is over or joined first.
Tames(t, w) ==
  /\ Neat(todo'[t])
  /\ \A l \in LeasesOf(todo'[t], "connect") :
       l \in LeasesOf(todo[t], "connect") \/ (t = w /\ l = agg.nextLease)
  /\ \A l \in LeasesOf(todo'[t], "stopped") :
       \/ /\ l \in LeasesOf(todo[t], "stopped")
          /\ Joining(todo[t], l) => Joining(todo'[t], l) \/ ~Dialing(todo'[Connect(l)])
       \/ /\ leases[l] # "none" /\ leases'[l] = "none"
          /\ Joining(todo'[t], l) \/ ~Dialing(todo'[Connect(l)])
  /\ Dialing(todo'[t]) => Dialing(todo[t])

\* What may become of the entry of a lease, short of being connected.
Wanes(l) ==
  \/ leases'[l] \in {leases[l], "none"}
  \/ leases[l] \in {"target", "timed"} /\ leases'[l] \in {"target", "timed"}
  \/ leases'[l] \in {"target", "timed"} /\ leases[l] # "none" /\ ~Dialing(todo'[Connect(l)])

\* The leases named by a list were minted.
LEMMA NamedMinted ==
  ASSUME IInv, NEW t \in Tasks
  PROVE  /\ agg.nextLease \in Nat /\ agg.nextLease \notin Minted(agg.nextLease)
         /\ \A op \in LeaseOps : LeasesOf(todo[t], op) \subseteq Minted(agg.nextLease)
         /\ Minted(agg.nextLease) \subseteq LeaseIds
         /\ \A l \in LeaseIds : Connect(l) \in Tasks
         /\ agg.nextLease \in LeaseIds => todo[Connect(agg.nextLease)] = <<>>
<1>1. todo[t] \in Seq(Items(agg.nextLease)) /\ agg.nextLease \in Nat
  BY Fields DEF IInv, TypeInv
<1>2. \A x \in Elems(todo[t]) : x \in Items(agg.nextLease)
  BY <1>1 DEF Elems
<1>3. \A op \in LeaseOps : LeasesOf(todo[t], op) \subseteq Minted(agg.nextLease)
  BY <1>2, ItemFields DEF LeasesOf
<1>4. Minted(agg.nextLease) \subseteq LeaseIds
  BY LeasesKnown DEF IInv
<1>5. agg.nextLease \notin Minted(agg.nextLease)
  BY <1>1 DEF Minted
<1> QED BY <1>1, <1>3, <1>4, <1>5, TaskNames DEF IInv, TypeInv

LEMMA TearKept ==
  ASSUME IInv, TearInv, agg.nextLease <= agg'.nextLease, agg'.nextLease \in Nat,
         NEW w \in Tasks, \A t \in Tasks : todo'[t] = todo[t] \/ Tames(t, w),
         \A l \in LeaseIds : Wanes(l)
  PROVE  TearInv'
<1>0. /\ agg.nextLease \in Nat /\ agg.nextLease \notin Minted(agg.nextLease)
      /\ Minted(agg.nextLease) \subseteq LeaseIds
      /\ \A l \in LeaseIds : Connect(l) \in Tasks
      /\ Minted(agg.nextLease) \subseteq Minted(agg'.nextLease)
      /\ agg.nextLease \in LeaseIds => todo[Connect(agg.nextLease)] = <<>>
  BY NamedMinted, MintedGrows
<1>1. \A t \in Tasks : /\ LeasesOf(todo[t], "connect") \subseteq Minted(agg.nextLease)
                       /\ LeasesOf(todo[t], "stopped") \subseteq Minted(agg.nextLease)
  BY NamedMinted DEF LeaseOps
<1>2. \A l \in LeaseIds : Dialing(todo'[Connect(l)]) => Dialing(todo[Connect(l)])
  BY <1>0 DEF Tames
<1>3. \A l \in LeaseIds : leases[l] # "none" => l \in Minted(agg.nextLease)
  BY DEF TearInv
<1>4. \A l \in LeaseIds : leases[l] = "none" => leases'[l] = "none"
  BY DEF Wanes
<1>5. ~Dialing(<<>>)
  BY DEF Dialing, Elems
<1>6. \A t \in Tasks : \A l \in LeasesOf(todo'[t], "connect") :
        l \in LeasesOf(todo[t], "connect") \/ (t = w /\ l = agg.nextLease)
  BY DEF Tames
<1>7. \A t \in Tasks : Neat(todo'[t])
  BY DEF TearInv, Tames
<1>8. \A t, u \in Tasks : \A l \in LeaseIds :
        l \in LeasesOf(todo'[t], "connect") /\ l \in LeasesOf(todo'[u], "connect") => t = u
  BY <1>0, <1>1, <1>6 DEF TearInv
<1>9. ASSUME NEW t \in Tasks, NEW l \in LeaseIds, l \in LeasesOf(todo'[t], "connect")
      PROVE  leases'[l] = "none" /\ ~Dialing(todo'[Connect(l)])
  <2>1. CASE l \in LeasesOf(todo[t], "connect")
    BY <1>2, <1>4, <2>1 DEF TearInv
  <2>2. CASE l = agg.nextLease
    BY <1>0, <1>2, <1>3, <1>4, <1>5, <2>2
  <2> QED BY <1>6, <1>9, <2>1, <2>2
<1>10. \A l \in LeaseIds :
         /\ leases'[l] # "none" => l \in Minted(agg'.nextLease)
         /\ leases'[l] \in {"target", "timed"} => ~Dialing(todo'[Connect(l)])
  BY <1>0, <1>2, <1>3, <1>4 DEF TearInv, Wanes
<1>11. ASSUME NEW t \in Tasks, NEW l \in LeaseIds, l \in LeasesOf(todo'[t], "stopped")
       PROVE  /\ leases'[l] = "none"
              /\ \A u \in Tasks : l \notin LeasesOf(todo'[u], "connect")
              /\ Joining(todo'[t], l) \/ ~Dialing(todo'[Connect(l)])
  <2>1. CASE /\ l \in LeasesOf(todo[t], "stopped")
             /\ Joining(todo[t], l) => Joining(todo'[t], l) \/ ~Dialing(todo'[Connect(l)])
    <3>1. /\ leases[l] = "none" /\ \A u \in Tasks : l \notin LeasesOf(todo[u], "connect")
          /\ Joining(todo[t], l) \/ ~Dialing(todo[Connect(l)])
      BY <2>1 DEF TearInv
    <3>2. l # agg.nextLease
      BY <1>0, <1>1, <2>1
    <3> QED BY <1>2, <1>4, <1>6, <2>1, <3>1, <3>2
  <2>2. CASE /\ leases[l] # "none" /\ leases'[l] = "none"
             /\ Joining(todo'[t], l) \/ ~Dialing(todo'[Connect(l)])
    <3>1. \A u \in Tasks : l \notin LeasesOf(todo[u], "connect")
      BY <2>2 DEF TearInv
    <3>2. l # agg.nextLease
      BY <1>0, <1>3, <2>2
    <3> QED BY <1>6, <2>2, <3>1, <3>2
  <2> QED BY <1>11, <2>1, <2>2 DEF Tames
<1> QED BY <1>7, <1>8, <1>9, <1>10, <1>11 DEF TearInv

\* One task does its first item and goes on with p.
LEMMA TearThen ==
  ASSUME IInv, TearInv, agg.nextLease <= agg'.nextLease, agg'.nextLease \in Nat,
         \A l \in LeaseIds : Wanes(l),
         NEW t \in Tasks, todo[t] # <<>>, NEW R, NEW p \in Seq(R), todo' = Then(t, p),
         Neat(p), LeasesOf(p, "connect") \subseteq {agg.nextLease},
         Dialing(p) => Dialing(todo[t]),
         \A l \in LeasesOf(p, "stopped") :
           /\ leases[l] # "none" /\ leases'[l] = "none"
           /\ Joining(p, l) \/ ~Dialing(todo'[Connect(l)]),
         Item(t).op = "join" => todo[Connect(Item(t).lease)] = <<>>
  PROVE  TearInv'
<1> DEFINE q == todo[t]
           r == p \o Tail(q)
<1>1. /\ q \in Seq(Items(agg.nextLease)) /\ q # <<>> /\ Neat(q)
      /\ LeasesOf(q, "connect") \subseteq Minted(agg.nextLease)
      /\ LeasesOf(q, "stopped") \subseteq Minted(agg.nextLease)
      /\ agg.nextLease \notin Minted(agg.nextLease) /\ Minted(agg.nextLease) \subseteq LeaseIds
      /\ \A l \in LeaseIds : Connect(l) \in Tasks
  BY ItemKnown, NamedMinted DEF TearInv, LeaseOps
<1>2. \A l : ~(l \in LeasesOf(p, "connect") /\ l \in LeasesOf(q, "connect"))
  BY <1>1
<1>3. /\ Neat(r)
      /\ \A op : LeasesOf(r, op) \subseteq LeasesOf(p, op) \cup LeasesOf(q, op)
      /\ Dialing(r) => Dialing(p)
      /\ p # <<>> => r # <<>> /\ Head(r) = Head(p)
  <2> HIDE DEF q
  <2> QED BY <1>1, <1>2, NeatThen
<1>4. todo'[t] = r /\ \A u \in Tasks \ {t} : todo'[u] = todo[u]
  BY DEF Then, IInv, TypeInv
<1>5. ASSUME NEW l \in LeasesOf(r, "stopped")
      PROVE  \/ /\ l \in LeasesOf(q, "stopped")
                /\ Joining(q, l) => Joining(r, l) \/ ~Dialing(todo'[Connect(l)])
             \/ /\ leases[l] # "none" /\ leases'[l] = "none"
                /\ Joining(r, l) \/ ~Dialing(todo'[Connect(l)])
  <2>1. CASE l \in LeasesOf(p, "stopped")
    <3>1. Joining(p, l) => Joining(r, l)
      BY <1>3 DEF Joining
    <3> QED BY <2>1, <3>1
  <2>2. CASE l \in LeasesOf(q, "stopped")
    <3> SUFFICES ASSUME Joining(q, l) PROVE ~Dialing(todo'[Connect(l)])
      BY <2>2
    <3>1. todo[Connect(l)] = <<>>
      BY DEF Joining, Item
    <3>2. Connect(l) \in Tasks /\ Connect(l) # t
      BY <1>1, <2>2, <3>1
    <3> QED BY <1>4, <3>1, <3>2 DEF Dialing, Elems
  <2> QED BY <1>3, <2>1, <2>2
<1>6. Tames(t, t)
  <2> HIDE DEF q, r
  <2>1. q = todo[t] /\ r = todo'[t]
    BY <1>4 DEF q, r
  <2> QED BY <1>1, <1>3, <1>5, <2>1 DEF Tames
<1> QED BY <1>4, <1>6, TearKept

\* Tasks are given mild lists, end, or do an item and go on with what they had.
LEMMA TearMild ==
  ASSUME IInv, TearInv, agg.nextLease <= agg'.nextLease, agg'.nextLease \in Nat,
         \A l \in LeaseIds : Wanes(l),
         \A t \in Tasks : \/ todo'[t] = todo[t] \/ Mild(todo'[t])
                          \/ /\ todo[t] # <<>> /\ Item(t).op # "join"
                             /\ todo'[t] = <<>> \o Tail(todo[t]),
         NEW w \in Tasks
  PROVE  TearInv'
<1>1. ASSUME NEW t \in Tasks, Mild(todo'[t]) PROVE Tames(t, w)
  BY <1>1, MildList DEF Tames
<1>2. ASSUME NEW t \in Tasks, todo[t] # <<>>, Item(t).op # "join",
             todo'[t] = <<>> \o Tail(todo[t])
      PROVE  Tames(t, w)
  <2> DEFINE q == todo[t]
             r == <<>> \o Tail(q)
  <2>1. q \in Seq(Items(agg.nextLease)) /\ Neat(q) /\ q # <<>>
    BY <1>2, ItemKnown DEF TearInv
  <2>2. <<>> \in Seq({}) /\ Neat(<<>>) /\ ~Dialing(<<>>)
        /\ \A op : LeasesOf(<<>>, op) = {}
    BY DEF Neat, Dialing, LeasesOf, Elems
  <2>3. /\ Neat(r) /\ \A op : LeasesOf(r, op) \subseteq LeasesOf(q, op)
        /\ ~Dialing(r)
    <3> HIDE DEF q
    <3>1. \A l : ~(l \in LeasesOf(<<>>, "connect") /\ l \in LeasesOf(q, "connect"))
      BY <2>2
    <3> QED BY <2>1, <2>2, <3>1, NeatThen
  <2>4. \A l : ~Joining(q, l)
    BY <1>2 DEF Joining, Item
  <2> HIDE DEF q, r
  <2>5. q = todo[t] /\ r = todo'[t]
    BY <1>2 DEF q, r
  <2> QED BY <2>3, <2>4, <2>5 DEF Tames
<1> QED BY <1>1, <1>2, TearKept

\* What the reducers return: only one that mints a lease asks for a connect, and it
\* asks for that lease.
Asks(a, p) == Mild(p) \/ p = <<ConnectTarget(a.nextLease)>>

LEMMA MildEffects ==
  /\ \A key, l : Mild(<<SendReady(key, l), SchedulePendingTimeout(l)>>)
  /\ \A key, reason : Mild(<<SendReject(key, reason)>>)
  /\ \A key, reason, l : Mild(<<SendReject(key, reason), CancelLease(l)>>)
  /\ \A key, l : Mild(<<SendReady(key, l)>>)
  /\ \A l : Mild(<<CancelLease(l)>>)
BY MildShort DEF SendReady, SchedulePendingTimeout, SendReject, CancelLease, TearOps, DialOps

LEMMA FactsAreMild ==
  ASSUME NEW a, NEW l
  PROVE  /\ Mild(OnTargetConnected(a, l).out) /\ Mild(OnTargetConnectFailed(a, l).out)
         /\ Mild(OnPendingExpired(a, l).out) /\ Mild(OnRelayEnded(a, l).out)
         /\ Asks(a, OnLeaseStopped(a, l).out)
         /\ \A key : Mild(OnCancelReceived(a, key).out)
         /\ \A s : Mild(OnRelayTerminated(a, s, l).out)
         /\ \A s, at : OnParked(a, s, l, at).out = <<>>
<1>1. \A x, y, z : Result(x, y, z).out = z /\ Ignored(x).out = <<>>
  BY DEF Ignored, Result
<1>2. Mild(<<>>)
  BY MildShort
<1>3. Mild(OnTargetConnected(a, l).out)
  BY <1>1, <1>2, MildEffects DEF OnTargetConnected
<1>4. Mild(OnTargetConnectFailed(a, l).out)
  BY <1>1, <1>2, MildEffects DEF OnTargetConnectFailed
<1>5. Mild(OnPendingExpired(a, l).out)
  BY <1>1, <1>2, MildEffects DEF OnPendingExpired
<1>6. Mild(OnRelayEnded(a, l).out)
  BY <1>1, <1>2 DEF OnRelayEnded, DiscardResult
<1>7. Asks(a, OnLeaseStopped(a, l).out)
  BY <1>1, <1>2 DEF OnLeaseStopped, Asks
<1>8. \A key : Mild(OnCancelReceived(a, key).out)
  BY <1>1, <1>2, MildEffects DEF OnCancelReceived
<1>9. \A s : Mild(OnRelayTerminated(a, s, l).out)
  BY <1>1, <1>2 DEF OnRelayTerminated, DiscardResult
<1>10. \A s, at : OnParked(a, s, l, at).out = <<>>
  <2> SUFFICES ASSUME NEW s, NEW at PROVE OnParked(a, s, l, at).out = <<>>
    OBVIOUS
  <2>1. CASE ~IsCurrent(a, s, l)
    BY <1>1, <2>1 DEF OnParked
  <2>2. CASE IsCurrent(a, s, l) /\ a.index[s].unresumable
    BY <1>1, <2>2 DEF OnParked, DiscardResult
  <2>3. CASE IsCurrent(a, s, l) /\ ~a.index[s].unresumable
    BY <1>1, <2>3 DEF OnParked
  <2> QED BY <2>1, <2>2, <2>3
<1> QED BY <1>3, <1>4, <1>5, <1>6, <1>7, <1>8, <1>9, <1>10

\* A closing slot gets no lease from an event, and no lease is ever given back.
Calm(a, b) ==
  /\ b.nextLease \in {a.nextLease, a.nextLease + 1}
  /\ \A s \in Sessions : a.slots[s].st = "closing" => b.slots[s].st # "connecting"

LEMMA HelloCalm ==
  ASSUME NEW a, AggInv(a), NEW key \in Keys
  PROVE  LET r == OnHelloReceived(a, key) IN Asks(a, r.out) /\ Calm(a, r.agg)
<1> DEFINE r == OnHelloReceived(a, key)
           slot == a.slots[key.sid]
           cur == KeyAt(key.sid, slot)
<1>0. /\ key.sid \in Sessions /\ slot \in Slots /\ a.nextLease \in Nat
      /\ key.gen \in Nat /\ cur.gen \in Nat
  <2>1. key.sid \in Sessions /\ key.gen \in Nat
    BY GenerationsAssumption DEF Keys
  <2>2. cur \in SlotKeys
    BY <2>1, KeyOfSlot
  <2> QED BY <2>1, <2>2, Fields DEF SlotKeys
<1>1. slot.st \in {"absent", "connecting", "pending", "established", "closing"}
  BY <1>0 DEF Slots, SlotStates
<1>2. \A x, y, z : /\ Result(x, y, z).out = z /\ Ignored(x).out = <<>>
                   /\ Result(x, y, z).agg = x /\ Ignored(x).agg = x
  BY DEF Ignored, Result
<1>3. Mild(<<>>) /\ Calm(a, a)
  BY MildShort DEF Calm
<1>4. CASE slot.st = "absent"
  <2>1. r.agg = MintInto(a, key.sid, key) /\ r.out = <<ConnectTarget(a.nextLease)>>
    BY <1>2, <1>4 DEF OnHelloReceived
  <2>2. /\ r.agg.nextLease = a.nextLease + 1
        /\ \A t \in Sessions \ {key.sid} : r.agg.slots[t] = a.slots[t]
    BY <1>0, <2>1, MintFields
  <2> QED BY <1>4, <2>1, <2>2 DEF Asks, Calm
<1>5. CASE slot.st \in {"connecting", "pending"}
  <2>0. r = DecideAgainstInFlight(a, key, slot)
    BY <1>5 DEF OnHelloReceived
  <2>1. \/ r = Result(a, {}, <<SendReject(key, "StaleGeneration")>>)
        \/ r = Result(a, {}, <<SendReject(key, "AlreadyAttached")>>)
        \/ r = Result(a, {}, <<SendReady(key, slot.lease)>>)
        \/ r = Ignored(a)
        \/ r = Result(SetSlot(a, key.sid, Slot("closing", key, slot.lease)), {},
                      <<SendReject(cur, "StaleGeneration"), CancelLease(slot.lease)>>)
    <3>1. CASE key.gen < cur.gen
      BY <2>0, <3>1 DEF DecideAgainstInFlight
    <3>2. CASE key.gen = cur.gen /\ key.att # cur.att
      BY <1>0, <2>0, <3>2 DEF DecideAgainstInFlight
    <3>3. CASE key = cur
      BY <1>0, <2>0, <3>3 DEF DecideAgainstInFlight
    <3>4. CASE key.gen > cur.gen
      BY <1>0, <2>0, <3>4 DEF DecideAgainstInFlight
    <3>5. key.gen = cur.gen /\ key.att = cur.att => key = cur
      BY <1>0 DEF Keys, KeyAt
    <3> QED BY <1>0, <3>1, <3>2, <3>3, <3>4, <3>5
  <2>2. CASE r.agg = a
    BY <1>2, <1>3, <2>1, <2>2, MildEffects DEF Asks
  <2>3. CASE r.agg = SetSlot(a, key.sid, Slot("closing", key, slot.lease))
    <3>1. /\ r.agg.nextLease = a.nextLease /\ r.agg.slots[key.sid].st = "closing"
          /\ \A t \in Sessions \ {key.sid} : r.agg.slots[t] = a.slots[t]
      BY <1>0, <2>3, SetSlotFields DEF Slot
    <3>2. Calm(a, r.agg)
      BY <3>1 DEF Calm
    <3> QED BY <1>2, <1>3, <2>1, <3>2, MildEffects DEF Asks
  <2> QED BY <1>2, <2>1, <2>2, <2>3
<1>6. CASE slot.st = "established"
  <2>1. r = Result(a, {}, <<SendReject(key, "AttachAlreadyEstablished")>>)
    BY <1>6 DEF OnHelloReceived
  <2> QED BY <1>2, <1>3, <2>1, MildEffects DEF Asks
<1>7. CASE slot.st = "closing"
  <2>0. r = DecideAgainstClosing(a, key, slot)
    BY <1>7 DEF OnHelloReceived
  <2>1. \/ r = Result(a, {}, <<SendReject(key, "StaleGeneration")>>)
        \/ r = Result(a, {}, <<SendReject(key, "AlreadyAttached")>>)
        \/ r = Ignored(a)
        \/ r = Result(SetSlot(a, key.sid, Slot("closing", key, slot.lease)), {},
                      <<SendReject(cur, "StaleGeneration")>>)
    <3>1. CASE key = cur
      BY <2>0, <3>1 DEF DecideAgainstClosing
    <3>2. CASE key.gen > cur.gen
      BY <1>0, <2>0, <3>2 DEF DecideAgainstClosing
    <3>3. CASE key.gen < cur.gen
      BY <1>0, <2>0, <3>3 DEF DecideAgainstClosing
    <3>4. CASE key.gen = cur.gen /\ key # cur
      BY <1>0, <2>0, <3>4 DEF DecideAgainstClosing
    <3> QED BY <1>0, <3>1, <3>2, <3>3, <3>4
  <2>2. CASE r.agg = a
    BY <1>2, <1>3, <2>1, <2>2, MildEffects DEF Asks
  <2>3. CASE r.agg = SetSlot(a, key.sid, Slot("closing", key, slot.lease))
    <3>1. /\ r.agg.nextLease = a.nextLease /\ r.agg.slots[key.sid].st = "closing"
          /\ \A t \in Sessions \ {key.sid} : r.agg.slots[t] = a.slots[t]
      BY <1>0, <2>3, SetSlotFields DEF Slot
    <3>2. Calm(a, r.agg)
      BY <3>1 DEF Calm
    <3> QED BY <1>2, <1>3, <2>1, <3>2, MildEffects DEF Asks
  <2> QED BY <1>2, <2>1, <2>2, <2>3
<1> QED BY <1>1, <1>4, <1>5, <1>6, <1>7

\* One session changes and gets no lease.
LEMMA CalmElsewhere ==
  ASSUME NEW a, NEW b, NEW s \in Sessions, Elsewhere(a, b, s), b.slots[s].st # "connecting"
  PROVE  Calm(a, b)
BY DEF Calm, Elsewhere

LEMMA CalmSame ==
  ASSUME NEW a
  PROVE  Calm(a, a)
BY DEF Calm

\* ATTACH_HELLO with admission.
LEMMA AdmitCalm ==
  ASSUME NEW a, AggInv(a), NEW key \in Keys
  PROVE  LET r == OnAdmitRequested(a, key) IN Asks(a, r.out) /\ Calm(a, r.agg)
<1> DEFINE victims == OldestParked(a)
           b == DiscardAll(a, victims)
           r == OnAdmitRequested(a, key)
           hello == OnHelloReceived(b, key)
<1>0. victims \in SUBSET Sessions
  BY DEF OldestParked, Parked
<1>1. CASE HasSession(a, key.sid) \/ SessionCount(a) < MaxSessions
  <2>1. r = OnHelloReceived(a, key)
    BY <1>1 DEF OnAdmitRequested
  <2> QED BY <2>1, HelloCalm
<1>2. CASE ~(HasSession(a, key.sid) \/ SessionCount(a) < MaxSessions) /\ victims = {}
  <2>1. r.agg = a /\ r.out = <<SendReject(key, "BusyOtherSession")>>
    BY <1>2 DEF OnAdmitRequested, Result
  <2> QED BY <2>1, CalmSame, MildEffects DEF Asks
<1>3. CASE ~(HasSession(a, key.sid) \/ SessionCount(a) < MaxSessions) /\ victims # {}
  <2>1. r.agg = hello.agg /\ r.out = hello.out
    BY <1>3 DEF OnAdmitRequested, Result
  <2>2. AggInv(b) /\ b.nextLease = a.nextLease
    BY <1>0, DiscardSlots, DiscardFields
  <2>3. \A t \in Sessions : a.slots[t].st = "closing" => b.slots[t].st = "closing"
    <3> SUFFICES ASSUME NEW t \in Sessions, a.slots[t].st = "closing" PROVE b.slots[t].st = "closing"
      OBVIOUS
    <3>1. ~a.index[t].present
      BY Fields
    <3> QED BY <1>0, <3>1, DiscardFields
  <2>4. Asks(b, hello.out) /\ Calm(b, hello.agg)
    <3> HIDE DEF b
    <3> QED BY <2>2, HelloCalm
  <2>5. Asks(a, hello.out) /\ Calm(a, hello.agg)
    <3> HIDE DEF b, hello
    <3> QED BY <2>2, <2>3, <2>4 DEF Asks, Calm
  <2> QED BY <2>1, <2>5
<1> QED BY <1>1, <1>2, <1>3

\* A lease has stopped: only a slot that waits for it gets the next one.
LEMMA StoppedCalm ==
  ASSUME NEW a, AggInv(a), NEW l
  PROVE  LET b == OnLeaseStopped(a, l).agg IN
         /\ b.nextLease \in {a.nextLease, a.nextLease + 1}
         /\ \A s \in Sessions : a.slots[s].st = "closing" /\ b.slots[s].st = "connecting"
                                  => a.slots[s].lease = l
<1>1. CASE SlotsWith(a, l, "closing") = {}
  <2>1. OnLeaseStopped(a, l).agg = a
    BY <1>1 DEF OnLeaseStopped, Ignored, Result
  <2> QED BY <2>1
<1>2. CASE SlotsWith(a, l, "closing") # {}
  <2> DEFINE s == SessionForLease(a, l, "closing")
             b == MintInto(a, s, KeyAt(s, a.slots[s]))
  <2>1. s \in Sessions /\ a.slots[s].lease = l
    BY <1>2, LeaseOwner
  <2>2. OnLeaseStopped(a, l).agg = b
    BY <1>2 DEF OnLeaseStopped, Result
  <2>3. b.nextLease = a.nextLease + 1 /\ \A t \in Sessions \ {s} : b.slots[t] = a.slots[t]
    BY <2>1, MintFields
  <2> QED BY <2>1, <2>2, <2>3
<1> QED BY <1>1, <1>2

\* Every other event leaves a closing slot without a lease.
LEMMA OthersCalm ==
  ASSUME IInv, OtherEvent
  PROVE  Calm(agg, agg')
<1>0. AggInv(agg) /\ now \in Nat
  BY DEF IInv, TypeInv
<1>1. CASE agg' = agg
  BY <1>1, CalmSame
<1>2. ASSUME NEW key \in Keys, agg' = OnAdmitRequested(agg, key).agg PROVE Calm(agg, agg')
  BY <1>0, <1>2, AdmitCalm
<1>3. ASSUME NEW key \in Keys, agg' = OnCancelReceived(agg, key).agg PROVE Calm(agg, agg')
  <2>1. key.sid \in Sessions
    BY DEF Keys
  <2>2. agg' = agg \/ agg' = SetSlot(agg, key.sid, NoSlot)
    BY <1>3 DEF OnCancelReceived, Ignored, Result
  <2>3. ASSUME agg' = SetSlot(agg, key.sid, NoSlot) PROVE Calm(agg, agg')
    <3>1. /\ agg'.nextLease = agg.nextLease /\ agg'.slots[key.sid] = NoSlot
          /\ \A t \in Sessions \ {key.sid} : agg'.slots[t] = agg.slots[t]
      BY <1>0, <2>1, <2>3, SetSlotFields
    <3> QED BY <3>1 DEF Calm, NoSlot
  <2> QED BY <2>2, <2>3, CalmSame
<1>4. ASSUME NEW key \in Keys, NEW token, NEW grace \in Graces,
             agg' = OnActivated(agg, key, token, grace).agg
      PROVE  Calm(agg, agg')
  <2>1. grace \in Nat
    BY ClockAssumption
  <2>2. /\ key.sid \in Sessions
        /\ \/ Elsewhere(agg, agg', key.sid) /\ agg'.slots[key.sid].st = "established"
           \/ agg' = agg
    BY <1>0, <1>4, <2>1, ActivatedEstablishes
  <2> QED BY <2>2, CalmElsewhere, CalmSame
<1>5. ASSUME NEW s \in Sessions, agg' = OnResumeRequested(agg, s).agg PROVE Calm(agg, agg')
  <2>1. agg' = agg \/ (Elsewhere(agg, agg', s) /\ agg'.slots[s] = agg.slots[s])
    BY <1>0, <1>5, ResumeRequestedGrants
  <2> QED BY <2>1, CalmSame DEF Calm, Elsewhere
<1>6. ASSUME NEW l \in Minted(agg.nextLease), agg' = OnTargetConnected(agg, l).agg
      PROVE  Calm(agg, agg')
  <2>1. CASE SlotsWith(agg, l, "connecting") = {}
    <3>1. agg' = agg
      BY <1>6, <2>1 DEF OnTargetConnected, Ignored, Result
    <3> QED BY <3>1, CalmSame
  <2>2. CASE SlotsWith(agg, l, "connecting") # {}
    <3> DEFINE s == SessionForLease(agg, l, "connecting")
               new == Slot("pending", KeyAt(s, agg.slots[s]), l)
    <3>1. s \in Sessions
      BY <2>2, LeaseOwner
    <3>2. agg' = SetSlot(agg, s, new)
      BY <1>6, <2>2 DEF OnTargetConnected, Result
    <3>3. new.st = "pending"
      BY DEF Slot
    <3>4. /\ agg'.nextLease = agg.nextLease /\ agg'.slots[s] = new
          /\ \A t \in Sessions \ {s} : agg'.slots[t] = agg.slots[t]
      BY <1>0, <3>1, <3>2, SetSlotFields
    <3> QED BY <3>3, <3>4 DEF Calm
  <2> QED BY <2>1, <2>2
<1>7. ASSUME NEW l \in Minted(agg.nextLease),
             agg' = OnTargetConnectFailed(agg, l).agg \/ agg' = OnPendingExpired(agg, l).agg
      PROVE  Calm(agg, agg')
  <2>1. agg' = agg \/ \E st \in {"connecting", "pending"} :
                        /\ SlotsWith(agg, l, st) # {}
                        /\ agg' = SetSlot(agg, SessionForLease(agg, l, st), NoSlot)
    BY <1>7 DEF OnTargetConnectFailed, OnPendingExpired, Ignored, Result
  <2>2. ASSUME NEW st, SlotsWith(agg, l, st) # {},
               agg' = SetSlot(agg, SessionForLease(agg, l, st), NoSlot)
        PROVE  Calm(agg, agg')
    <3> DEFINE s == SessionForLease(agg, l, st)
    <3>1. s \in Sessions
      BY <2>2, LeaseOwner
    <3>2. /\ agg'.nextLease = agg.nextLease /\ agg'.slots[s] = NoSlot
          /\ \A t \in Sessions \ {s} : agg'.slots[t] = agg.slots[t]
      BY <1>0, <2>2, <3>1, SetSlotFields
    <3> QED BY <3>2 DEF Calm, NoSlot
  <2> QED BY <2>1, <2>2, CalmSame
<1>8. ASSUME NEW l \in Minted(agg.nextLease), agg' = OnRelayEnded(agg, l).agg
      PROVE  Calm(agg, agg')
  <2>1. agg' = agg \/ \E s \in Sessions : Drops(agg, agg', s)
    BY <1>0, <1>8, RelayEndedDrops
  <2> QED BY <2>1, CalmElsewhere, CalmSame DEF Drops
<1>9. ASSUME NEW s \in Sessions, NEW l \in Minted(agg.nextLease),
             agg' = OnParked(agg, s, l, now).agg
      PROVE  Calm(agg, agg')
  <2>1. CASE IsCurrent(agg, s, l)
    <3>1. Drops(agg, agg', s) \/ (Elsewhere(agg, agg', s) /\ agg'.slots[s] = agg.slots[s])
      BY <1>0, <1>9, <2>1, ParkedParks
    <3> QED BY <3>1, CalmElsewhere DEF Drops, Calm, Elsewhere
  <2>2. CASE ~IsCurrent(agg, s, l)
    <3>1. agg' = agg
      BY <1>9, <2>2 DEF OnParked, Ignored, Result
    <3> QED BY <3>1, CalmSame
  <2> QED BY <2>1, <2>2
<1>10. ASSUME NEW s \in Sessions, NEW l \in Minted(agg.nextLease),
              agg' = OnRelayTerminated(agg, s, l).agg
       PROVE  Calm(agg, agg')
  <2>1. agg' = agg \/ Drops(agg, agg', s)
    BY <1>0, <1>10, RelayTerminatedDrops
  <2> QED BY <2>1, CalmElsewhere, CalmSame DEF Drops
<1>11. ASSUME NEW s \in Sessions, NEW l \in Minted(agg.nextLease),
              agg' = OnResumeUnavailable(agg, s, l).agg
       PROVE  Calm(agg, agg')
  <2>1. agg' = agg \/ agg' = SetEntry(agg, s, [agg.index[s] EXCEPT !.unresumable = TRUE])
    BY <1>11 DEF OnResumeUnavailable, Ignored, Result
  <2>2. agg'.slots = agg.slots /\ agg'.nextLease = agg.nextLease
    BY <1>0, <2>1, SetEntryFields
  <2> QED BY <2>2 DEF Calm
<1>12. CASE agg' = OnSweep(agg, now).agg
  <2>1. agg' = DiscardAll(agg, Overdue(agg, now)) /\ Overdue(agg, now) \in SUBSET Sessions
    BY <1>12 DEF OnSweep, DiscardResult, Result, Overdue, Parked
  <2>2. /\ agg'.nextLease = agg.nextLease
        /\ \A t \in Sessions : agg'.slots[t] \in {NoSlot, agg.slots[t]}
    BY <1>0, <2>1, DiscardFields
  <2> QED BY <2>2 DEF Calm, NoSlot
<1> QED BY <1>1, <1>2, <1>3, <1>4, <1>5, <1>6, <1>7, <1>8, <1>9, <1>10, <1>11, <1>12 DEF OtherEvent

-----------------------------------------------------------------------------
Grown == agg.nextLease <= agg'.nextLease /\ agg'.nextLease \in Nat

\* A task does its first item and goes on with what a reducer returned or with mild
\* items.
LEMMA TearOut ==
  ASSUME IInv, TearInv, Grown, \A l \in LeaseIds : Wanes(l),
         NEW t \in Tasks, todo[t] # <<>>, Item(t).op # "join",
         NEW p, Asks(agg, p), todo' = Then(t, p)
  PROVE  TearInv'
<1>1. /\ p \in Seq(Elems(p)) /\ Neat(p) /\ ~Dialing(p)
      /\ LeasesOf(p, "connect") \subseteq {agg.nextLease} /\ LeasesOf(p, "stopped") = {}
  <2>1. CASE Mild(p)
    BY <2>1, MildList DEF Mild
  <2>2. CASE p = <<ConnectTarget(agg.nextLease)>>
    BY <2>2 DEF ConnectTarget, Neat, Dialing, DialOps, LeasesOf, Elems
  <2> QED BY <2>1, <2>2 DEF Asks
<1> QED BY <1>1, TearThen DEF Grown

\* The lists a task goes on with, if they are mild.
LEMMA MildDoes ==
  /\ \A op, l : op \notin TearOps => Mild(<<Do(op, l)>>)
  /\ \A op, s, l : op \notin TearOps => Mild(<<DoFor(op, s, l)>>)
  /\ \A key : Mild(<<[op |-> "activate", key |-> key]>>)
  /\ \A key : Mild(<<[op |-> "cancelAttach", key |-> key]>>)
  /\ \A key : Mild(<<[op |-> "admit", key |-> key], [op |-> "await", key |-> key]>>)
  /\ \A s : Mild(<<[op |-> "resume", sid |-> s, again |-> FALSE]>>)
  /\ \A s, l : Mild(<<DoFor("notify", s, l), [op |-> "resume", sid |-> s, again |-> TRUE]>>)
  /\ \A s, l : Mild(<<Do("ended", l), DoFor("terminated", s, l)>>)
<1>1. \A op, l : op \notin TearOps => Mild(<<Do(op, l)>>)
  BY MildShort DEF Do
<1>2. \A op, s, l : op \notin TearOps => Mild(<<DoFor(op, s, l)>>)
  BY MildShort DEF DoFor
<1>3. \A s, l : /\ Mild(<<DoFor("notify", s, l), [op |-> "resume", sid |-> s, again |-> TRUE]>>)
                /\ Mild(<<Do("ended", l), DoFor("terminated", s, l)>>)
  BY MildShort DEF Do, DoFor, TearOps, DialOps
<1>4. /\ \A key : Mild(<<[op |-> "activate", key |-> key]>>)
      /\ \A key : Mild(<<[op |-> "cancelAttach", key |-> key]>>)
      /\ \A key : Mild(<<[op |-> "admit", key |-> key], [op |-> "await", key |-> key]>>)
      /\ \A s : Mild(<<[op |-> "resume", sid |-> s, again |-> FALSE]>>)
  BY MildShort DEF TearOps, DialOps
<1> QED BY <1>1, <1>2, <1>3, <1>4

LEMMA MildConcat ==
  ASSUME NEW p, NEW q, Mild(p), Mild(q)
  PROVE  Mild(p \o q)
<1> DEFINE r == p \o q
<1>1. /\ p \in Seq(Elems(p) \cup Elems(q)) /\ q \in Seq(Elems(p) \cup Elems(q))
  BY DEF Mild
<1>2. /\ Len(p) \in Nat /\ Len(q) \in Nat /\ Len(r) = Len(p) + Len(q)
      /\ r \in Seq(Elems(p) \cup Elems(q))
      /\ DOMAIN p = 1 .. Len(p) /\ DOMAIN q = 1 .. Len(q) /\ DOMAIN r = 1 .. Len(r)
  BY <1>1
<1>3. ASSUME NEW i \in DOMAIN r PROVE r[i].op \notin TearOps
  <2>1. r[i] \in Elems(p) \cup Elems(q)
    BY <1>2
  <2> QED BY <2>1 DEF Mild
<1>4. r \in Seq(Elems(r))
  <2>1. \A i \in 1 .. Len(r) : r[i] \in Elems(r)
    BY <1>2 DEF Elems
  <2>2. r \in [1 .. Len(r) -> Elems(r)] /\ Len(r) \in Nat
    <3> HIDE DEF r
    <3>1. Len(r) \in Nat /\ r \in [1 .. Len(r) -> Elems(p) \cup Elems(q)]
      BY <1>2
    <3> QED BY <2>1, <3>1
  <2> HIDE DEF r
  <2> QED BY <2>2
<1>5. \A x \in Elems(r) : x.op \notin TearOps
  BY <1>3 DEF Elems
<1> QED BY <1>4, <1>5 DEF Mild

\* start_connect: the lease had no entry and no connect task, and is connected by
\* no other task.
LEMMA StartsConnectTears ==
  ASSUME IInv, TearInv, NEW t \in Tasks, StartsConnect(t)
  PROVE  TearInv'
<1>0. PICK l : l = Item(t).lease
  OBVIOUS
<1> DEFINE q == todo[t]
           r == <<>> \o Tail(q)
           d == <<Do("dial", l)>>
<1>1. /\ todo[t] # <<>> /\ Item(t).op = "connect" /\ leases' = [leases EXCEPT ![l] = "connecting"]
      /\ todo' = [Then(t, <<>>) EXCEPT ![Connect(l)] = d] /\ agg' = agg
  BY <1>0 DEF StartsConnect, At, Item
<1>2. /\ q \in Seq(Items(agg.nextLease)) /\ l \in Minted(agg.nextLease) /\ l \in LeaseIds
      /\ Item(t) \in Elems(q)
  <2>1. /\ q \in Seq(Items(agg.nextLease)) /\ l \in Minted(agg.nextLease) /\ l \in LeaseIds
    BY <1>0, <1>1, ItemKnown DEF LeaseOps
  <2> QED BY <1>1, <2>1, ThenList DEF Item
<1>3. l \in LeasesOf(q, "connect")
  BY <1>0, <1>1, <1>2 DEF LeasesOf
<1>4. /\ Neat(d) /\ LeasesOf(d, "connect") = {} /\ LeasesOf(d, "stopped") = {}
  BY DEF Neat, LeasesOf, Elems, Do, DialOps
<1>5. <<>> \in Seq({}) /\ Neat(<<>>) /\ ~Dialing(<<>>) /\ \A op : LeasesOf(<<>>, op) = {}
  BY DEF Neat, Dialing, LeasesOf, Elems
<1>6. /\ Neat(r) /\ \A op : LeasesOf(r, op) \subseteq LeasesOf(q, op)
      /\ ~Dialing(r) /\ l \notin LeasesOf(r, "connect")
  <2>1. Neat(q) /\ q # <<>> /\ Head(q).op = "connect" /\ Head(q).lease = l
    BY <1>0, <1>1 DEF TearInv, Item
  <2> HIDE DEF q
  <2>2. \A m : ~(m \in LeasesOf(<<>>, "connect") /\ m \in LeasesOf(q, "connect"))
    BY <1>5
  <2> QED BY <1>2, <1>5, <2>1, <2>2, NeatThen
<1>7. /\ Connect(l) \in Tasks /\ todo'[Connect(l)] = d
      /\ \A u \in Tasks : u # Connect(l) => todo'[u] = IF u = t THEN r ELSE todo[u]
      /\ \A m \in LeaseIds : leases'[m] = IF m = l THEN "connecting" ELSE leases[m]
  <2>1. todo \in [Tasks -> Seq(Items(agg.nextLease))] /\ leases \in [LeaseIds -> LeaseStates]
    BY DEF IInv, TypeInv
  <2> QED BY <1>1, <1>2, <2>1, TaskNames DEF Then
<1>8. \A m \in LeaseIds : m # l => Connect(m) # Connect(l) /\ Connect(m) \in Tasks
  BY TaskNames DEF Connect
<1>9. \A u \in Tasks : l \in LeasesOf(todo[u], "connect") => u = t
  BY <1>2, <1>3 DEF TearInv
<1> HIDE DEF q, r, d
<1>10. q = todo[t] /\ \A u \in Tasks : LeasesOf(todo[u], "stopped") \subseteq LeaseIds
  <2>1. \A u \in Tasks : LeasesOf(todo[u], "stopped") \subseteq LeaseIds
    BY NamedMinted DEF LeaseOps
  <2> QED BY <2>1 DEF q
<1>11. \A u \in Tasks : /\ Neat(todo'[u])
                        /\ LeasesOf(todo'[u], "connect") \subseteq LeasesOf(todo[u], "connect") \ {l}
                        /\ LeasesOf(todo'[u], "stopped") \subseteq LeasesOf(todo[u], "stopped")
                        /\ u # Connect(l) /\ Dialing(todo'[u]) => Dialing(todo[u])
  <2> SUFFICES ASSUME NEW u \in Tasks
               PROVE  /\ Neat(todo'[u])
                      /\ LeasesOf(todo'[u], "connect") \subseteq LeasesOf(todo[u], "connect") \ {l}
                      /\ LeasesOf(todo'[u], "stopped") \subseteq LeasesOf(todo[u], "stopped")
                      /\ u # Connect(l) /\ Dialing(todo'[u]) => Dialing(todo[u])
    OBVIOUS
  <2>1. CASE u = Connect(l)
    BY <1>4, <1>7, <2>1
  <2>2. CASE u # Connect(l) /\ u = t
    BY <1>6, <1>7, <1>10, <2>2
  <2>3. CASE u # Connect(l) /\ u # t
    BY <1>7, <1>9, <2>3 DEF TearInv
  <2> QED BY <2>1, <2>2, <2>3
<1>12. \A u \in Tasks : l \notin LeasesOf(todo[u], "stopped")
  BY <1>2, <1>3, <1>10 DEF TearInv
<1>13. \A m \in LeaseIds : m # l /\ Dialing(todo'[Connect(m)]) => Dialing(todo[Connect(m)])
  BY <1>8, <1>11
<1>14. ASSUME NEW u \in Tasks, NEW m \in LeaseIds, m \in LeasesOf(todo'[u], "stopped")
       PROVE  /\ leases'[m] = "none"
              /\ \A v \in Tasks : m \notin LeasesOf(todo'[v], "connect")
              /\ Joining(todo'[u], m) \/ ~Dialing(todo'[Connect(m)])
  <2>1. m \in LeasesOf(todo[u], "stopped") /\ m # l
    BY <1>11, <1>12, <1>14
  <2>2. /\ leases[m] = "none" /\ \A v \in Tasks : m \notin LeasesOf(todo[v], "connect")
        /\ Joining(todo[u], m) \/ ~Dialing(todo[Connect(m)])
    BY <2>1 DEF TearInv
  <2>3. CASE ~Dialing(todo[Connect(m)])
    BY <1>7, <1>11, <1>13, <2>1, <2>2, <2>3
  <2>4. CASE Joining(todo[u], m)
    <3>1. u # t
      BY <1>1, <2>4 DEF Joining, Item
    <3>2. u # Connect(l)
      BY <1>4, <1>7, <1>14
    <3> QED BY <1>7, <1>11, <2>1, <2>2, <2>4, <3>1, <3>2
  <2> QED BY <2>2, <2>3, <2>4
<1>15. \A u, v \in Tasks : \A m \in LeaseIds :
         m \in LeasesOf(todo'[u], "connect") /\ m \in LeasesOf(todo'[v], "connect") => u = v
  BY <1>11 DEF TearInv
<1>16. \A u \in Tasks, m \in LeaseIds :
         m \in LeasesOf(todo'[u], "connect") => leases'[m] = "none" /\ ~Dialing(todo'[Connect(m)])
  BY <1>7, <1>11, <1>13 DEF TearInv
<1>17. \A m \in LeaseIds :
         /\ leases'[m] # "none" => m \in Minted(agg'.nextLease)
         /\ leases'[m] \in {"target", "timed"} => ~Dialing(todo'[Connect(m)])
  BY <1>1, <1>2, <1>7, <1>13 DEF TearInv
<1> QED BY <1>11, <1>14, <1>15, <1>16, <1>17 DEF TearInv

\* A step mints one lease at most.
LEMMA NextGrows ==
  ASSUME IInv, Next
  PROVE  Grown
<1>0. agg.nextLease \in Nat /\ AggInv(agg)
  BY Fields DEF IInv
<1> SUFFICES agg'.nextLease \in {agg.nextLease, agg.nextLease + 1}
  BY <1>0 DEF Grown
<1>1. CASE OtherEvent
  BY <1>1, OthersCalm DEF Calm
<1>2. ASSUME NEW t \in Tasks, ReportsStopped(t)
      PROVE  agg'.nextLease \in {agg.nextLease, agg.nextLease + 1}
  <2>1. PICK l : l = Item(t).lease
    OBVIOUS
  <2>2. agg' = OnLeaseStopped(agg, l).agg
    BY <1>2, <2>1 DEF ReportsStopped, ApplyWith
  <2> QED BY <1>0, <2>2, StoppedCalm
<1>3. CASE Tick
  BY <1>3 DEF Tick
<1>4. CASE Progress
  BY <1>1, <1>2, <1>4, EffectEvents, LeaseEvents, ConnEvents DEF Progress
<1>5. CASE Environment /\ ~Tick
  BY <1>1, <1>5, EnvironmentEvents
<1> QED BY <1>3, <1>4, <1>5 DEF Next

\* Entries of leases that stay as they are, or of which one goes.
LEMMA SameWanes ==
  ASSUME leases' = leases
  PROVE  \A l \in LeaseIds : Wanes(l)
BY DEF Wanes

LEMMA OneWanes ==
  ASSUME IInv, NEW l, leases' = [leases EXCEPT ![l] = "none"]
  PROVE  \A m \in LeaseIds : Wanes(m)
<1>1. leases \in [LeaseIds -> LeaseStates]
  BY DEF IInv, TypeInv
<1> QED BY <1>1 DEF Wanes

\* A task has an item of this kind to do.
LEMMA AtItem ==
  ASSUME NEW t, NEW op, At(t, op)
  PROVE  todo[t] # <<>> /\ Item(t).op = op
BY DEF At, Item

\* cancel_lease: the lease is reported as stopped after its connect task has been
\* joined, or had stored the target before.
LEMMA CancelsLeaseTears ==
  ASSUME IInv, TearInv, Grown, NEW t \in Tasks, CancelsLease(t)
  PROVE  TearInv'
<1>0. PICK l : l = Item(t).lease
  OBVIOUS
<1>1. /\ todo[t] # <<>> /\ Item(t).op = "cancel" /\ leases' = [leases EXCEPT ![l] = "none"]
  BY <1>0, AtItem DEF CancelsLease
<1>2. l \in LeaseIds /\ leases[l] \in LeaseStates /\ leases'[l] = "none" /\ Connect(l) \in Tasks
  <2>1. l \in LeaseIds /\ leases \in [LeaseIds -> LeaseStates]
    BY <1>0, <1>1, ItemKnown DEF LeaseOps, IInv, TypeInv
  <2> QED BY <1>1, <2>1, TaskNames
<1>3. \A m \in LeaseIds : Wanes(m)
  BY <1>1, OneWanes
<1>4. CASE leases[l] = "none"
  <2>1. todo' = Then(t, <<>>)
    BY <1>0, <1>4 DEF CancelsLease
  <2> QED BY <1>1, <1>3, <2>1, TearOut, MildShort DEF Asks
<1>5. CASE leases[l] = "connecting"
  <2> DEFINE p == <<Do("join", l), Do("stopped", l)>>
  <2>1. todo' = Then(t, p)
    BY <1>0, <1>5 DEF CancelsLease
  <2>2. /\ p \in Seq({Do("join", l), Do("stopped", l)})
        /\ Elems(p) = {Do("join", l), Do("stopped", l)}
        /\ p # <<>> /\ Head(p) = Do("join", l)
    BY DEF Elems
  <2>3. /\ Do("join", l).op = "join" /\ Do("stopped", l).op = "stopped"
        /\ Do("join", l).lease = l /\ Do("stopped", l).lease = l
    BY DEF Do
  <2>4. /\ ~Dialing(p) /\ LeasesOf(p, "connect") = {} /\ LeasesOf(p, "stopped") = {l}
        /\ Joining(p, l)
    BY <2>2, <2>3 DEF Dialing, DialOps, LeasesOf, Joining
  <2>5. Neat(p)
    BY <2>2, <2>3 DEF Neat, Elems, DialOps
  <2> HIDE DEF p
  <2> QED BY <1>1, <1>2, <1>3, <1>5, <2>1, <2>2, <2>4, <2>5, TearThen DEF Grown
<1>6. CASE leases[l] \in {"target", "timed"}
  <2> DEFINE p == <<Do("stopped", l)>>
  <2>1. todo' = Then(t, p)
    BY <1>0, <1>6 DEF CancelsLease
  <2>2. p \in Seq({Do("stopped", l)}) /\ Elems(p) = {Do("stopped", l)} /\ p # <<>>
        /\ Do("stopped", l).op = "stopped" /\ Do("stopped", l).lease = l
    BY DEF Elems, Do
  <2>4. ~Dialing(p) /\ LeasesOf(p, "connect") = {} /\ LeasesOf(p, "stopped") = {l}
    BY <2>2 DEF Dialing, DialOps, LeasesOf
  <2>5. Neat(p)
    BY <2>2 DEF Neat, Elems, DialOps
  <2> HIDE DEF p
  <2>6. ~Dialing(todo'[Connect(l)])
    <3>1. ~Dialing(todo[Connect(l)])
      BY <1>2, <1>6 DEF TearInv
    <3>2. CASE Connect(l) # t
      BY <1>2, <2>1, <3>1, <3>2 DEF Then, IInv, TypeInv
    <3>3. CASE Connect(l) = t
      <4>1. todo'[t] = p \o Tail(todo[t]) /\ todo[t] \in Seq(Items(agg.nextLease))
        BY <1>1, <2>1, ItemKnown DEF Then, IInv, TypeInv
      <4>2. \A m : ~(m \in LeasesOf(p, "connect") /\ m \in LeasesOf(todo[t], "connect"))
        BY <2>4
      <4>3. Neat(todo[t])
        BY DEF TearInv
      <4>4. Dialing(p \o Tail(todo[t])) => Dialing(p)
        BY <1>1, <2>2, <2>5, <4>1, <4>2, <4>3, NeatThen
      <4> QED BY <2>4, <3>3, <4>1, <4>4
    <3> QED BY <3>2, <3>3
  <2> QED BY <1>1, <1>2, <1>3, <1>6, <2>1, <2>2, <2>4, <2>5, <2>6, TearThen DEF Grown
<1> QED BY <1>2, <1>4, <1>5, <1>6 DEF LeaseStates

\* The effects any task executes.
LEMMA EffectTears ==
  ASSUME IInv, TearInv, Grown, NEW t \in Tasks, EffectStep(t)
  PROVE  TearInv'
<1>1. CASE SendsReady(t) \/ SendsReject(t)
  <2>1. /\ todo[t] # <<>> /\ Item(t).op # "join" /\ todo' = Then(t, <<>>) /\ leases' = leases
    BY <1>1, AtItem DEF SendsReady, SendsReject
  <2> QED BY <2>1, TearOut, SameWanes, MildShort DEF Asks
<1>2. CASE StartsConnect(t)
  BY <1>2, StartsConnectTears
<1>3. CASE CancelsLease(t)
  BY <1>3, CancelsLeaseTears
<1>4. CASE Joins(t)
  <2>1. /\ todo[t] # <<>> /\ todo' = Then(t, <<>>) /\ leases' = leases
        /\ todo[Connect(Item(t).lease)] = <<>>
    BY <1>4, AtItem DEF Joins
  <2>2. <<>> \in Seq({}) /\ Neat(<<>>) /\ ~Dialing(<<>>) /\ \A op : LeasesOf(<<>>, op) = {}
    BY DEF Neat, Dialing, LeasesOf, Elems
  <2> QED BY <2>1, <2>2, TearThen, SameWanes DEF Grown
<1>5. CASE ReportsStopped(t)
  <2>1. PICK l : l = Item(t).lease
    OBVIOUS
  <2>2. /\ todo[t] # <<>> /\ Item(t).op = "stopped" /\ leases' = leases
        /\ todo' = Then(t, OnLeaseStopped(agg, l).out)
    BY <1>5, <2>1, AtItem DEF ReportsStopped
  <2> QED BY <2>2, TearOut, SameWanes, FactsAreMild
<1>6. CASE ArmsTimer(t)
  <2>0. PICK l : l = Item(t).lease
    OBVIOUS
  <2>1. /\ todo[t] # <<>> /\ Item(t).op = "arm"
        /\ leases' = [leases EXCEPT ![l] = IF leases[l] \in {"target", "timed"} THEN "timed" ELSE @]
        /\ \/ todo' = Then(t, <<>>)
           \/ todo' = [Then(t, <<>>) EXCEPT ![Timer(l)] = <<Do("sleep", l)>>]
    BY <1>6, <2>0, AtItem DEF ArmsTimer
  <2>2. leases \in [LeaseIds -> LeaseStates] /\ todo \in [Tasks -> Seq(Items(agg.nextLease))]
        /\ l \in LeaseIds /\ Timer(l) \in Tasks
    BY <2>0, <2>1, ItemKnown, TaskNames DEF IInv, TypeInv, LeaseOps
  <2>3. \A m \in LeaseIds : Wanes(m)
    BY <2>1, <2>2 DEF Wanes
  <2>4. CASE todo' = Then(t, <<>>)
    BY <2>1, <2>3, <2>4, TearOut, MildShort DEF Asks
  <2>5. CASE todo' = [Then(t, <<>>) EXCEPT ![Timer(l)] = <<Do("sleep", l)>>]
    <3>1. Mild(<<Do("sleep", l)>>)
      BY MildDoes DEF TearOps, DialOps
    <3>2. \A u \in Tasks : todo'[u] = IF u = Timer(l) THEN <<Do("sleep", l)>>
                                      ELSE IF u = t THEN <<>> \o Tail(todo[t]) ELSE todo[u]
      BY <2>2, <2>5 DEF Then
    <3> QED BY <2>1, <2>3, <3>1, <3>2, TearMild DEF Grown
  <2> QED BY <2>1, <2>4, <2>5
<1>7. CASE ReportsRelayEnded(t)
  <2>1. PICK l : l = Item(t).lease
    OBVIOUS
  <2>2. /\ todo[t] # <<>> /\ Item(t).op = "ended" /\ leases' = leases
        /\ todo' = Then(t, OnRelayEnded(agg, l).out)
    BY <1>7, <2>1, AtItem DEF ReportsRelayEnded
  <2> QED BY <2>2, TearOut, SameWanes, FactsAreMild DEF Asks
<1>8. CASE ReportsTerminated(t)
  <2>1. PICK s, l : s = Item(t).sid /\ l = Item(t).lease
    OBVIOUS
  <2>2. /\ todo[t] # <<>> /\ Item(t).op = "terminated" /\ leases' = leases
        /\ todo' = Then(t, OnRelayTerminated(agg, s, l).out)
    BY <1>8, <2>1, AtItem DEF ReportsTerminated
  <2> QED BY <2>2, TearOut, SameWanes, FactsAreMild DEF Asks
<1>9. CASE Dies(t)
  <2>1. leases' = leases /\ \A u \in Tasks : todo'[u] = IF u = t THEN <<>> ELSE todo[u]
    BY <1>9 DEF Dies, Ends, IInv, TypeInv
  <2> QED BY <2>1, TearMild, SameWanes, MildShort DEF Grown
<1> QED BY <1>1, <1>2, <1>3, <1>4, <1>5, <1>6, <1>7, <1>8, <1>9 DEF EffectStep

\* The connect task and the timer of a lease.
LEMMA LeaseTears ==
  ASSUME IInv, TearInv, Grown, NEW l \in LeaseIds, LeaseStep(l)
  PROVE  TearInv'
<1>0. Connect(l) \in Tasks /\ Timer(l) \in Tasks
  BY TaskNames
<1>1. CASE Dials(l)
  <2> DEFINE t == Connect(l)
             p == <<Do("store", l), Do("connected", l)>>
  <2>1. /\ todo[t] # <<>> /\ Item(t).op = "dial" /\ leases' = leases
        /\ todo' = Then(t, p) \/ todo' = Then(t, <<Do("failed", l)>>)
    BY <1>1, AtItem DEF Dials
  <2>2. CASE todo' = Then(t, p)
    <3>1. /\ p \in Seq({Do("store", l), Do("connected", l)})
          /\ Elems(p) = {Do("store", l), Do("connected", l)}
          /\ p[1] = Do("store", l) /\ p[2] = Do("connected", l) /\ DOMAIN p = 1 .. 2
      BY DEF Elems
    <3>2. Do("store", l).op = "store" /\ Do("connected", l).op = "connected"
      BY DEF Do
    <3>3. Neat(p)
      BY <3>1, <3>2 DEF Neat, DialOps
    <3>4. LeasesOf(p, "connect") = {} /\ LeasesOf(p, "stopped") = {}
      BY <3>1, <3>2 DEF LeasesOf
    <3>5. Dialing(todo[t])
      <4>1. Item(t) \in Elems(todo[t])
        BY <1>0, <2>1, ItemKnown, ThenList DEF Item
      <4> QED BY <2>1, <4>1 DEF Dialing, DialOps
    <3> HIDE DEF p
    <3> QED BY <1>0, <2>1, <2>2, <3>1, <3>3, <3>4, <3>5, SameWanes, TearThen DEF Grown
  <2>3. CASE todo' = Then(t, <<Do("failed", l)>>)
    <3>1. Mild(<<Do("failed", l)>>)
      BY MildDoes DEF TearOps, DialOps
    <3> QED BY <1>0, <2>1, <2>3, <3>1, SameWanes, TearOut DEF Asks
  <2> QED BY <2>1, <2>2, <2>3
<1>2. CASE StoresTarget(l)
  <2> DEFINE t == Connect(l)
  <2>0. /\ todo[t] # <<>> /\ Item(t).op = "store"
    BY <1>2, AtItem DEF StoresTarget
  <2>1. CASE leases[l] = "connecting"
    <3>1. leases' = [leases EXCEPT ![l] = "target"] /\ todo' = Then(t, <<>>)
      BY <1>2, <2>1 DEF StoresTarget
    <3>2. leases \in [LeaseIds -> LeaseStates] /\ todo'[t] = <<>> \o Tail(todo[t])
      BY <1>0, <3>1 DEF Then, IInv, TypeInv
    <3>3. ~Dialing(todo'[t])
      <4>1. <<>> \in Seq({}) /\ Neat(<<>>) /\ ~Dialing(<<>>) /\ \A op : LeasesOf(<<>>, op) = {}
        BY DEF Neat, Dialing, LeasesOf, Elems
      <4>2. todo[t] \in Seq(Items(agg.nextLease)) /\ Neat(todo[t])
        BY <1>0, <2>0, ItemKnown DEF TearInv
      <4>3. \A m : ~(m \in LeasesOf(<<>>, "connect") /\ m \in LeasesOf(todo[t], "connect"))
        BY <4>1
      <4>4. Dialing(<<>> \o Tail(todo[t])) => Dialing(<<>>)
        BY <2>0, <4>1, <4>2, <4>3, NeatThen
      <4> QED BY <3>2, <4>1, <4>4
    <3>4. \A m \in LeaseIds : Wanes(m)
      BY <2>1, <3>1, <3>2, <3>3 DEF Wanes
    <3> QED BY <1>0, <2>0, <3>1, <3>4, TearOut, MildShort DEF Asks
  <2>2. CASE leases[l] # "connecting"
    <3>1. leases' = leases /\ \A u \in Tasks : todo'[u] = IF u = t THEN <<>> ELSE todo[u]
      BY <1>2, <2>2 DEF StoresTarget, Ends, IInv, TypeInv
    <3> QED BY <1>0, <3>1, TearMild, SameWanes, MildShort DEF Grown
  <2> QED BY <2>1, <2>2
<1>3. CASE ReportsConnected(l)
  <2>1. /\ todo[Connect(l)] # <<>> /\ Item(Connect(l)).op = "connected" /\ leases' = leases
        /\ todo' = Then(Connect(l), OnTargetConnected(agg, l).out)
    BY <1>3, AtItem DEF ReportsConnected
  <2> QED BY <1>0, <2>1, TearOut, SameWanes, FactsAreMild DEF Asks
<1>4. CASE ReportsConnectFailed(l)
  <2> DEFINE out == OnTargetConnectFailed(agg, l).out
             p == IF out = <<>> THEN <<>> ELSE <<Do("forget", l)>> \o out
  <2>1. /\ todo[Connect(l)] # <<>> /\ Item(Connect(l)).op = "failed" /\ leases' = leases
        /\ todo' = Then(Connect(l), p)
    BY <1>4, AtItem DEF ReportsConnectFailed
  <2>2. Mild(p)
    <3>1. Mild(<<Do("forget", l)>>) /\ Mild(out) /\ Mild(<<>>)
      BY MildDoes, MildShort, FactsAreMild DEF TearOps, DialOps
    <3> HIDE DEF out
    <3> QED BY <3>1, MildConcat
  <2> HIDE DEF p
  <2> QED BY <1>0, <2>1, <2>2, TearOut, SameWanes DEF Asks
<1>5. CASE ForgetsConnecting(l)
  <2>1. /\ todo[Connect(l)] # <<>> /\ Item(Connect(l)).op = "forget"
        /\ leases' = [leases EXCEPT ![l] = IF @ = "connecting" THEN "none" ELSE @]
        /\ todo' = Then(Connect(l), <<>>)
    BY <1>5, AtItem DEF ForgetsConnecting
  <2>2. \A m \in LeaseIds : Wanes(m)
    <3>1. leases \in [LeaseIds -> LeaseStates]
      BY DEF IInv, TypeInv
    <3> QED BY <2>1, <3>1 DEF Wanes
  <2> QED BY <1>0, <2>1, <2>2, TearOut, MildShort DEF Asks
<1>6. CASE TimerFires(l)
  <2>1. /\ todo[Timer(l)] # <<>> /\ Item(Timer(l)).op = "sleep" /\ leases' = leases
        /\ todo' = Then(Timer(l), <<Do("expire", l)>>)
    BY <1>6, AtItem DEF TimerFires
  <2>2. Mild(<<Do("expire", l)>>)
    BY MildDoes DEF TearOps, DialOps
  <2> QED BY <1>0, <2>1, <2>2, TearOut, SameWanes DEF Asks
<1>7. CASE ReportsExpired(l)
  <2>1. /\ todo[Timer(l)] # <<>> /\ Item(Timer(l)).op = "expire" /\ leases' = leases
        /\ todo' = Then(Timer(l), OnPendingExpired(agg, l).out)
    BY <1>7, AtItem DEF ReportsExpired
  <2> QED BY <1>0, <2>1, TearOut, SameWanes, FactsAreMild DEF Asks
<1> QED BY <1>1, <1>2, <1>3, <1>4, <1>5, <1>6, <1>7 DEF LeaseStep

\* A task does an item and goes on with a list of claims or reports.
LEMMA TearGoesOn ==
  ASSUME IInv, TearInv, Grown, \A l \in LeaseIds : Wanes(l),
         NEW t \in Tasks, NEW op, At(t, op), op # "join", NEW p, Mild(p), todo' = Then(t, p)
  PROVE  TearInv'
BY AtItem, TearOut DEF Asks

\* A task ends.
LEMMA TearEnds ==
  ASSUME IInv, TearInv, Grown, \A l \in LeaseIds : Wanes(l), NEW t \in Tasks, todo' = Ends(t)
  PROVE  TearInv'
<1>1. \A u \in Tasks : todo'[u] = IF u = t THEN <<>> ELSE todo[u]
  BY DEF Ends, IInv, TypeInv
<1> QED BY <1>1, TearMild, MildShort DEF Grown

\* The connections.
LEMMA ConnTears ==
  ASSUME IInv, TearInv, Grown, NEW c \in Conns, ConnStep(c)
  PROVE  TearInv'
<1>0. c \in Tasks /\ Mild(<<>>)
  BY TaskNames, MildShort
<1>1. CASE RequestsAdmission(c)
  <2>1. /\ todo[c] # <<>> /\ Item(c).op = "admit" /\ leases' = leases
    BY <1>1, AtItem DEF RequestsAdmission
  <2>2. PICK key \in Keys : key = Item(c).key
    BY <1>0, <2>1, ItemKnown DEF KeyOps
  <2>3. todo' = Then(c, OnAdmitRequested(agg, key).out) /\ Asks(agg, OnAdmitRequested(agg, key).out)
    BY <1>1, <2>2, AdmitCalm DEF RequestsAdmission, IInv
  <2> QED BY <1>0, <2>1, <2>3, TearOut, SameWanes
<1>2. CASE GetsOutcome(c)
  <2>1. /\ At(c, "await") /\ leases' = leases
        /\ todo' = Then(c, <<[op |-> "activate", key |-> Item(c).key]>>) \/ todo' = Ends(c)
    BY <1>2 DEF GetsOutcome
  <2> QED BY <1>0, <2>1, TearGoesOn, TearEnds, SameWanes, MildDoes
<1>3. CASE TakesTarget(c)
  <2>1. PICK l, s : l = Item(c).lease /\ s = Item(c).sid
    OBVIOUS
  <2>2. /\ At(c, "take") /\ leases' = [leases EXCEPT ![l] = "none"]
        /\ todo' = Then(c, <<DoFor("begin", s, l)>>) \/ todo' = Then(c, <<Do("ended", l)>>)
    BY <1>3, <2>1 DEF TakesTarget
  <2>3. Mild(<<DoFor("begin", s, l)>>) /\ Mild(<<Do("ended", l)>>)
    BY MildDoes DEF TearOps, DialOps
  <2>4. \A m \in LeaseIds : Wanes(m)
    BY <2>2, OneWanes
  <2> QED BY <1>0, <2>2, <2>3, <2>4, TearGoesOn
<1>4. CASE \E grace \in Graces : Activates(c, grace)
  <2>1. PICK s, l : s = Item(c).key.sid /\ l = outcome[c].token
    OBVIOUS
  <2>2. /\ At(c, "activate") /\ leases' = leases
        /\ todo' = Ends(c) \/ todo' = Then(c, <<DoFor("take", s, l)>>)
    BY <1>4, <2>1 DEF Activates
  <2>3. Mild(<<DoFor("take", s, l)>>)
    BY MildDoes DEF TearOps, DialOps
  <2> QED BY <1>0, <2>2, <2>3, TearGoesOn, TearEnds, SameWanes
<1>5. CASE BeginsRelay(c) \/ YieldsToPreemption(c) \/ Replays(c)
  <2>1. PICK s, l : s = Item(c).sid /\ l = Item(c).lease
    OBVIOUS
  <2>2. PICK next \in {"relay", "park", "begin"} :
          /\ At(c, "begin") \/ At(c, "relay") \/ At(c, "replay")
          /\ leases' = leases /\ todo' = Then(c, <<DoFor(next, s, l)>>)
    BY <1>5, <2>1 DEF BeginsRelay, YieldsToPreemption, Replays
  <2>3. Mild(<<DoFor(next, s, l)>>)
    BY MildDoes DEF TearOps, DialOps
  <2> QED BY <1>0, <2>2, <2>3, TearGoesOn, SameWanes
<1>6. CASE Parks(c)
  <2>1. PICK s, l : s = Item(c).sid /\ l = Item(c).lease
    OBVIOUS
  <2> DEFINE result == OnParked(agg, s, l, now)
             more == IF Orphaned(s, result) THEN <<DoFor("terminated", s, l)>> ELSE <<>>
  <2>2. At(c, "park") /\ leases' = leases /\ todo' = Then(c, result.out \o more)
    BY <1>6, <2>1 DEF Parks
  <2>3. Mild(result.out) /\ Mild(more)
    BY <1>0, FactsAreMild, MildDoes DEF TearOps, DialOps
  <2> HIDE DEF result, more
  <2>4. Mild(result.out \o more)
    BY <2>3, MildConcat
  <2> QED BY <1>0, <2>2, <2>4, TearGoesOn, SameWanes
<1>7. CASE RequestsResume(c)
  <2>1. PICK s, l : s = Item(c).sid /\ l = agg.index[s].lease
    OBVIOUS
  <2>2. /\ At(c, "resume") /\ leases' = leases
        /\ \E p \in {<<DoFor("replay", s, l)>>, <<DoFor("terminated", s, l)>>, <<>>,
                     <<DoFor("notify", s, l), [op |-> "resume", sid |-> s, again |-> TRUE]>>} :
             todo' = Then(c, p)
    <3>1. At(c, "resume") /\ leases' = leases
      BY <1>7 DEF RequestsResume
    <3>2. PICK result : result = OnResumeRequested(agg, s)
      OBVIOUS
    <3>3. todo' = Then(c, CASE Granted(s, result) -> <<DoFor("replay", s, l)>>
                            [] Orphaned(s, result) -> <<DoFor("terminated", s, l)>>
                            [] Preempting(s, result) /\ ~Item(c).again ->
                                 <<DoFor("notify", s, l), [op |-> "resume", sid |-> s, again |-> TRUE]>>
                            [] OTHER -> <<>>)
      BY <1>7, <2>1, <3>2 DEF RequestsResume
    <3>4. CASE Granted(s, result) \/ Orphaned(s, result) \/ (Preempting(s, result) /\ ~Item(c).again)
      BY <3>1, <3>3, <3>4
    <3>5. CASE ~(Granted(s, result) \/ Orphaned(s, result) \/ (Preempting(s, result) /\ ~Item(c).again))
      BY <3>1, <3>3, <3>5
    <3> QED BY <3>4, <3>5
  <2>3. /\ Mild(<<DoFor("replay", s, l)>>) /\ Mild(<<DoFor("terminated", s, l)>>)
        /\ Mild(<<DoFor("notify", s, l), [op |-> "resume", sid |-> s, again |-> TRUE]>>)
    BY MildDoes DEF TearOps, DialOps
  <2> QED BY <1>0, <2>2, <2>3, TearGoesOn, SameWanes
<1>8. CASE NotifiesPreempt(c)
  <2>1. At(c, "notify") /\ leases' = leases /\ todo' = Then(c, <<>>)
    BY <1>8 DEF NotifiesPreempt
  <2> QED BY <1>0, <2>1, TearGoesOn, SameWanes
<1>9. CASE Cancels(c)
  <2>1. PICK key : key = Item(c).key
    OBVIOUS
  <2>2. At(c, "cancelAttach") /\ leases' = leases /\ todo' = Then(c, OnCancelReceived(agg, key).out)
    BY <1>9, <2>1 DEF Cancels
  <2> QED BY <1>0, <2>2, TearGoesOn, SameWanes, FactsAreMild
<1> QED BY <1>1, <1>2, <1>3, <1>4, <1>5, <1>6, <1>7, <1>8, <1>9 DEF ConnStep

\* A connection starts with a mild list.
LEMMA TearStarts ==
  ASSUME IInv, TearInv, Grown, leases' = leases, NEW c \in Tasks, NEW p, Mild(p), todo' = Starts(c, p)
  PROVE  TearInv'
<1>1. \A u \in Tasks : todo'[u] = IF u = c THEN p ELSE todo[u]
  BY DEF Starts, IInv, TypeInv
<1> QED BY <1>1, TearMild, SameWanes DEF Grown

\* Peers, the target, panics, the sweep and the clock.
LEMMA EnvironmentTears ==
  ASSUME IInv, TearInv, Grown, Environment
  PROVE  TearInv'
<1>0. \A c \in Conns : c \in Tasks
  BY TaskNames
<1>1. ASSUME NEW c \in Conns, NEW key \in Keys, SendsHello(c, key) \/ SendsCancel(c, key)
      PROVE  TearInv'
  <2>1. /\ leases' = leases
        /\ \/ todo' = Starts(c, <<[op |-> "admit", key |-> key], [op |-> "await", key |-> key]>>)
           \/ todo' = Starts(c, <<[op |-> "cancelAttach", key |-> key]>>)
    BY <1>1 DEF SendsHello, SendsCancel
  <2> QED BY <1>0, <2>1, TearStarts, MildDoes
<1>2. ASSUME NEW c \in Conns, NEW s \in Sessions, SendsResume(c, s) PROVE TearInv'
  <2>1. leases' = leases /\ todo' = Starts(c, <<[op |-> "resume", sid |-> s, again |-> FALSE]>>)
    BY <1>2 DEF SendsResume
  <2> QED BY <1>0, <2>1, TearStarts, MildDoes
<1>3. ASSUME NEW c \in Conns, TargetDies(c) \/ DataStreamDies(c) PROVE TearInv'
  <2>1. PICK s, l : s = Item(c).sid /\ l = Item(c).lease
    OBVIOUS
  <2>2. /\ At(c, "relay") /\ leases' = leases
        /\ \/ todo' = Then(c, <<Do("ended", l), DoFor("terminated", s, l)>>)
           \/ todo' = Then(c, <<DoFor("park", s, l)>>)
    BY <1>3, <2>1 DEF TargetDies, DataStreamDies
  <2>3. Mild(<<DoFor("park", s, l)>>)
    BY MildDoes DEF TearOps, DialOps
  <2> QED BY <1>0, <2>2, <2>3, TearGoesOn, SameWanes, MildDoes
<1>4. ASSUME NEW c \in Conns, Panics(c) PROVE TearInv'
  <2>1. PICK s, l : s = Item(c).sid /\ l = Item(c).lease
    OBVIOUS
  <2>2. leases' = leases /\ LeaseDrop(c) \in Tasks /\ EntryDrop(c) \in Tasks
    BY <1>4, TaskNames DEF Panics
  <2>3. Mild(<<DoFor("terminated", s, l)>>) /\ Mild(<<Do("ended", l)>>) /\ Mild(<<>>)
    BY MildDoes, MildShort DEF TearOps, DialOps
  <2>4. \A u \in Tasks : todo'[u] \in {todo[u], <<>>, <<DoFor("terminated", s, l)>>, <<Do("ended", l)>>}
    BY <1>4, <2>1, <2>2 DEF Panics, Ends, IInv, TypeInv
  <2> QED BY <1>0, <2>2, <2>3, <2>4, TearMild, SameWanes DEF Grown
<1>5. ASSUME NEW c \in Conns, GivesUpHello(c) PROVE TearInv'
  <2>1. leases' = leases /\ todo' = Ends(c)
    BY <1>5 DEF GivesUpHello
  <2> QED BY <1>0, <2>1, TearEnds, SameWanes
<1>6. ASSUME leases' = leases, todo' = todo PROVE TearInv'
  <2>1. agg.nextLease \in Nat /\ Minted(agg.nextLease) \subseteq Minted(agg'.nextLease)
    BY MintedGrows, Fields DEF Grown, IInv
  <2> QED BY <1>6, <2>1 DEF TearInv
<1>7. ASSUME NEW c \in Conns, GivesUpReplay(c) PROVE TearInv'
  BY <1>6, <1>7 DEF GivesUpReplay
<1>8. CASE SweepsParked \/ Tick
  BY <1>6, <1>8 DEF SweepsParked, Tick, shell
<1> QED BY <1>1, <1>2, <1>3, <1>4, <1>5, <1>7, <1>8 DEF Environment

LEMMA TearInvariance == Spec => []TearInv
<1>1. Init => TearInv
  <2> SUFFICES ASSUME Init PROVE TearInv
    OBVIOUS
  <2>1. /\ \A t \in Tasks : todo[t] = <<>>
        /\ \A l \in LeaseIds : leases[l] = "none" /\ Connect(l) \in Tasks
    BY TaskNames DEF Init
  <2>2. Neat(<<>>) /\ ~Dialing(<<>>) /\ \A op : LeasesOf(<<>>, op) = {}
    BY DEF Neat, Dialing, LeasesOf, Elems
  <2> QED BY <2>1, <2>2 DEF TearInv
<1>2. IInv /\ TearInv /\ [Next]_vars => TearInv'
  <2> SUFFICES ASSUME IInv, TearInv, [Next]_vars PROVE TearInv'
    OBVIOUS
  <2>1. CASE UNCHANGED vars
    BY <2>1 DEF vars, TearInv
  <2>2. CASE Progress
    <3>1. Grown
      BY <2>2, NextGrows DEF Next
    <3> QED BY <2>2, <3>1, EffectTears, LeaseTears, ConnTears DEF Progress
  <2>3. CASE Environment
    <3>1. Grown
      BY <2>3, NextGrows DEF Next
    <3> QED BY <2>3, <3>1, EnvironmentTears
  <2> QED BY <2>1, <2>2, <2>3 DEF Next
<1> QED BY <1>1, <1>2, Invariance, PTL DEF Spec

\* A larger generation gets its lease only once nothing of the old attempt can still
\* reach the target: its entry is out of the map and its connect task is over,
\* however cancels, aborts, joins, failed connects and stale reports interleave.
THEOREM SupersedeWaits == Spec => SupersedeWaitsForTeardown
<1> DEFINE A == \A s \in Sessions : agg.slots[s].st = "closing" /\ agg'.slots[s].st = "connecting"
                                      => Torn(agg.slots[s].lease)
<1>1. ASSUME IInv, TearInv, Next PROVE A
  <2>1. CASE OtherEvent
    BY <1>1, <2>1, OthersCalm DEF Calm
  <2>2. ASSUME NEW t \in Tasks, ReportsStopped(t) PROVE A
    <3>1. PICK l : l = Item(t).lease
      OBVIOUS
    <3>2. todo[t] # <<>> /\ Item(t).op = "stopped" /\ agg' = OnLeaseStopped(agg, l).agg
      BY <2>2, <3>1, AtItem DEF ReportsStopped, ApplyWith
    <3>3. l \in LeaseIds /\ Connect(l) \in Tasks /\ l \in LeasesOf(todo[t], "stopped")
      <4>1. l \in LeaseIds /\ todo[t] \in Seq(Items(agg.nextLease))
        BY <1>1, <3>1, <3>2, ItemKnown DEF LeaseOps
      <4>2. Item(t) \in Elems(todo[t])
        BY <3>2, <4>1, ThenList DEF Item
      <4> QED BY <3>1, <3>2, <4>1, <4>2, TaskNames DEF LeasesOf
    <3>4. leases[l] = "none" /\ ~Dialing(todo[Connect(l)])
      BY <1>1, <3>2, <3>3 DEF TearInv, Joining, Item
    <3>5. \A op \in DialOps : ~At(Connect(l), op)
      <4> SUFFICES ASSUME NEW op \in DialOps, At(Connect(l), op) PROVE FALSE
        OBVIOUS
      <4>1. todo[Connect(l)] # <<>> /\ Item(Connect(l)).op = op
        BY AtItem
      <4>2. Item(Connect(l)) \in Elems(todo[Connect(l)])
        BY <1>1, <3>3, <4>1, ItemKnown, ThenList DEF Item
      <4> QED BY <3>4, <4>1, <4>2 DEF Dialing
    <3>6. Torn(l)
      BY <3>4, <3>5 DEF Torn, DialOps
    <3>7. \A s \in Sessions : agg.slots[s].st = "closing" /\ agg'.slots[s].st = "connecting"
                                => agg.slots[s].lease = l
      BY <1>1, <3>2, StoppedCalm DEF IInv
    <3> QED BY <3>6, <3>7
  <2>3. CASE Tick
    BY <2>3 DEF Tick
  <2>4. CASE Progress
    BY <1>1, <2>1, <2>2, <2>4, EffectEvents, LeaseEvents, ConnEvents DEF Progress
  <2>5. CASE Environment /\ ~Tick
    BY <1>1, <2>1, <2>5, EnvironmentEvents
  <2> QED BY <1>1, <2>3, <2>4, <2>5 DEF Next
<1>2. IInv /\ TearInv /\ [Next]_vars => [A]_vars
  BY <1>1
<1> QED BY <1>2, Invariance, TearInvariance, PTL DEF Spec, SupersedeWaitsForTeardown
=============================================================================
