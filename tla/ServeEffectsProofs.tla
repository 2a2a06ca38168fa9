------------------------- MODULE ServeEffectsProofs -------------------------
(***************************************************************************)
(* What the reducers of ServeFsm tell the shell: the effects they return,  *)
(* and how the aggregate they return differs from the one they were given. *)
(* These are the facts the proofs about AttachRuntime rest on.             *)
(***************************************************************************)
EXTENDS ServeFsmProofs

(***************************************************************************)
(* The in-lock effects.  There is at most one for a session, and it tells  *)
(* the socket map exactly what became of the session's entry.              *)
(***************************************************************************)
SameEntry(e, f) == e.present = f.present /\ e.lease = f.lease /\ e.parked = f.parked
Holds(e, l) == e.present /\ e.lease = l

Tells(e, f, fx) ==
  \/ fx.op = "register" /\ Holds(f, fx.lease) /\ ~f.parked
  \/ fx.op = "discard" /\ Holds(e, fx.lease) /\ ~f.present /\ ~f.parked
  \/ fx.op = "store" /\ Holds(e, fx.lease) /\ Holds(f, fx.lease) /\ f.parked
  \/ fx.op = "granted" /\ Holds(e, fx.lease) /\ Holds(f, fx.lease) /\ e.parked /\ ~f.parked
  \/ fx.op = "preempt" /\ Holds(e, fx.lease) /\ SameEntry(e, f)
  \/ fx.op = "rejected" /\ SameEntry(e, f)

Follows(a, r) ==
  \A s \in Sessions :
    \/ /\ \A fx \in r.io : fx.sid # s
       /\ SameEntry(a.index[s], r.agg.index[s])
    \/ \E fx \in r.io : /\ \A fy \in r.io : fy.sid = s <=> fy = fx
                        /\ Tells(a.index[s], r.agg.index[s], fx)

(***************************************************************************)
(* The out-of-lock effects of the arbiter: about leases that are minted.   *)
(***************************************************************************)
Minted(n) == 0 .. (n - 1)
Reasons == {"StaleGeneration", "AlreadyAttached", "AttachAlreadyEstablished", "Target",
            "BusyOtherSession"}
Effects(n) ==
  [op : {"connect", "cancel", "arm"}, lease : Minted(n)]
  \cup [op : {"ready"}, key : SlotKeys, token : Minted(n)]
  \cup [op : {"reject"}, key : SlotKeys, reason : Reasons]

(***************************************************************************)
(* A quiet event: nobody who holds a target notices.  An entry that is not *)
(* parked stays as it is, nothing is parked or established, and a lease    *)
(* appears in a slot only when it is new.                                  *)
(***************************************************************************)
QuietAt(a, b, s) ==
  /\ a.index[s].present /\ ~a.index[s].parked => SameEntry(a.index[s], b.index[s])
  /\ b.index[s].parked => a.index[s].parked /\ b.index[s].lease = a.index[s].lease
  /\ b.slots[s].st = "established" =>
       /\ a.slots[s].st = "established" /\ b.slots[s].lease = a.slots[s].lease
       /\ a.index[s].parked => b.index[s].parked
  /\ b.slots[s].st # "absent" =>
       \/ b.slots[s].lease >= a.nextLease
       \/ /\ a.slots[s].st # "absent" /\ a.slots[s].lease = b.slots[s].lease
          /\ a.slots[s].st = "established" => b.slots[s].st = "established"
Quiet(a, b) == a.nextLease <= b.nextLease /\ \A s \in Sessions : QuietAt(a, b, s)

\* The leases an aggregate has minted or will mint for the attempts it knows.
ClosingSlots(a) == {s \in Sessions : a.slots[s].st = "closing"}
Owes(a) == a.nextLease + Cardinality(ClosingSlots(a))

\* A quiet event with its effects.
QuietResult(a, r) ==
  /\ AggInv(r.agg) /\ Follows(a, r) /\ Quiet(a, r.agg)
  /\ r.out \in Seq(Effects(r.agg.nextLease))

-----------------------------------------------------------------------------
\* The fields of an aggregate have their types.
LEMMA Fields ==
  ASSUME NEW a, AggInv(a)
  PROVE  /\ a.nextLease \in Nat
         /\ \A s \in Sessions :
              /\ a.slots[s] \in Slots /\ a.slots[s].lease \in Nat
              /\ a.index[s] \in Entries /\ a.index[s].lease \in Nat
              /\ a.index[s].present \in BOOLEAN /\ a.index[s].parked \in BOOLEAN
              /\ a.index[s].unresumable \in BOOLEAN
              /\ a.slots[s].st # "absent" => a.slots[s].lease \in Minted(a.nextLease)
              /\ a.index[s].present => a.slots[s].st = "established"
                                       /\ a.index[s].lease = a.slots[s].lease
<1>1. a.nextLease \in Nat
  BY DEF AggInv, Aggregates
<1>2. \A s \in Sessions : a.slots[s] \in Slots /\ a.index[s] \in Entries
  BY DEF AggInv, Aggregates
<1>3. \A s \in Sessions :
        /\ a.slots[s].lease \in Nat /\ a.index[s].lease \in Nat
        /\ a.index[s].present \in BOOLEAN /\ a.index[s].parked \in BOOLEAN
        /\ a.index[s].unresumable \in BOOLEAN
  BY <1>2 DEF Slots, Entries
<1>4. \A s \in Sessions : a.slots[s].st # "absent" => a.slots[s].lease < a.nextLease
  BY DEF AggInv, LeasesDistinct, Occupied
<1>5. \A s \in Sessions : a.slots[s].st # "absent" => a.slots[s].lease \in Minted(a.nextLease)
  BY <1>1, <1>3, <1>4 DEF Minted
<1>6. \A s \in Sessions : a.index[s].present => a.slots[s].st = "established"
                                                /\ a.index[s].lease = a.slots[s].lease
  BY DEF AggInv, IndexMatches
<1> QED BY <1>1, <1>2, <1>3, <1>5, <1>6

\* What was minted stays minted.
LEMMA MintedGrows ==
  ASSUME NEW m \in Nat, NEW n \in Nat, m <= n
  PROVE  Minted(m) \subseteq Minted(n) /\ Effects(m) \subseteq Effects(n)
<1>1. Minted(m) \subseteq Minted(n)
  BY DEF Minted
<1> QED BY <1>1 DEF Effects

\* An event that leaves entries alone and returns no in-lock effect.
LEMMA FollowsNothing ==
  ASSUME NEW a, NEW r, r.io = {}, r.agg.index = a.index
  PROVE  Follows(a, r)
BY DEF Follows, SameEntry

\* An event that is ignored.
LEMMA QuietSame ==
  ASSUME NEW a, AggInv(a)
  PROVE  Quiet(a, a)
<1>1. a.nextLease <= a.nextLease
  BY Fields
<1>2. \A s \in Sessions : QuietAt(a, a, s)
  BY Fields DEF QuietAt, SameEntry
<1> QED BY <1>1, <1>2 DEF Quiet

\* Ignored events are quiet.
LEMMA QuietIgnored ==
  ASSUME NEW a, AggInv(a)
  PROVE  QuietResult(a, Ignored(a)) /\ Ignored(a).agg = a /\ Ignored(a).out = <<>>
<1>1. Ignored(a).agg = a /\ Ignored(a).io = {} /\ Ignored(a).out = <<>>
  BY DEF Ignored, Result
<1>2. Follows(a, Ignored(a))
  BY <1>1, FollowsNothing
<1> QED BY <1>1, <1>2, QuietSame DEF QuietResult

\* Two quiet events in a row.
LEMMA QuietTwice ==
  ASSUME NEW a, NEW b, NEW c, AggInv(a), AggInv(b), AggInv(c), Quiet(a, b), Quiet(b, c)
  PROVE  Quiet(a, c)
<1>1. /\ a.nextLease \in Nat /\ b.nextLease \in Nat /\ c.nextLease \in Nat
      /\ a.nextLease <= b.nextLease /\ b.nextLease <= c.nextLease
  BY Fields DEF Quiet
<1>2. ASSUME NEW s \in Sessions PROVE QuietAt(a, c, s)
  <2>1. QuietAt(a, b, s) /\ QuietAt(b, c, s) /\ c.slots[s].lease \in Nat
    BY Fields DEF Quiet
  <2>2. c.slots[s].lease >= b.nextLease => c.slots[s].lease >= a.nextLease
    BY <1>1, <2>1
  <2> QED BY <2>1, <2>2 DEF QuietAt, SameEntry
<1> QED BY <1>1, <1>2 DEF Quiet

\* A change of one slot that is not Established, to a state that is not.
LEMMA QuietSlot ==
  ASSUME NEW a, NEW b, AggInv(a), NEW s \in Sessions, NEW new,
         a.slots[s].st # "established", new.st # "established",
         b.index = a.index, b.nextLease \in Nat, a.nextLease <= b.nextLease,
         \A t \in Sessions : b.slots[t] = IF t = s THEN new ELSE a.slots[t],
         \/ new.st = "absent"
         \/ new.lease >= a.nextLease
         \/ a.slots[s].st # "absent" /\ new.lease = a.slots[s].lease
  PROVE  Quiet(a, b)
<1>1. \A t \in Sessions : t # s => QuietAt(a, b, t)
  BY Fields DEF QuietAt, SameEntry
<1>2. QuietAt(a, b, s)
  BY Fields DEF QuietAt, SameEntry
<1> QED BY <1>1, <1>2 DEF Quiet

-----------------------------------------------------------------------------
\* What the three rewrites of an aggregate leave in its fields.
LEMMA SetSlotFields ==
  ASSUME NEW a, AggInv(a), NEW s \in Sessions, NEW new
  PROVE  LET b == SetSlot(a, s, new) IN
         /\ b.index = a.index /\ b.nextLease = a.nextLease
         /\ \A t \in Sessions : b.slots[t] = IF t = s THEN new ELSE a.slots[t]
BY DEF AggInv, Aggregates, SetSlot

\* What a new lease leaves in the fields.
LEMMA MintFields ==
  ASSUME NEW a, AggInv(a), NEW s \in Sessions, NEW key
  PROVE  LET b == MintInto(a, s, key) IN
         /\ b.index = a.index /\ b.nextLease = a.nextLease + 1
         /\ \A t \in Sessions :
              b.slots[t] = IF t = s THEN Slot("connecting", key, a.nextLease) ELSE a.slots[t]
BY DEF AggInv, Aggregates, MintInto

\* What a discard leaves in the fields.
LEMMA DiscardFields ==
  ASSUME NEW a, AggInv(a), NEW S \in SUBSET Sessions
  PROVE  LET b == DiscardAll(a, S) IN
         /\ b.nextLease = a.nextLease
         /\ \A t \in Sessions : b.index[t] = IF t \in S THEN NoEntry ELSE a.index[t]
         /\ \A t \in Sessions :
              b.slots[t] = IF t \in S /\ a.index[t].present THEN NoSlot ELSE a.slots[t]
BY DEF AggInv, Aggregates, DiscardAll, IsEstablished, IndexMatches, NoEntry, Entries, Slots

\* What a new entry leaves in the fields.
LEMMA SetEntryFields ==
  ASSUME NEW a, AggInv(a), NEW s \in Sessions, NEW entry
  PROVE  LET b == SetEntry(a, s, entry) IN
         /\ b.slots = a.slots /\ b.nextLease = a.nextLease
         /\ \A t \in Sessions : b.index[t] = IF t = s THEN entry ELSE a.index[t]
BY DEF AggInv, Aggregates, SetEntry

\* The slots being closed are finitely many.
LEMMA ClosingFinite ==
  ASSUME NEW a
  PROVE  IsFiniteSet(ClosingSlots(a)) /\ Cardinality(ClosingSlots(a)) \in Nat
BY SessionsAssumption, FS_Subset, FS_CardinalityType DEF ClosingSlots

\* No slot more is being closed, and no lease is minted.
LEMMA OwesNoMore ==
  ASSUME NEW a, NEW b, AggInv(a), b.nextLease = a.nextLease,
         ClosingSlots(b) \subseteq ClosingSlots(a)
  PROVE  Owes(b) <= Owes(a)
<1>1. Cardinality(ClosingSlots(b)) <= Cardinality(ClosingSlots(a))
  BY ClosingFinite, FS_Subset, Zenon
<1> QED BY <1>1, ClosingFinite, Fields DEF Owes

\* A lease is minted, or one slot more is being closed.
LEMMA OwesOneMore ==
  ASSUME NEW a, NEW b, AggInv(a), NEW s \in Sessions,
         \/ b.nextLease = a.nextLease + 1 /\ ClosingSlots(b) \subseteq ClosingSlots(a)
         \/ b.nextLease = a.nextLease /\ ClosingSlots(b) \subseteq ClosingSlots(a) \cup {s}
  PROVE  Owes(b) <= Owes(a) + 1
<1> DEFINE A == ClosingSlots(a)
           B == ClosingSlots(b)
<1>1. IsFiniteSet(A) /\ Cardinality(A) \in Nat /\ Cardinality(B) \in Nat /\ a.nextLease \in Nat
  BY ClosingFinite, Fields
<1>2. CASE b.nextLease = a.nextLease + 1 /\ B \subseteq A
  <2>1. Cardinality(B) <= Cardinality(A)
    BY <1>1, <1>2, FS_Subset, Zenon
  <2> QED BY <1>1, <1>2, <2>1 DEF Owes
<1>3. CASE b.nextLease = a.nextLease /\ B \subseteq A \cup {s}
  <2>1. /\ IsFiniteSet(A \cup {s})
        /\ Cardinality(A \cup {s}) = IF s \in A THEN Cardinality(A) ELSE Cardinality(A) + 1
    BY <1>1, FS_AddElement, Zenon
  <2>2. Cardinality(B) <= Cardinality(A \cup {s})
    BY <1>3, <2>1, FS_Subset, Zenon
  <2>3. Cardinality(B) <= Cardinality(A) + 1
    BY <1>1, <2>1, <2>2
  <2> QED BY <1>1, <1>3, <2>3 DEF Owes
<1> QED BY <1>2, <1>3

\* The lease that was owed to a slot being closed is minted.
LEMMA OwesPaid ==
  ASSUME NEW a, NEW b, AggInv(a), NEW s \in ClosingSlots(a),
         b.nextLease = a.nextLease + 1, ClosingSlots(b) \subseteq ClosingSlots(a) \ {s}
  PROVE  Owes(b) <= Owes(a)
<1> DEFINE A == ClosingSlots(a)
           B == ClosingSlots(b)
<1>1. IsFiniteSet(A) /\ Cardinality(A) \in Nat /\ Cardinality(B) \in Nat /\ a.nextLease \in Nat
  BY ClosingFinite, Fields
<1>2. IsFiniteSet(A \ {s}) /\ Cardinality(A \ {s}) = Cardinality(A) - 1
  BY <1>1, FS_RemoveElement
<1>3. Cardinality(B) <= Cardinality(A \ {s})
  BY <1>2, FS_Subset, Zenon
<1> QED BY <1>1, <1>2, <1>3 DEF Owes

-----------------------------------------------------------------------------
(***************************************************************************)
(* The quiet reducers.                                                     *)
(***************************************************************************)

\* Lists of one and of two effects.
LEMMA ShortLists ==
  ASSUME NEW S, NEW x \in S, NEW y \in S
  PROVE  <<>> \in Seq(S) /\ <<x>> \in Seq(S) /\ <<x, y>> \in Seq(S)
OBVIOUS

\* ATTACH_HELLO: what it asks the shell to do, and that at most one lease more
\* is owed.
LEMMA HelloReceivedQuiet ==
  ASSUME NEW a, AggInv(a), NEW key \in Keys,
         HasSession(a, key.sid) \/ SessionCount(a) < MaxSessions
  PROVE  LET r == OnHelloReceived(a, key) IN
         /\ AggInv(r.agg) /\ Quiet(a, r.agg) /\ r.io = {} /\ r.agg.index = a.index
         /\ r.out \in Seq(Effects(r.agg.nextLease))
         /\ Owes(r.agg) <= Owes(a) + 1
<1> DEFINE s == key.sid
           slot == a.slots[s]
           r == OnHelloReceived(a, key)
           n == a.nextLease
           moved == SetSlot(a, s, Slot("closing", key, slot.lease))
           minted == MintInto(a, s, key)
<1>0. /\ s \in Sessions /\ key \in SlotKeys /\ key.gen \in Nat /\ slot \in Slots /\ n \in Nat
      /\ KeyAt(s, slot) \in SlotKeys
      /\ slot.st # "absent" => slot.lease \in Minted(n)
  <2>1. s \in Sessions /\ key \in SlotKeys /\ key.gen \in Nat
    BY KeysAreSlotKeys, GenerationsAssumption DEF Keys
  <2> QED BY <2>1, Fields, KeyOfSlot
<1>1. AggInv(r.agg)
  BY HelloReceivedInv
<1>2. CASE slot.st = "absent"
  <2>1. r = Result(minted, {}, <<ConnectTarget(n)>>)
    BY <1>2 DEF OnHelloReceived
  <2>2. r.agg = minted /\ r.io = {} /\ r.out = <<ConnectTarget(n)>>
    BY <2>1 DEF Result
  <2>3. /\ minted.index = a.index /\ minted.nextLease = n + 1
        /\ \A t \in Sessions :
             minted.slots[t] = IF t = s THEN Slot("connecting", key, n) ELSE a.slots[t]
    BY <1>0, MintFields
  <2>4. Slot("connecting", key, n).st = "connecting" /\ Slot("connecting", key, n).lease = n
    BY DEF Slot
  <2>5. Quiet(a, minted)
    <3>1. n + 1 \in Nat /\ n <= n + 1 /\ n >= n
      BY <1>0
    <3> QED BY <1>0, <1>2, <2>3, <2>4, <3>1, QuietSlot
  <2>6. ConnectTarget(n) \in Effects(n + 1)
    BY <1>0 DEF ConnectTarget, Effects, Minted
  <2>7. ClosingSlots(minted) \subseteq ClosingSlots(a)
    BY <2>3, <2>4 DEF ClosingSlots
  <2>8. Owes(minted) <= Owes(a) + 1
    BY <1>0, <2>3, <2>7, OwesOneMore
  <2> QED BY <1>1, <2>2, <2>3, <2>5, <2>6, <2>8
<1>3. CASE slot.st \in {"connecting", "pending", "closing"}
  <2> DEFINE cur == KeyAt(s, slot)
             outs == {<<>>, <<SendReject(key, "StaleGeneration")>>,
                      <<SendReject(key, "AlreadyAttached")>>, <<SendReady(key, slot.lease)>>,
                      <<SendReject(cur, "StaleGeneration")>>,
                      <<SendReject(cur, "StaleGeneration"), CancelLease(slot.lease)>>}
  <2>1. /\ r.agg \in {a, moved} /\ r.io = {} /\ r.out \in outs
    <3>1. CASE slot.st \in {"connecting", "pending"}
      <4>1. r = DecideAgainstInFlight(a, key, slot)
        BY <3>1 DEF OnHelloReceived
      <4>2. cur.gen \in Nat /\ (key.gen < cur.gen \/ key.gen > cur.gen \/ key.gen = cur.gen)
        BY <1>0 DEF SlotKeys
      <4>3. key.gen = cur.gen /\ key.att = cur.att => key = cur
        BY <1>0 DEF SlotKeys, KeyAt
      <4> QED BY <4>1, <4>2, <4>3 DEF DecideAgainstInFlight, Result, Ignored
    <3>2. CASE slot.st = "closing"
      <4>1. r = DecideAgainstClosing(a, key, slot)
        BY <3>2 DEF OnHelloReceived
      <4>2. cur.gen \in Nat /\ (key.gen < cur.gen \/ key.gen > cur.gen \/ key.gen = cur.gen)
        BY <1>0 DEF SlotKeys
      <4> QED BY <4>1, <4>2 DEF DecideAgainstClosing, Result, Ignored
    <3> QED BY <1>3, <3>1, <3>2
  <2>2. /\ moved.index = a.index /\ moved.nextLease = n
        /\ \A t \in Sessions :
             moved.slots[t] = IF t = s THEN Slot("closing", key, slot.lease) ELSE a.slots[t]
    BY <1>0, SetSlotFields
  <2>3. Slot("closing", key, slot.lease).st = "closing"
        /\ Slot("closing", key, slot.lease).lease = slot.lease
    BY DEF Slot
  <2>4. Quiet(a, moved)
    <3>1. n <= n
      BY <1>0
    <3> QED BY <1>0, <1>3, <2>2, <2>3, <3>1, QuietSlot
  <2>5. Quiet(a, r.agg) /\ r.agg.index = a.index /\ r.agg.nextLease = n
    BY <2>1, <2>2, <2>4, QuietSame
  <2>6. Owes(r.agg) <= Owes(a) + 1
    <3>1. ClosingSlots(r.agg) \subseteq ClosingSlots(a) \cup {s}
      BY <2>1, <2>2, <2>3 DEF ClosingSlots
    <3> QED BY <1>0, <2>5, <3>1, OwesOneMore
  <2>7. outs \subseteq Seq(Effects(n))
    <3>1. /\ SendReject(key, "StaleGeneration") \in Effects(n)
          /\ SendReject(key, "AlreadyAttached") \in Effects(n)
          /\ SendReject(cur, "StaleGeneration") \in Effects(n)
      BY <1>0 DEF SendReject, Effects, Reasons
    <3>2. SendReady(key, slot.lease) \in Effects(n) /\ CancelLease(slot.lease) \in Effects(n)
      BY <1>0, <1>3 DEF SendReady, CancelLease, Effects
    <3> QED BY <3>1, <3>2, ShortLists
  <2> QED BY <1>1, <2>1, <2>5, <2>6, <2>7
<1>4. CASE slot.st = "established"
  <2>1. r.agg = a /\ r.io = {} /\ r.out = <<SendReject(key, "AttachAlreadyEstablished")>>
    BY <1>4 DEF OnHelloReceived, Result
  <2>2. SendReject(key, "AttachAlreadyEstablished") \in Effects(n)
    BY <1>0 DEF SendReject, Effects, Reasons
  <2>3. Owes(a) <= Owes(a) + 1
    BY <1>0, ClosingFinite DEF Owes
  <2> QED BY <1>1, <2>1, <2>2, <2>3, QuietSame, ShortLists
<1> QED BY <1>0, <1>2, <1>3, <1>4 DEF Slots, SlotStates


\* Discarding parked sessions is quiet, and the shell is told of each.
LEMMA DiscardQuiet ==
  ASSUME NEW a, AggInv(a), NEW S \in SUBSET Parked(a)
  PROVE  LET b == DiscardAll(a, S) IN
         /\ AggInv(b) /\ Quiet(a, b) /\ Owes(b) <= Owes(a)
         /\ \A t \in Sessions : t \notin S => b.index[t] = a.index[t]
         /\ \A t \in S : ~b.index[t].present /\ ~b.index[t].parked
<1> DEFINE b == DiscardAll(a, S)
<1>0. S \in SUBSET Sessions /\ \A t \in S : a.index[t].present /\ a.index[t].parked
  BY DEF Parked
<1>1. AggInv(b)
  BY <1>0, DiscardSlots
<1>2. /\ b.nextLease = a.nextLease
      /\ \A t \in Sessions : b.index[t] = IF t \in S THEN NoEntry ELSE a.index[t]
      /\ \A t \in Sessions : b.slots[t] = IF t \in S THEN NoSlot ELSE a.slots[t]
  BY <1>0, DiscardFields
<1>3. \A t \in Sessions : QuietAt(a, b, t)
  BY <1>0, <1>2, Fields DEF QuietAt, SameEntry, NoEntry, NoSlot
<1>4. a.nextLease <= b.nextLease
  BY <1>2, Fields
<1>5. ClosingSlots(b) \subseteq ClosingSlots(a)
  BY <1>2 DEF ClosingSlots, NoSlot
<1>6. Owes(b) <= Owes(a)
  BY <1>2, <1>5, OwesNoMore
<1> QED BY <1>0, <1>1, <1>2, <1>3, <1>4, <1>6 DEF Quiet, NoEntry

\* The effects of a discard name each session of the set once.
LEMMA DiscardsTell ==
  ASSUME NEW a, NEW S \in SUBSET Sessions, \A t \in S : a.index[t].present, NEW r,
         r.io = Discards(a, S),
         \A t \in Sessions \ S : SameEntry(a.index[t], r.agg.index[t]),
         \A t \in S : ~r.agg.index[t].present /\ ~r.agg.index[t].parked
  PROVE  Follows(a, r)
<1> SUFFICES ASSUME NEW s \in Sessions
             PROVE  \/ /\ \A fx \in r.io : fx.sid # s
                       /\ SameEntry(a.index[s], r.agg.index[s])
                    \/ \E fx \in r.io : /\ \A fy \in r.io : fy.sid = s <=> fy = fx
                                        /\ Tells(a.index[s], r.agg.index[s], fx)
  BY DEF Follows
<1>1. CASE s \notin S
  BY <1>1 DEF Discards, Discard
<1>2. CASE s \in S
  <2> DEFINE fx == Discard(s, a.index[s].lease)
  <2>1. fx \in r.io /\ fx.op = "discard" /\ fx.lease = a.index[s].lease /\ fx.sid = s
    BY <1>2 DEF Discards, Discard
  <2>2. \A fy \in r.io : fy.sid = s <=> fy = fx
    BY DEF Discards, Discard
  <2>3. Tells(a.index[s], r.agg.index[s], fx)
    BY <1>2, <2>1 DEF Tells, Holds
  <2> QED BY <2>1, <2>2, <2>3
<1> QED BY <1>1, <1>2

\* An eviction frees a slot.
LEMMA EvictionMakesRoom ==
  ASSUME NEW a, AggInv(a), NEW S \in SUBSET Parked(a), S # {}
  PROVE  SessionCount(DiscardAll(a, S)) < MaxSessions
<1> DEFINE b == DiscardAll(a, S)
<1>1. S \in SUBSET Sessions /\ S \subseteq Indexed(a) /\ Indexed(a) \subseteq Occupied(a)
  BY DEF Parked, Indexed, Occupied, AggInv, IndexMatches
<1>2. Occupied(b) = Occupied(a) \ (S \cap Indexed(a))
  BY <1>1, DiscardSlots
<1>3. Occupied(b) \subseteq Occupied(a) /\ Occupied(b) # Occupied(a)
  BY <1>1, <1>2
<1>4. /\ IsFiniteSet(Occupied(a)) /\ Cardinality(Occupied(a)) \in Nat
      /\ Cardinality(Occupied(b)) \in Nat
  BY OccupiedFinite DEF SessionCount
<1>5. /\ Cardinality(Occupied(b)) <= Cardinality(Occupied(a))
      /\ Cardinality(Occupied(b)) # Cardinality(Occupied(a))
  BY <1>3, <1>4, FS_Subset, Zenon
<1>6. Cardinality(Occupied(a)) <= MaxSessions
  BY DEF AggInv, WithinCapacity, SessionCount
<1> QED BY <1>4, <1>5, <1>6, MaxSessionsAssumption DEF SessionCount

\* ATTACH_HELLO with admission: at most one lease more is owed.
LEMMA AdmitRequestedQuiet ==
  ASSUME NEW a, AggInv(a), NEW key \in Keys
  PROVE  LET r == OnAdmitRequested(a, key) IN
         QuietResult(a, r) /\ Owes(r.agg) <= Owes(a) + 1
<1> DEFINE victims == OldestParked(a)
           b == DiscardAll(a, victims)
           r == OnAdmitRequested(a, key)
<1>0. /\ AggInv(r.agg) /\ victims \in SUBSET Parked(a) /\ victims \in SUBSET Sessions
      /\ \A t \in victims : a.index[t].present
  BY AdmitRequestedInv DEF OldestParked, Parked
<1>1. CASE HasSession(a, key.sid) \/ SessionCount(a) < MaxSessions
  <2>1. r = OnHelloReceived(a, key)
    BY <1>1 DEF OnAdmitRequested
  <2>2. Follows(a, r)
    BY <1>1, <2>1, HelloReceivedQuiet, FollowsNothing
  <2> QED BY <1>0, <1>1, <2>1, <2>2, HelloReceivedQuiet DEF QuietResult
<1>2. CASE ~(HasSession(a, key.sid) \/ SessionCount(a) < MaxSessions) /\ victims = {}
  <2>1. r.agg = a /\ r.io = {} /\ r.out = <<SendReject(key, "BusyOtherSession")>>
    BY <1>2 DEF OnAdmitRequested, Result
  <2>2. SendReject(key, "BusyOtherSession") \in Effects(a.nextLease)
    BY KeysAreSlotKeys DEF SendReject, Effects, Reasons
  <2>3. Owes(a) <= Owes(a) + 1
    BY Fields, ClosingFinite DEF Owes
  <2>4. r.out \in Seq(Effects(r.agg.nextLease))
    BY <2>1, <2>2, ShortLists
  <2> QED BY <1>0, <2>1, <2>3, <2>4, QuietSame, FollowsNothing DEF QuietResult
<1>3. CASE ~(HasSession(a, key.sid) \/ SessionCount(a) < MaxSessions) /\ victims # {}
  <2> DEFINE h == OnHelloReceived(b, key)
  <2>1. r.agg = h.agg /\ r.io = Discards(a, victims) /\ r.out = h.out
    BY <1>3 DEF OnAdmitRequested, Result
  <2>2. /\ AggInv(b) /\ Quiet(a, b) /\ Owes(b) <= Owes(a)
        /\ \A t \in Sessions : t \notin victims => b.index[t] = a.index[t]
        /\ \A t \in victims : ~b.index[t].present /\ ~b.index[t].parked
    BY <1>0, DiscardQuiet
  <2>3. SessionCount(b) < MaxSessions
    BY <1>0, <1>3, EvictionMakesRoom
  <2>4. /\ AggInv(h.agg) /\ Quiet(b, h.agg) /\ h.agg.index = b.index
        /\ h.out \in Seq(Effects(h.agg.nextLease)) /\ Owes(h.agg) <= Owes(b) + 1
    BY <2>2, <2>3, HelloReceivedQuiet
  <2>5. Quiet(a, h.agg)
    BY <2>2, <2>4, QuietTwice
  <2>6. Owes(h.agg) <= Owes(a) + 1
    <3>1. /\ a.nextLease \in Nat /\ b.nextLease \in Nat /\ h.agg.nextLease \in Nat
      BY <2>2, <2>4, Fields
    <3>2. Owes(a) \in Nat /\ Owes(b) \in Nat /\ Owes(h.agg) \in Nat
      BY <3>1, ClosingFinite DEF Owes
    <3> QED BY <2>2, <2>4, <3>2
  <2>7. Follows(a, r)
    <3>1. \A t \in Sessions \ victims : SameEntry(a.index[t], r.agg.index[t])
      BY <2>1, <2>2, <2>4 DEF SameEntry
    <3>2. \A t \in victims : ~r.agg.index[t].present /\ ~r.agg.index[t].parked
      BY <2>1, <2>2, <2>4
    <3> QED BY <1>0, <2>1, <3>1, <3>2, DiscardsTell
  <2> QED BY <1>0, <2>1, <2>4, <2>5, <2>6, <2>7 DEF QuietResult
<1> QED BY <1>1, <1>2, <1>3

\* The sweep is quiet: it takes parked sessions only.
LEMMA SweepQuiet ==
  ASSUME NEW a, AggInv(a), NEW at
  PROVE  QuietResult(a, OnSweep(a, at)) /\ Owes(OnSweep(a, at).agg) <= Owes(a)
         /\ OnSweep(a, at).out = <<>>
<1> DEFINE S == Overdue(a, at)
           r == OnSweep(a, at)
<1>1. S \in SUBSET Parked(a) /\ S \in SUBSET Sessions /\ \A t \in S : a.index[t].present
  BY DEF Overdue, Parked
<1>2. r.agg = DiscardAll(a, S) /\ r.io = Discards(a, S) /\ r.out = <<>>
  BY DEF OnSweep, DiscardResult, Result
<1>3. /\ AggInv(r.agg) /\ Quiet(a, r.agg) /\ Owes(r.agg) <= Owes(a)
      /\ \A t \in Sessions : t \notin S => r.agg.index[t] = a.index[t]
      /\ \A t \in S : ~r.agg.index[t].present /\ ~r.agg.index[t].parked
  BY <1>1, <1>2, DiscardQuiet
<1>4. Follows(a, r)
  <2>1. \A t \in Sessions \ S : SameEntry(a.index[t], r.agg.index[t])
    BY <1>3 DEF SameEntry
  <2> QED BY <1>1, <1>2, <1>3, <2>1, DiscardsTell
<1> QED BY <1>2, <1>3, <1>4 DEF QuietResult


\* A slot that is freed before it is Established.
LEMMA FreeQuiet ==
  ASSUME NEW a, AggInv(a), NEW s \in Sessions, a.slots[s].st # "established"
  PROVE  LET b == SetSlot(a, s, NoSlot) IN
         /\ AggInv(b) /\ Quiet(a, b) /\ Owes(b) <= Owes(a)
         /\ b.index = a.index /\ b.nextLease = a.nextLease
<1> DEFINE b == SetSlot(a, s, NoSlot)
<1>1. /\ b.index = a.index /\ b.nextLease = a.nextLease
      /\ \A t \in Sessions : b.slots[t] = IF t = s THEN NoSlot ELSE a.slots[t]
  BY SetSlotFields
<1>2. a.nextLease \in Nat /\ a.nextLease <= b.nextLease
  BY <1>1, Fields
<1>3. NoSlot.st = "absent"
  BY DEF NoSlot
<1>4. Quiet(a, b)
  BY <1>1, <1>2, <1>3, QuietSlot
<1>5. ClosingSlots(b) \subseteq ClosingSlots(a)
  BY <1>1, <1>3 DEF ClosingSlots
<1> QED BY <1>1, <1>4, <1>5, FreeSlot, OwesNoMore

\* on_target_connected is quiet: Connecting becomes PendingActivation.
LEMMA TargetConnectedQuiet ==
  ASSUME NEW a, AggInv(a), NEW l
  PROVE  LET r == OnTargetConnected(a, l) IN QuietResult(a, r) /\ Owes(r.agg) <= Owes(a)
<1> DEFINE r == OnTargetConnected(a, l)
<1>1. CASE SlotsWith(a, l, "connecting") = {}
  <2>1. r = Ignored(a)
    BY <1>1 DEF OnTargetConnected
  <2>2. Owes(a) <= Owes(a)
    BY Fields, ClosingFinite DEF Owes
  <2> QED BY <2>1, <2>2, QuietIgnored
<1>2. CASE SlotsWith(a, l, "connecting") # {}
  <2> DEFINE s == SessionForLease(a, l, "connecting")
             key == KeyAt(s, a.slots[s])
             new == Slot("pending", key, l)
             b == SetSlot(a, s, new)
             n == a.nextLease
  <2>1. s \in Sessions /\ a.slots[s].st = "connecting" /\ a.slots[s].lease = l
    BY <1>2, LeaseOwner
  <2>2. key \in SlotKeys /\ l \in Minted(n) /\ n \in Nat
    BY <2>1, KeyOfSlot, Fields
  <2>3. r.agg = b /\ r.io = {} /\ r.out = <<SendReady(key, l), SchedulePendingTimeout(l)>>
    BY <1>2 DEF OnTargetConnected, Result
  <2>4. /\ b.index = a.index /\ b.nextLease = n
        /\ \A t \in Sessions : b.slots[t] = IF t = s THEN new ELSE a.slots[t]
    BY <2>1, SetSlotFields
  <2>5. new.st = "pending" /\ new.lease = l
    BY DEF Slot
  <2>6. n <= n
    BY <2>2
  <2>7. Quiet(a, b)
    BY <2>1, <2>2, <2>4, <2>5, <2>6, QuietSlot
  <2>8. Owes(b) <= Owes(a)
    <3>1. ClosingSlots(b) \subseteq ClosingSlots(a)
      BY <2>4, <2>5 DEF ClosingSlots
    <3> QED BY <2>4, <3>1, OwesNoMore
  <2>9. SendReady(key, l) \in Effects(n) /\ SchedulePendingTimeout(l) \in Effects(n)
    BY <2>2 DEF SendReady, SchedulePendingTimeout, Effects
  <2>10. r.out \in Seq(Effects(r.agg.nextLease))
    BY <2>3, <2>4, <2>9, ShortLists
  <2>11. AggInv(r.agg) /\ Follows(a, r)
    BY <2>3, <2>4, TargetConnectedInv, FollowsNothing
  <2> QED BY <2>3, <2>7, <2>8, <2>10, <2>11 DEF QuietResult
<1> QED BY <1>1, <1>2

\* on_target_connect_failed is quiet: an attempt is freed.
LEMMA TargetConnectFailedQuiet ==
  ASSUME NEW a, AggInv(a), NEW l
  PROVE  LET r == OnTargetConnectFailed(a, l) IN QuietResult(a, r) /\ Owes(r.agg) <= Owes(a)
<1> DEFINE r == OnTargetConnectFailed(a, l)
<1>1. CASE SlotsWith(a, l, "connecting") = {}
  <2>1. r = Ignored(a)
    BY <1>1 DEF OnTargetConnectFailed
  <2>2. Owes(a) <= Owes(a)
    BY Fields, ClosingFinite DEF Owes
  <2> QED BY <2>1, <2>2, QuietIgnored
<1>2. CASE SlotsWith(a, l, "connecting") # {}
  <2> DEFINE s == SessionForLease(a, l, "connecting")
             key == KeyAt(s, a.slots[s])
             b == SetSlot(a, s, NoSlot)
  <2>1. s \in Sessions /\ a.slots[s].st = "connecting" /\ key \in SlotKeys
    BY <1>2, LeaseOwner, KeyOfSlot
  <2>2. r.agg = b /\ r.io = {} /\ r.out = <<SendReject(key, "Target")>>
    BY <1>2 DEF OnTargetConnectFailed, Result
  <2>3. SendReject(key, "Target") \in Effects(b.nextLease)
    BY <2>1 DEF SendReject, Effects, Reasons
  <2>4. AggInv(b) /\ Quiet(a, b) /\ Owes(b) <= Owes(a) /\ b.index = a.index
    BY <2>1, FreeQuiet
  <2>5. r.out \in Seq(Effects(r.agg.nextLease)) /\ Follows(a, r)
    BY <2>2, <2>3, <2>4, ShortLists, FollowsNothing
  <2> QED BY <2>2, <2>4, <2>5 DEF QuietResult
<1> QED BY <1>1, <1>2

\* on_pending_expired is quiet: an attempt is freed.
LEMMA PendingExpiredQuiet ==
  ASSUME NEW a, AggInv(a), NEW l
  PROVE  LET r == OnPendingExpired(a, l) IN QuietResult(a, r) /\ Owes(r.agg) <= Owes(a)
<1> DEFINE r == OnPendingExpired(a, l)
<1>1. CASE SlotsWith(a, l, "pending") = {}
  <2>1. r = Ignored(a)
    BY <1>1 DEF OnPendingExpired
  <2>2. Owes(a) <= Owes(a)
    BY Fields, ClosingFinite DEF Owes
  <2> QED BY <2>1, <2>2, QuietIgnored
<1>2. CASE SlotsWith(a, l, "pending") # {}
  <2> DEFINE s == SessionForLease(a, l, "pending")
             b == SetSlot(a, s, NoSlot)
  <2>1. s \in Sessions /\ a.slots[s].st = "pending" /\ l \in Minted(a.nextLease)
    BY <1>2, LeaseOwner, Fields
  <2>2. r.agg = b /\ r.io = {} /\ r.out = <<CancelLease(l)>>
    BY <1>2 DEF OnPendingExpired, Result
  <2>3. /\ AggInv(b) /\ Quiet(a, b) /\ Owes(b) <= Owes(a) /\ b.index = a.index
        /\ b.nextLease = a.nextLease
    BY <2>1, FreeQuiet
  <2>4. CancelLease(l) \in Effects(b.nextLease)
    BY <2>1, <2>3 DEF CancelLease, Effects
  <2>5. r.out \in Seq(Effects(r.agg.nextLease)) /\ Follows(a, r)
    BY <2>2, <2>3, <2>4, ShortLists, FollowsNothing
  <2> QED BY <2>2, <2>3, <2>5 DEF QuietResult
<1> QED BY <1>1, <1>2

\* CANCEL_ATTACH is quiet: an attempt is freed.
LEMMA CancelReceivedQuiet ==
  ASSUME NEW a, AggInv(a), NEW key \in Keys
  PROVE  LET r == OnCancelReceived(a, key) IN QuietResult(a, r) /\ Owes(r.agg) <= Owes(a)
<1> DEFINE r == OnCancelReceived(a, key)
           s == key.sid
           slot == a.slots[s]
           b == SetSlot(a, s, NoSlot)
<1>0. s \in Sessions /\ key \in SlotKeys
  BY KeysAreSlotKeys DEF Keys
<1>1. CASE ~(slot.st \in {"connecting", "pending"} /\ KeyAt(s, slot) = key)
  <2>1. r = Ignored(a)
    BY <1>1 DEF OnCancelReceived
  <2>2. Owes(a) <= Owes(a)
    BY Fields, ClosingFinite DEF Owes
  <2> QED BY <2>1, <2>2, QuietIgnored
<1>2. CASE slot.st \in {"connecting", "pending"} /\ KeyAt(s, slot) = key
  <2>1. slot.lease \in Minted(a.nextLease)
    BY <1>0, <1>2, Fields
  <2>2. /\ r.agg = b /\ r.io = {}
        /\ r.out = <<SendReject(key, "AlreadyAttached"), CancelLease(slot.lease)>>
    BY <1>2 DEF OnCancelReceived, Result
  <2>3. /\ AggInv(b) /\ Quiet(a, b) /\ Owes(b) <= Owes(a) /\ b.index = a.index
        /\ b.nextLease = a.nextLease
    BY <1>0, <1>2, FreeQuiet
  <2>4. /\ SendReject(key, "AlreadyAttached") \in Effects(b.nextLease)
        /\ CancelLease(slot.lease) \in Effects(b.nextLease)
    BY <1>0, <2>1, <2>3 DEF SendReject, CancelLease, Effects, Reasons
  <2>5. r.out \in Seq(Effects(r.agg.nextLease)) /\ Follows(a, r)
    BY <2>2, <2>3, <2>4, ShortLists, FollowsNothing
  <2> QED BY <2>2, <2>3, <2>5 DEF QuietResult
<1> QED BY <1>1, <1>2

\* on_lease_stopped is quiet, and mints a lease that was owed.
LEMMA LeaseStoppedQuiet ==
  ASSUME NEW a, AggInv(a), NEW l
  PROVE  LET r == OnLeaseStopped(a, l) IN QuietResult(a, r) /\ Owes(r.agg) <= Owes(a)
<1> DEFINE r == OnLeaseStopped(a, l)
           n == a.nextLease
<1>1. CASE SlotsWith(a, l, "closing") = {}
  <2>1. r = Ignored(a)
    BY <1>1 DEF OnLeaseStopped
  <2>2. Owes(a) <= Owes(a)
    BY Fields, ClosingFinite DEF Owes
  <2> QED BY <2>1, <2>2, QuietIgnored
<1>2. CASE SlotsWith(a, l, "closing") # {}
  <2> DEFINE s == SessionForLease(a, l, "closing")
             key == KeyAt(s, a.slots[s])
             new == Slot("connecting", key, n)
             b == MintInto(a, s, key)
  <2>1. s \in Sessions /\ a.slots[s].st = "closing" /\ n \in Nat
    BY <1>2, LeaseOwner, Fields
  <2>2. r.agg = b /\ r.io = {} /\ r.out = <<ConnectTarget(n)>>
    BY <1>2 DEF OnLeaseStopped, Result
  <2>3. /\ b.index = a.index /\ b.nextLease = n + 1
        /\ \A t \in Sessions : b.slots[t] = IF t = s THEN new ELSE a.slots[t]
    BY <2>1, MintFields
  <2>4. new.st = "connecting" /\ new.lease = n
    BY DEF Slot
  <2>5. n + 1 \in Nat /\ n <= n + 1 /\ n >= n
    BY <2>1
  <2>6. Quiet(a, b)
    BY <2>1, <2>3, <2>4, <2>5, QuietSlot
  <2>7. Owes(b) <= Owes(a)
    <3>1. s \in ClosingSlots(a) /\ ClosingSlots(b) \subseteq ClosingSlots(a) \ {s}
      BY <2>1, <2>3, <2>4 DEF ClosingSlots
    <3> QED BY <2>3, <3>1, OwesPaid
  <2>8. ConnectTarget(n) \in Effects(n + 1)
    BY <2>1 DEF ConnectTarget, Effects, Minted
  <2>9. r.out \in Seq(Effects(r.agg.nextLease)) /\ Follows(a, r) /\ AggInv(r.agg)
    BY <2>2, <2>3, <2>8, ShortLists, FollowsNothing, LeaseStoppedInv
  <2> QED BY <2>2, <2>6, <2>7, <2>9 DEF QuietResult
<1> QED BY <1>1, <1>2

-----------------------------------------------------------------------------
\* A change of one entry that leaves slots and leases alone owes nothing more.
LEMMA EntryOwes ==
  ASSUME NEW a, AggInv(a), NEW s \in Sessions, NEW entry
  PROVE  LET b == SetEntry(a, s, entry) IN Owes(b) <= Owes(a)
<1> DEFINE b == SetEntry(a, s, entry)
<1>1. b.nextLease = a.nextLease /\ ClosingSlots(b) \subseteq ClosingSlots(a)
  BY SetEntryFields DEF ClosingSlots
<1> QED BY <1>1, OwesNoMore

\* on_resume_unavailable is quiet: only the mark changes.
LEMMA ResumeUnavailableQuiet ==
  ASSUME NEW a, AggInv(a), NEW s \in Sessions, NEW l
  PROVE  LET r == OnResumeUnavailable(a, s, l) IN
         QuietResult(a, r) /\ Owes(r.agg) <= Owes(a) /\ r.out = <<>>
<1> DEFINE r == OnResumeUnavailable(a, s, l)
           entry == [a.index[s] EXCEPT !.unresumable = TRUE]
           b == SetEntry(a, s, entry)
<1>1. CASE ~(IsCurrent(a, s, l) /\ ~a.index[s].parked)
  <2>1. r = Ignored(a)
    BY <1>1 DEF OnResumeUnavailable
  <2>2. Owes(a) <= Owes(a)
    BY Fields, ClosingFinite DEF Owes
  <2> QED BY <2>1, <2>2, QuietIgnored
<1>2. CASE IsCurrent(a, s, l) /\ ~a.index[s].parked
  <2>1. r.agg = b /\ r.io = {} /\ r.out = <<>>
    BY <1>2 DEF OnResumeUnavailable, Result
  <2>2. SameEntry(a.index[s], entry)
    BY Fields DEF SameEntry, Entries
  <2>0. /\ b.slots = a.slots /\ b.nextLease = a.nextLease
        /\ \A t \in Sessions : b.index[t] = IF t = s THEN entry ELSE a.index[t]
    BY SetEntryFields
  <2>3. \A t \in Sessions : SameEntry(a.index[t], b.index[t])
    BY <2>0, <2>2 DEF SameEntry
  <2>4. a.nextLease <= b.nextLease
    BY <2>0, Fields
  <2>5. \A t \in Sessions : QuietAt(a, b, t)
    BY <2>0, <2>3, Fields DEF QuietAt, SameEntry
  <2>6. AggInv(r.agg) /\ Follows(a, r)
    BY <2>1, <2>3, ResumeUnavailableInv DEF Follows
  <2>7. Owes(b) <= Owes(a)
    BY EntryOwes
  <2>8. r.out \in Seq(Effects(r.agg.nextLease))
    BY <2>1
  <2> QED BY <2>1, <2>4, <2>5, <2>6, <2>7, <2>8 DEF QuietResult, Quiet
<1> QED BY <1>1, <1>2


-----------------------------------------------------------------------------
(***************************************************************************)
(* The events that give, take back or end the hold on a target.            *)
(***************************************************************************)

\* Everything about the other sessions is as it was.
Elsewhere(a, b, s) ==
  /\ b.nextLease = a.nextLease
  /\ \A t \in Sessions \ {s} : b.index[t] = a.index[t] /\ b.slots[t] = a.slots[t]

\* The session leaves the index and its slot.
Drops(a, b, s) ==
  /\ Elsewhere(a, b, s)
  /\ a.index[s].present /\ ~b.index[s].present /\ ~b.index[s].parked
  /\ b.slots[s].st = "absent"

\* An aggregate that differs in one session, which is not being closed, owes the same.
LEMMA ElsewhereOwes ==
  ASSUME NEW a, AggInv(a), NEW b, NEW s \in Sessions, Elsewhere(a, b, s),
         b.slots[s].st # "closing"
  PROVE  Owes(b) <= Owes(a)
<1>1. ClosingSlots(b) \subseteq ClosingSlots(a)
  BY DEF ClosingSlots, Elsewhere
<1> QED BY <1>1, OwesNoMore DEF Elsewhere

\* One effect about one session.
LEMMA OneEffect ==
  ASSUME NEW a, NEW r, NEW s \in Sessions, NEW fx, fx.sid = s, r.io = {fx},
         Tells(a.index[s], r.agg.index[s], fx),
         \A t \in Sessions \ {s} : r.agg.index[t] = a.index[t]
  PROVE  Follows(a, r)
BY DEF Follows, SameEntry

\* Discarding one session of the index.
LEMMA DiscardOne ==
  ASSUME NEW a, AggInv(a), NEW s \in Sessions, a.index[s].present
  PROVE  LET r == DiscardResult(a, {s}) IN
         /\ AggInv(r.agg) /\ Follows(a, r) /\ Drops(a, r.agg, s) /\ r.out = <<>>
         /\ Owes(r.agg) <= Owes(a)
<1> DEFINE r == DiscardResult(a, {s})
           b == DiscardAll(a, {s})
<1>1. r.agg = b /\ r.io = Discards(a, {s}) /\ r.out = <<>>
  BY DEF DiscardResult, Result
<1>2. AggInv(b)
  BY DiscardSlots
<1>3. /\ b.nextLease = a.nextLease
      /\ \A t \in Sessions : b.index[t] = IF t \in {s} THEN NoEntry ELSE a.index[t]
      /\ \A t \in Sessions :
           b.slots[t] = IF t \in {s} /\ a.index[t].present THEN NoSlot ELSE a.slots[t]
  BY DiscardFields
<1>4. Drops(a, b, s)
  BY <1>3 DEF Drops, Elsewhere, NoEntry, NoSlot
<1>5. Follows(a, r)
  <2>1. \A t \in Sessions \ {s} : SameEntry(a.index[t], r.agg.index[t])
    BY <1>1, <1>3 DEF SameEntry
  <2>2. /\ {s} \in SUBSET Sessions /\ \A t \in {s} : a.index[t].present
        /\ \A t \in {s} : ~r.agg.index[t].present /\ ~r.agg.index[t].parked
    BY <1>1, <1>4 DEF Drops
  <2> QED BY <1>1, <2>1, <2>2, DiscardsTell
<1>6. Owes(b) <= Owes(a)
  BY <1>4, ElsewhereOwes DEF Drops
<1> QED BY <1>1, <1>2, <1>4, <1>5, <1>6

\* on_relay_terminated drops the incarnation or is ignored.
LEMMA RelayTerminatedDrops ==
  ASSUME NEW a, AggInv(a), NEW s \in Sessions, NEW l
  PROVE  LET r == OnRelayTerminated(a, s, l) IN
         /\ AggInv(r.agg) /\ Follows(a, r) /\ r.out = <<>> /\ Owes(r.agg) <= Owes(a)
         /\ IF IsCurrent(a, s, l) THEN Drops(a, r.agg, s) ELSE r.agg = a
<1>1. CASE IsCurrent(a, s, l)
  BY <1>1, DiscardOne DEF OnRelayTerminated, IsCurrent
<1>2. CASE ~IsCurrent(a, s, l)
  <2>1. OnRelayTerminated(a, s, l) = Ignored(a)
    BY <1>2 DEF OnRelayTerminated
  <2>2. Owes(a) <= Owes(a)
    BY Fields, ClosingFinite DEF Owes
  <2> QED BY <1>2, <2>1, <2>2, QuietIgnored DEF QuietResult
<1> QED BY <1>1, <1>2

\* on_relay_ended drops the one incarnation with the lease, if there is one.
LEMMA RelayEndedDrops ==
  ASSUME NEW a, AggInv(a), NEW l
  PROVE  LET r == OnRelayEnded(a, l) IN
         /\ AggInv(r.agg) /\ Follows(a, r) /\ r.out = <<>> /\ Owes(r.agg) <= Owes(a)
         /\ \/ \E s \in Sessions : IsCurrent(a, s, l) /\ Drops(a, r.agg, s)
            \/ (\A s \in Sessions : ~IsCurrent(a, s, l)) /\ r.agg = a
<1> DEFINE owners == {s \in Sessions : IsCurrent(a, s, l)}
           r == OnRelayEnded(a, l)
<1>1. CASE owners # {}
  <2>1. PICK s \in Sessions : IsCurrent(a, s, l)
    BY <1>1
  <2>2. \A t \in Sessions : IsCurrent(a, t, l) => t = s
    BY <2>1, Fields DEF IsCurrent, AggInv, LeasesDistinct, Occupied
  <2>3. owners = {s}
    BY <2>1, <2>2
  <2>4. r = DiscardResult(a, {s})
    BY <1>1, <2>3 DEF OnRelayEnded
  <2> QED BY <2>1, <2>4, DiscardOne DEF IsCurrent
<1>2. CASE owners = {}
  <2>1. /\ a.slots \in [Sessions -> Slots]
        /\ a = [slots |-> a.slots, nextLease |-> a.nextLease, index |-> a.index]
    BY DEF AggInv, Aggregates
  <2>2. \A s \in Sessions : ~IsEstablished(a, s, l)
    BY <1>2 DEF IsEstablished, IsCurrent, AggInv, IndexMatches
  <2>3. [s \in Sessions |-> IF IsEstablished(a, s, l) THEN NoSlot ELSE a.slots[s]] = a.slots
    BY <2>1, <2>2
  <2>4. [a EXCEPT !.slots = [s \in Sessions |->
           IF IsEstablished(a, s, l) THEN NoSlot ELSE a.slots[s]]] = a
    BY <2>1, <2>3
  <2>5. r = Result(a, {}, <<>>)
    BY <1>2, <2>4 DEF OnRelayEnded
  <2>6. r = Ignored(a)
    BY <2>5 DEF Ignored
  <2>7. Owes(a) <= Owes(a)
    BY Fields, ClosingFinite DEF Owes
  <2> QED BY <1>2, <2>6, <2>7, QuietIgnored DEF QuietResult
<1> QED BY <1>1, <1>2

\* park() of the incarnation in the index parks it, or drops it if its replay has
\* a hole.
LEMMA ParkedParks ==
  ASSUME NEW a, AggInv(a), NEW s \in Sessions, NEW l, NEW at \in Nat, IsCurrent(a, s, l)
  PROVE  LET r == OnParked(a, s, l, at)
             b == r.agg
         IN  /\ AggInv(b) /\ Follows(a, r) /\ r.out = <<>> /\ Owes(b) <= Owes(a)
             /\ \/ Drops(a, b, s)
                \/ /\ Elsewhere(a, b, s) /\ b.slots[s] = a.slots[s]
                   /\ b.index[s].present /\ b.index[s].lease = l /\ b.index[s].parked
             /\ \A fx \in r.io : fx.sid = s /\ fx.op # "granted"
                                 /\ (fx.op = "store" => fx.lease = l)
<1> DEFINE r == OnParked(a, s, l, at)
           b == r.agg
<1>1. CASE a.index[s].unresumable
  <2>1. r = DiscardResult(a, {s})
    BY <1>1 DEF OnParked
  <2>2. \A fx \in r.io : fx.sid = s /\ fx.op = "discard"
    BY <2>1 DEF DiscardResult, Result, Discards, Discard
  <2> QED BY <2>1, <2>2, DiscardOne DEF IsCurrent
<1>2. CASE ~a.index[s].unresumable
  <2> DEFINE entry == [a.index[s] EXCEPT !.parked = TRUE, !.since = at]
             c == SetEntry(a, s, entry)
             fx == StoreParked(s, l)
  <2>1. r.agg = c /\ r.io = {fx} /\ r.out = <<>>
    BY <1>2 DEF OnParked, Result
  <2>2. fx.sid = s /\ fx.op = "store" /\ fx.lease = l
    BY DEF StoreParked
  <2>3. entry.present /\ entry.lease = l /\ entry.parked
    BY Fields DEF Entries, IsCurrent
  <2>4. /\ c.slots = a.slots /\ c.nextLease = a.nextLease
        /\ \A t \in Sessions : c.index[t] = IF t = s THEN entry ELSE a.index[t]
    BY SetEntryFields
  <2>5. Elsewhere(a, c, s) /\ c.slots[s] = a.slots[s] /\ c.index[s] = entry
    BY <2>4 DEF Elsewhere
  <2>6. Tells(a.index[s], c.index[s], fx)
    BY <2>2, <2>3, <2>5 DEF Tells, Holds, IsCurrent
  <2>7. Follows(a, r)
    BY <2>1, <2>2, <2>4, <2>6, OneEffect
  <2>8. Owes(c) <= Owes(a)
    BY EntryOwes
  <2>9. AggInv(b)
    BY ParkedInv
  <2>10. \A fy \in r.io : fy.sid = s /\ fy.op # "granted" /\ (fy.op = "store" => fy.lease = l)
    BY <2>1, <2>2
  <2> QED BY <2>1, <2>3, <2>5, <2>7, <2>8, <2>9, <2>10
<1> QED BY <1>1, <1>2

\* RESUME: the hold on a parked target is granted, or nothing happens to it.
LEMMA ResumeRequestedGrants ==
  ASSUME NEW a, AggInv(a), NEW s \in Sessions
  PROVE  LET r == OnResumeRequested(a, s)
             b == r.agg
             l == a.index[s].lease
         IN  /\ AggInv(b) /\ Follows(a, r) /\ r.out = <<>> /\ Owes(b) <= Owes(a)
             /\ \/ /\ r.io = {ResumeGranted(s, l)} /\ a.index[s].present /\ a.index[s].parked
                   /\ Elsewhere(a, b, s) /\ b.slots[s] = a.slots[s]
                   /\ b.index[s].present /\ b.index[s].lease = l /\ ~b.index[s].parked
                \/ r.io = {RequestPreempt(s, l)} /\ a.index[s].present /\ b = a
                \/ r.io = {ResumeRejected(s)} /\ b = a
<1> DEFINE r == OnResumeRequested(a, s)
           b == r.agg
           e == a.index[s]
           l == e.lease
           resumable == e.present /\ ~e.unresumable /\ IsEstablished(a, s, l)
<1>0. AggInv(b)
  BY ResumeRequestedInv
<1>1. CASE ~resumable
  <2>1. r.agg = a /\ r.io = {ResumeRejected(s)} /\ r.out = <<>>
    BY <1>1 DEF OnResumeRequested, Result
  <2>2. ResumeRejected(s).sid = s /\ ResumeRejected(s).op = "rejected"
    BY DEF ResumeRejected
  <2>3. Tells(e, b.index[s], ResumeRejected(s))
    BY <2>1, <2>2 DEF Tells, SameEntry
  <2>4. Follows(a, r)
    BY <2>1, <2>2, <2>3, OneEffect
  <2>5. Owes(a) <= Owes(a)
    BY Fields, ClosingFinite DEF Owes
  <2> QED BY <1>0, <2>1, <2>4, <2>5
<1>2. CASE resumable /\ ~e.parked
  <2>1. r.agg = a /\ r.io = {RequestPreempt(s, l)} /\ r.out = <<>>
    BY <1>2 DEF OnResumeRequested, Result
  <2>2. RequestPreempt(s, l).sid = s /\ RequestPreempt(s, l).op = "preempt"
        /\ RequestPreempt(s, l).lease = l
    BY DEF RequestPreempt
  <2>3. Tells(e, b.index[s], RequestPreempt(s, l))
    BY <1>2, <2>1, <2>2 DEF Tells, SameEntry, Holds
  <2>4. Follows(a, r)
    BY <2>1, <2>2, <2>3, OneEffect
  <2>5. Owes(a) <= Owes(a)
    BY Fields, ClosingFinite DEF Owes
  <2> QED BY <1>0, <1>2, <2>1, <2>4, <2>5
<1>3. CASE resumable /\ e.parked
  <2> DEFINE entry == [e EXCEPT !.parked = FALSE, !.since = 0]
             c == SetEntry(a, s, entry)
             fx == ResumeGranted(s, l)
  <2>1. r.agg = c /\ r.io = {fx} /\ r.out = <<>>
    BY <1>3 DEF OnResumeRequested, Result
  <2>2. fx.sid = s /\ fx.op = "granted" /\ fx.lease = l
    BY DEF ResumeGranted
  <2>3. entry.present /\ entry.lease = l /\ ~entry.parked
    BY <1>3, Fields DEF Entries
  <2>4. /\ c.slots = a.slots /\ c.nextLease = a.nextLease
        /\ \A t \in Sessions : c.index[t] = IF t = s THEN entry ELSE a.index[t]
    BY SetEntryFields
  <2>5. Elsewhere(a, c, s) /\ c.slots[s] = a.slots[s] /\ c.index[s] = entry
    BY <2>4 DEF Elsewhere
  <2>6. Tells(e, c.index[s], fx)
    BY <1>3, <2>2, <2>3, <2>5 DEF Tells, Holds
  <2>7. Follows(a, r)
    BY <2>1, <2>2, <2>4, <2>6, OneEffect
  <2>8. Owes(c) <= Owes(a)
    BY EntryOwes
  <2> QED BY <1>0, <1>3, <2>1, <2>3, <2>5, <2>7, <2>8
<1> QED BY <1>1, <1>2, <1>3


\* AttachActivate: the pending attempt becomes Established and enters the index,
\* unless the token or the key is not the slot's.
LEMMA ActivatedEstablishes ==
  ASSUME NEW a, AggInv(a), NEW key \in Keys, NEW token, NEW grace \in Nat
  PROVE  LET r == OnActivated(a, key, token, grace)
             b == r.agg
             s == key.sid
         IN  /\ AggInv(b) /\ Follows(a, r) /\ Owes(b) <= Owes(a) /\ s \in Sessions
             /\ \/ /\ r.out # <<>> /\ Elsewhere(a, b, s)
                   /\ a.slots[s].st = "pending" /\ a.slots[s].lease = token
                   /\ b.slots[s].st = "established" /\ b.slots[s].lease = token
                   /\ b.index[s].present /\ b.index[s].lease = token /\ ~b.index[s].parked
                \/ r.out = <<>> /\ b = a
<1> DEFINE s == key.sid
           slot == a.slots[s]
           l == slot.lease
           r == OnActivated(a, key, token, grace)
           b == r.agg
           entry == [present |-> TRUE, lease |-> l, parked |-> FALSE,
                     since |-> 0, grace |-> grace, unresumable |-> FALSE]
           est == Slot("established", key, l)
           fx == RegisterIo(s, l)
<1>0. s \in Sessions /\ AggInv(b)
  BY ActivatedInv DEF Keys
<1>1. CASE slot.st = "pending" /\ KeyAt(s, slot) = key /\ token = l
  <2>1. Cardinality(Live(a)) < MaxSessions /\ ~a.index[s].present
    BY <1>0, <1>1, RoomToActivate
  <2>2. ~(Cardinality(Live(a)) >= MaxSessions /\ ~a.index[s].present)
    <3>1. IsFiniteSet(Live(a))
      BY SessionsAssumption, FS_Subset DEF Live, Indexed
    <3>2. Cardinality(Live(a)) \in Nat
      BY <3>1, FS_CardinalityType
    <3> QED BY <2>1, <3>2, MaxSessionsAssumption
  <2>3. /\ b = SetEntry(DiscardAll(SetSlot(a, s, est), {}), s, entry)
        /\ r.io = Discards(a, {}) \cup {fx} /\ r.out = <<StartRelay(l)>>
    BY <1>1, <2>2 DEF OnActivated, Result
  <2>4. est \in Slots /\ est.st = "established" /\ est.lease = l
    BY <1>0, Fields, GenerationsAssumption DEF Slots, SlotStates, Slot, Keys
  <2>5. /\ a.slots \in [Sessions -> Slots] /\ a.index \in [Sessions -> Entries]
        /\ a.nextLease \in Nat
        /\ SetSlot(a, s, est) = [slots |-> [a.slots EXCEPT ![s] = est],
                                 nextLease |-> a.nextLease, index |-> a.index]
    BY DEF AggInv, Aggregates, SetSlot
  <2>6. SetSlot(a, s, est) \in Aggregates
    BY <1>0, <2>4, <2>5 DEF Aggregates
  <2>7. DiscardAll(SetSlot(a, s, est), {}) = SetSlot(a, s, est)
    BY <2>6, DiscardNone
  <2>8. b = [slots |-> [a.slots EXCEPT ![s] = est], nextLease |-> a.nextLease,
             index |-> [a.index EXCEPT ![s] = entry]]
    BY <2>3, <2>5, <2>7 DEF SetEntry
  <2>9. /\ b.nextLease = a.nextLease
        /\ \A t \in Sessions : b.slots[t] = IF t = s THEN est ELSE a.slots[t]
        /\ \A t \in Sessions : b.index[t] = IF t = s THEN entry ELSE a.index[t]
    BY <2>5, <2>8
  <2>10. Elsewhere(a, b, s) /\ b.slots[s] = est /\ b.index[s] = entry
    BY <1>0, <2>9 DEF Elsewhere
  <2>11. r.io = {fx} /\ fx.sid = s /\ fx.op = "register" /\ fx.lease = l
    BY <2>3 DEF Discards, RegisterIo
  <2>12. Tells(a.index[s], b.index[s], fx)
    BY <2>10, <2>11 DEF Tells, Holds
  <2>13. Follows(a, r)
    BY <1>0, <2>9, <2>11, <2>12, OneEffect
  <2>14. Owes(b) <= Owes(a)
    BY <1>0, <2>4, <2>10, ElsewhereOwes
  <2>15. r.out # <<>>
    BY <2>3
  <2> QED BY <1>0, <1>1, <2>4, <2>10, <2>13, <2>14, <2>15
<1>2. CASE ~(slot.st = "pending" /\ KeyAt(s, slot) = key /\ token = l)
  <2>1. r = Ignored(a)
    BY <1>2 DEF OnActivated
  <2>2. Owes(a) <= Owes(a)
    BY Fields, ClosingFinite DEF Owes
  <2> QED BY <1>0, <2>1, <2>2, QuietIgnored DEF QuietResult
<1> QED BY <1>1, <1>2

=============================================================================
