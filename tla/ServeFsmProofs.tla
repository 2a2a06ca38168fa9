--------------------------- MODULE ServeFsmProofs ---------------------------
(***************************************************************************)
(* Every reducer of ServeFsm preserves the invariants serve_fsm.rs         *)
(* documents, for every number of sessions, every --max-sessions and every *)
(* generation.  The reducers are built from a few rewrites of the          *)
(* aggregate; each rewrite has a lemma, and each reducer one that cites    *)
(* them.                                                                   *)
(***************************************************************************)
EXTENDS ServeFsm, FiniteSetTheorems, TLAPS

AggInv(agg) ==
  /\ agg \in Aggregates
  /\ IndexMatches(agg)
  /\ LeasesDistinct(agg)
  /\ WithinCapacity(agg)
  /\ HolesNotParked(agg)

\* Whatever a slot's fields may make a key of.
SlotKeys == [sid : Sessions, gen : Nat, att : Attempts \cup {None}]

\* A key of a HELLO is one that a slot can hold.
LEMMA KeysAreSlotKeys == Keys \subseteq SlotKeys
  BY GenerationsAssumption DEF Keys, SlotKeys

\* The occupied slots are finitely many, so their number is comparable.
LEMMA OccupiedFinite ==
  ASSUME NEW agg
  PROVE  IsFiniteSet(Occupied(agg)) /\ SessionCount(agg) \in Nat
  BY SessionsAssumption, FS_Subset, FS_CardinalityType DEF Occupied, SessionCount

\* A change that occupies no new slot stays within capacity.
LEMMA FewerSlots ==
  ASSUME NEW a, NEW b, Occupied(b) \subseteq Occupied(a), WithinCapacity(a)
  PROVE  WithinCapacity(b) /\ SessionCount(b) <= SessionCount(a)
  BY OccupiedFinite, FS_Subset, MaxSessionsAssumption DEF SessionCount, WithinCapacity

\* Freeing a slot that is not Established.
LEMMA FreeSlot ==
  ASSUME NEW agg, AggInv(agg), NEW s \in Sessions, agg.slots[s].st # "established"
  PROVE  AggInv(SetSlot(agg, s, NoSlot))
<1> DEFINE b == SetSlot(agg, s, NoSlot)
<1>1. b \in Aggregates
  BY DEF AggInv, Aggregates, SetSlot, NoSlot, Slots, SlotStates
<1>2. /\ b.index = agg.index /\ b.nextLease = agg.nextLease
      /\ \A t \in Sessions : b.slots[t] = IF t = s THEN NoSlot ELSE agg.slots[t]
  BY DEF AggInv, Aggregates, SetSlot
<1>3. IndexMatches(b) /\ HolesNotParked(b)
  BY <1>2 DEF AggInv, IndexMatches, HolesNotParked, NoSlot
<1>4. Occupied(b) \subseteq Occupied(agg)
  BY <1>2 DEF Occupied, NoSlot
<1>5. LeasesDistinct(b)
  BY <1>2, <1>4 DEF AggInv, LeasesDistinct, Occupied, NoSlot
<1>6. WithinCapacity(b)
  BY <1>4, FewerSlots DEF AggInv
<1> QED BY <1>1, <1>3, <1>5, <1>6 DEF AggInv

\* An attempt moves on (PendingActivation, ClosingForSupersede) under its lease.
LEMMA MoveSlot ==
  ASSUME NEW agg, AggInv(agg), NEW s \in Sessions, NEW key \in SlotKeys,
         NEW st \in {"pending", "closing"},
         agg.slots[s].st \in {"connecting", "pending", "closing"}
  PROVE  AggInv(SetSlot(agg, s, Slot(st, key, agg.slots[s].lease)))
<1> DEFINE new == Slot(st, key, agg.slots[s].lease)
           b   == SetSlot(agg, s, new)
<1>0. new \in Slots /\ new.lease = agg.slots[s].lease /\ new.st = st
  BY DEF AggInv, Aggregates, Slots, SlotStates, Slot, SlotKeys
<1>1. b \in Aggregates
  BY <1>0 DEF AggInv, Aggregates, SetSlot
<1>2. /\ b.index = agg.index /\ b.nextLease = agg.nextLease
      /\ \A t \in Sessions : b.slots[t] = IF t = s THEN new ELSE agg.slots[t]
  BY DEF AggInv, Aggregates, SetSlot
<1>3. IndexMatches(b) /\ HolesNotParked(b)
  BY <1>0, <1>2 DEF AggInv, IndexMatches, HolesNotParked
<1>4. Occupied(b) = Occupied(agg)
  BY <1>0, <1>2 DEF Occupied
<1>5. LeasesDistinct(b)
  BY <1>0, <1>2, <1>4 DEF AggInv, LeasesDistinct, Occupied
<1>6. WithinCapacity(b)
  BY <1>4, FewerSlots DEF AggInv
<1> QED BY <1>1, <1>3, <1>5, <1>6 DEF AggInv

\* Minting a lease for a session that has a slot or finds room for one.
LEMMA MintSlot ==
  ASSUME NEW agg, AggInv(agg), NEW key \in SlotKeys,
         agg.slots[key.sid].st # "established",
         HasSession(agg, key.sid) \/ SessionCount(agg) < MaxSessions
  PROVE  AggInv(MintInto(agg, key.sid, key))
<1> DEFINE s   == key.sid
           new == Slot("connecting", key, agg.nextLease)
           b   == MintInto(agg, s, key)
<1>0. /\ s \in Sessions /\ new \in Slots
      /\ new.lease = agg.nextLease /\ new.st = "connecting"
  BY DEF AggInv, Aggregates, Slots, SlotStates, Slot, SlotKeys
<1>1. b \in Aggregates
  <2>1. agg.nextLease + 1 \in Nat /\ agg.slots \in [Sessions -> Slots]
    BY DEF AggInv, Aggregates
  <2>2. [agg.slots EXCEPT ![s] = new] \in [Sessions -> Slots]
    BY <1>0, <2>1
  <2> QED BY <2>1, <2>2 DEF AggInv, Aggregates, MintInto
<1>2. /\ b.index = agg.index /\ b.nextLease = agg.nextLease + 1
      /\ \A t \in Sessions : b.slots[t] = IF t = s THEN new ELSE agg.slots[t]
  BY <1>0 DEF AggInv, Aggregates, MintInto
<1>3. IndexMatches(b) /\ HolesNotParked(b)
  BY <1>0, <1>2 DEF AggInv, IndexMatches, HolesNotParked
<1>4. Occupied(b) = Occupied(agg) \cup {s}
  BY <1>0, <1>2 DEF Occupied
<1>5. LeasesDistinct(b)
  <2>1. \A t \in Sessions : agg.slots[t].lease \in Nat
    BY DEF AggInv, Aggregates, Slots
  <2>2. agg.nextLease \in Nat
    BY DEF AggInv, Aggregates
  <2> QED BY <1>0, <1>2, <1>4, <2>1, <2>2 DEF AggInv, LeasesDistinct, Occupied
<1>6. WithinCapacity(b)
  <2>1. CASE HasSession(agg, s)
    <3>1. Occupied(b) = Occupied(agg)
      BY <1>0, <1>4, <2>1 DEF HasSession, Occupied
    <3> QED BY <3>1, FewerSlots DEF AggInv
  <2>2. CASE SessionCount(agg) < MaxSessions
    <3>1. SessionCount(b) <= SessionCount(agg) + 1
      <4>1. IsFiniteSet(Occupied(agg)) /\ Cardinality(Occupied(agg)) \in Nat
        BY OccupiedFinite DEF SessionCount
      <4>2. Cardinality(Occupied(agg) \cup {s}) =
              IF s \in Occupied(agg) THEN Cardinality(Occupied(agg))
                                     ELSE Cardinality(Occupied(agg)) + 1
        BY <4>1, FS_AddElement, Zenon
      <4> QED BY <1>4, <4>1, <4>2 DEF SessionCount
    <3> QED BY <2>2, <3>1, OccupiedFinite, MaxSessionsAssumption DEF WithinCapacity
  <2> QED BY <2>1, <2>2
<1> QED BY <1>1, <1>3, <1>5, <1>6 DEF AggInv

\* Discarding a set of sessions frees the slots of those in the index.
LEMMA DiscardSlots ==
  ASSUME NEW agg, AggInv(agg), NEW S \in SUBSET Sessions
  PROVE  /\ AggInv(DiscardAll(agg, S))
         /\ Occupied(DiscardAll(agg, S)) = Occupied(agg) \ (S \cap Indexed(agg))
<1> DEFINE b == DiscardAll(agg, S)
<1>1. b \in Aggregates
  BY DEF AggInv, Aggregates, DiscardAll, NoSlot, NoEntry, Slots, SlotStates, Entries
<1>2. /\ b.nextLease = agg.nextLease
      /\ \A t \in Sessions : b.index[t] = IF t \in S THEN NoEntry ELSE agg.index[t]
      /\ \A t \in Sessions :
           b.slots[t] = IF t \in S /\ agg.index[t].present THEN NoSlot ELSE agg.slots[t]
  BY DEF AggInv, Aggregates, DiscardAll, IsEstablished, IndexMatches, NoEntry, Entries, Slots
<1>3. IndexMatches(b) /\ HolesNotParked(b)
  BY <1>2 DEF AggInv, IndexMatches, HolesNotParked, NoSlot, NoEntry
<1>4. Occupied(b) = Occupied(agg) \ (S \cap Indexed(agg))
  BY <1>2 DEF Occupied, Indexed, NoSlot
<1>5. LeasesDistinct(b)
  BY <1>2, <1>4 DEF AggInv, LeasesDistinct, Occupied, NoSlot
<1>6. WithinCapacity(b)
  BY <1>4, FewerSlots DEF AggInv
<1> QED BY <1>1, <1>3, <1>4, <1>5, <1>6 DEF AggInv

\* Rewriting an entry without touching its presence or its lease.
LEMMA UpdateEntry ==
  ASSUME NEW agg, AggInv(agg), NEW s \in Sessions, NEW entry \in Entries,
         entry.present = agg.index[s].present, entry.lease = agg.index[s].lease,
         entry.parked => entry.present /\ ~entry.unresumable
  PROVE  AggInv(SetEntry(agg, s, entry))
<1> DEFINE b == SetEntry(agg, s, entry)
<1>1. b \in Aggregates
  BY DEF AggInv, Aggregates, SetEntry
<1>2. /\ b.slots = agg.slots /\ b.nextLease = agg.nextLease
      /\ \A t \in Sessions : b.index[t] = IF t = s THEN entry ELSE agg.index[t]
  BY DEF AggInv, Aggregates, SetEntry
<1>3. IndexMatches(b) /\ HolesNotParked(b)
  BY <1>2 DEF AggInv, IndexMatches, HolesNotParked
<1>4. Occupied(b) = Occupied(agg)
  BY <1>2 DEF Occupied
<1>5. LeasesDistinct(b) /\ WithinCapacity(b)
  BY <1>2, <1>4, FewerSlots DEF AggInv, LeasesDistinct
<1> QED BY <1>1, <1>3, <1>5 DEF AggInv

-----------------------------------------------------------------------------
\* ATTACH_HELLO, for a session that has a slot or finds room for one.
LEMMA HelloReceivedInv ==
  ASSUME NEW agg, AggInv(agg), NEW key \in Keys,
         HasSession(agg, key.sid) \/ SessionCount(agg) < MaxSessions
  PROVE  AggInv(OnHelloReceived(agg, key).agg)
<1> DEFINE slot == agg.slots[key.sid]
           moved == SetSlot(agg, key.sid, Slot("closing", key, slot.lease))
<1>0. key.sid \in Sessions /\ key.gen \in Nat /\ slot \in Slots
  BY GenerationsAssumption DEF AggInv, Aggregates, Keys
<1>1. CASE slot.st = "absent"
  <2>1. OnHelloReceived(agg, key).agg = MintInto(agg, key.sid, key)
    BY <1>1 DEF OnHelloReceived, Result
  <2> QED BY <1>1, <2>1, MintSlot, KeysAreSlotKeys
<1>2. CASE slot.st \in {"connecting", "pending"}
  <2>1. DecideAgainstInFlight(agg, key, slot).agg \in {agg, moved}
    BY <1>0 DEF DecideAgainstInFlight, Result, Ignored, Keys, KeyAt, Slots
  <2>2. AggInv(moved)
    BY <1>0, <1>2, MoveSlot, KeysAreSlotKeys
  <2> QED BY <1>2, <2>1, <2>2 DEF OnHelloReceived
<1>3. CASE slot.st = "established"
  BY <1>3 DEF OnHelloReceived, Result
<1>4. CASE slot.st = "closing"
  <2>1. DecideAgainstClosing(agg, key, slot).agg \in {agg, moved}
    BY <1>0 DEF DecideAgainstClosing, Result, Ignored, Keys, KeyAt, Slots
  <2>2. AggInv(moved)
    BY <1>0, <1>4, MoveSlot, KeysAreSlotKeys
  <2> QED BY <1>4, <2>1, <2>2 DEF OnHelloReceived
<1> QED BY <1>0, <1>1, <1>2, <1>3, <1>4 DEF Slots, SlotStates

\* The session an event about a lease concerns, when there is one.
LEMMA LeaseOwner ==
  ASSUME NEW agg, NEW l, NEW st, SlotsWith(agg, l, st) # {}
  PROVE  LET s == SessionForLease(agg, l, st)
         IN  s \in Sessions /\ agg.slots[s].st = st /\ agg.slots[s].lease = l
BY DEF SlotsWith, SessionForLease

\* The key a slot stands for is well formed.
LEMMA KeyOfSlot ==
  ASSUME NEW agg, AggInv(agg), NEW s \in Sessions
  PROVE  KeyAt(s, agg.slots[s]) \in SlotKeys /\ KeyAt(s, agg.slots[s]).sid = s
BY DEF AggInv, Aggregates, Slots, KeyAt, SlotKeys

\* on_target_connected keeps the invariants: Connecting becomes PendingActivation.
LEMMA TargetConnectedInv ==
  ASSUME NEW agg, AggInv(agg), NEW l
  PROVE  AggInv(OnTargetConnected(agg, l).agg)
<1>1. CASE SlotsWith(agg, l, "connecting") = {}
  BY <1>1 DEF OnTargetConnected, Result, Ignored
<1>2. CASE SlotsWith(agg, l, "connecting") # {}
  <2> DEFINE s == SessionForLease(agg, l, "connecting")
             key == KeyAt(s, agg.slots[s])
  <2>1. s \in Sessions /\ agg.slots[s].st = "connecting" /\ agg.slots[s].lease = l
    BY <1>2, LeaseOwner
  <2>2. key \in SlotKeys
    BY <2>1, KeyOfSlot
  <2>3. AggInv(SetSlot(agg, s, Slot("pending", key, agg.slots[s].lease)))
    BY <2>1, <2>2, MoveSlot
  <2> QED BY <1>2, <2>1, <2>3 DEF OnTargetConnected, Result
<1> QED BY <1>1, <1>2

\* The supersede completes: the slot stays occupied, under a fresh lease.
LEMMA LeaseStoppedInv ==
  ASSUME NEW agg, AggInv(agg), NEW l
  PROVE  AggInv(OnLeaseStopped(agg, l).agg)
<1>1. CASE SlotsWith(agg, l, "closing") = {}
  BY <1>1 DEF OnLeaseStopped, Result, Ignored
<1>2. CASE SlotsWith(agg, l, "closing") # {}
  <2> DEFINE s == SessionForLease(agg, l, "closing")
             key == KeyAt(s, agg.slots[s])
  <2>1. s \in Sessions /\ agg.slots[s].st = "closing"
    BY <1>2, LeaseOwner
  <2>2. key \in SlotKeys /\ key.sid = s
    BY <2>1, KeyOfSlot
  <2>3. AggInv(MintInto(agg, key.sid, key))
    BY <2>1, <2>2, MintSlot DEF HasSession
  <2> QED BY <1>2, <2>2, <2>3 DEF OnLeaseStopped, Result
<1> QED BY <1>1, <1>2

\* on_target_connect_failed keeps the invariants: the slot is freed.
LEMMA TargetConnectFailedInv ==
  ASSUME NEW agg, AggInv(agg), NEW l
  PROVE  AggInv(OnTargetConnectFailed(agg, l).agg)
BY LeaseOwner, FreeSlot DEF OnTargetConnectFailed, Result, Ignored

\* on_pending_expired keeps the invariants: the slot is freed.
LEMMA PendingExpiredInv ==
  ASSUME NEW agg, AggInv(agg), NEW l
  PROVE  AggInv(OnPendingExpired(agg, l).agg)
BY LeaseOwner, FreeSlot DEF OnPendingExpired, Result, Ignored

\* on_cancel_received keeps the invariants: an attempt in flight is freed.
LEMMA CancelReceivedInv ==
  ASSUME NEW agg, AggInv(agg), NEW key \in Keys
  PROVE  AggInv(OnCancelReceived(agg, key).agg)
BY FreeSlot DEF OnCancelReceived, Result, Ignored, Keys

-----------------------------------------------------------------------------
\* Admission: at capacity an eviction makes the room the HELLO then takes.
LEMMA AdmitRequestedInv ==
  ASSUME NEW agg, AggInv(agg), NEW key \in Keys
  PROVE  AggInv(OnAdmitRequested(agg, key).agg)
<1> DEFINE victims == OldestParked(agg)
           b == DiscardAll(agg, victims)
<1>0. /\ victims \subseteq Sessions /\ victims \subseteq Indexed(agg)
      /\ Indexed(agg) \subseteq Occupied(agg)
  BY DEF OldestParked, Parked, Indexed, Occupied, AggInv, IndexMatches
<1>1. CASE HasSession(agg, key.sid) \/ SessionCount(agg) < MaxSessions
  <2>1. OnAdmitRequested(agg, key) = OnHelloReceived(agg, key)
    BY <1>1 DEF OnAdmitRequested
  <2> QED BY <1>1, <2>1, HelloReceivedInv
<1>2. CASE ~(HasSession(agg, key.sid) \/ SessionCount(agg) < MaxSessions)
  <2>1. CASE victims = {}
    BY <1>2, <2>1 DEF OnAdmitRequested, Result
  <2>2. CASE victims # {}
    <3>1. AggInv(b) /\ Occupied(b) = Occupied(agg) \ (victims \cap Indexed(agg))
      BY <1>0, DiscardSlots
    <3>2. Occupied(b) \subseteq Occupied(agg) /\ Occupied(b) # Occupied(agg)
      BY <1>0, <2>2, <3>1
    <3>3. SessionCount(b) < SessionCount(agg)
      <4>1. /\ IsFiniteSet(Occupied(agg)) /\ SessionCount(agg) \in Nat
            /\ SessionCount(b) \in Nat
        BY OccupiedFinite
      <4>2. /\ Cardinality(Occupied(b)) <= Cardinality(Occupied(agg))
            /\ Cardinality(Occupied(b)) # Cardinality(Occupied(agg))
        BY <3>2, <4>1, FS_Subset, Zenon
      <4> QED BY <4>1, <4>2 DEF SessionCount
    <3>4. SessionCount(b) < MaxSessions
      BY <3>3, OccupiedFinite, MaxSessionsAssumption DEF AggInv, WithinCapacity
    <3>5. AggInv(OnHelloReceived(b, key).agg)
      BY <3>1, <3>4, HelloReceivedInv
    <3>6. OnAdmitRequested(agg, key).agg = OnHelloReceived(b, key).agg
      BY <1>2, <2>2 DEF OnAdmitRequested, Result
    <3> QED BY <3>5, <3>6
  <2> QED BY <2>1, <2>2
<1> QED BY <1>1, <1>2

\* A session about to be activated holds a slot and no index entry, so the
\* index has room for it.
LEMMA RoomToActivate ==
  ASSUME NEW agg, AggInv(agg), NEW s \in Sessions, agg.slots[s].st = "pending"
  PROVE  Cardinality(Live(agg)) < MaxSessions /\ ~agg.index[s].present
<1>1. /\ Live(agg) \subseteq Occupied(agg) \ {s}
      /\ s \in Occupied(agg) /\ ~agg.index[s].present
  BY DEF AggInv, IndexMatches, Live, Indexed, Occupied
<1>2. IsFiniteSet(Occupied(agg)) /\ Cardinality(Occupied(agg)) \in Nat
  BY OccupiedFinite DEF SessionCount
<1>3. /\ IsFiniteSet(Occupied(agg) \ {s})
      /\ Cardinality(Occupied(agg) \ {s}) = Cardinality(Occupied(agg)) - 1
  BY <1>1, <1>2, FS_RemoveElement
<1>4. IsFiniteSet(Live(agg)) /\ Cardinality(Live(agg)) <= Cardinality(Occupied(agg) \ {s})
  BY <1>1, <1>3, FS_Subset, Zenon
<1>5. Cardinality(Live(agg)) \in Nat
  BY <1>4, FS_CardinalityType
<1>6. Cardinality(Occupied(agg)) <= MaxSessions
  BY DEF AggInv, WithinCapacity, SessionCount
<1> QED BY <1>1, <1>2, <1>3, <1>4, <1>5, <1>6, MaxSessionsAssumption

\* Discarding nothing changes nothing.
LEMMA DiscardNone ==
  ASSUME NEW agg \in Aggregates
  PROVE  DiscardAll(agg, {}) = agg
<1>1. /\ agg.slots \in [Sessions -> Slots] /\ agg.index \in [Sessions -> Entries]
      /\ agg = [slots |-> agg.slots, nextLease |-> agg.nextLease, index |-> agg.index]
  BY DEF Aggregates
<1>2. [t \in Sessions |-> agg.index[t]] = agg.index /\ [t \in Sessions |-> agg.slots[t]] = agg.slots
  BY <1>1
<1>3. /\ [t \in Sessions |-> IF t \in {} THEN NoEntry ELSE agg.index[t]] = agg.index
      /\ [t \in Sessions |-> IF t \in {} /\ IsEstablished(agg, t, agg.index[t].lease)
                             THEN NoSlot ELSE agg.slots[t]] = agg.slots
  BY <1>2
<1> QED BY <1>1, <1>3 DEF DiscardAll

\* AttachActivate: the slot becomes Established and enters the index together,
\* resumable, and nobody is evicted for it.
LEMMA ActivatedInv ==
  ASSUME NEW agg, AggInv(agg), NEW key \in Keys, NEW token, NEW grace \in Nat
  PROVE  LET b == OnActivated(agg, key, token, grace).agg
         IN  /\ AggInv(b)
             /\ \A t \in Sessions : b.index[t] # agg.index[t] => ~b.index[t].unresumable
<1> DEFINE s == key.sid
           slot == agg.slots[s]
           entry == [present |-> TRUE, lease |-> slot.lease, parked |-> FALSE,
                     since |-> 0, grace |-> grace, unresumable |-> FALSE]
           est == Slot("established", key, slot.lease)
           b == OnActivated(agg, key, token, grace).agg
<1>0. s \in Sessions /\ slot \in Slots
  BY DEF AggInv, Aggregates, Keys
<1>1. CASE slot.st = "pending" /\ KeyAt(s, slot) = key /\ token = slot.lease
  <2>1. Cardinality(Live(agg)) < MaxSessions /\ ~agg.index[s].present
    BY <1>0, <1>1, RoomToActivate
  <2>2. ~(Cardinality(Live(agg)) >= MaxSessions /\ ~agg.index[s].present)
    <3>1. IsFiniteSet(Live(agg))
      BY SessionsAssumption, FS_Subset DEF Live, Indexed
    <3>2. Cardinality(Live(agg)) \in Nat
      BY <3>1, FS_CardinalityType
    <3> QED BY <2>1, <3>2, MaxSessionsAssumption
  <2>3. b = SetEntry(DiscardAll(SetSlot(agg, s, est), {}), s, entry)
    BY <1>1, <2>2 DEF OnActivated, Result
  <2>4. est \in Slots /\ est.st = "established" /\ est.lease = slot.lease /\ entry \in Entries
    BY <1>0, GenerationsAssumption DEF Slots, SlotStates, Slot, Keys, Entries
  <2>5. /\ agg.slots \in [Sessions -> Slots] /\ agg.index \in [Sessions -> Entries]
        /\ agg.nextLease \in Nat /\ agg \in Aggregates
    BY DEF AggInv, Aggregates
  <2>6. SetSlot(agg, s, est) = [slots |-> [agg.slots EXCEPT ![s] = est],
                                nextLease |-> agg.nextLease, index |-> agg.index]
    BY <2>5 DEF SetSlot, Aggregates
  <2>7. DiscardAll(SetSlot(agg, s, est), {}) =
          [slots |-> [agg.slots EXCEPT ![s] = est],
           nextLease |-> agg.nextLease, index |-> agg.index]
    <3>1. SetSlot(agg, s, est) \in Aggregates
      BY <1>0, <2>4, <2>5, <2>6 DEF Aggregates
    <3> QED BY <2>6, <3>1, DiscardNone
  <2>8. b = [slots |-> [agg.slots EXCEPT ![s] = est],
             nextLease |-> agg.nextLease, index |-> [agg.index EXCEPT ![s] = entry]]
    BY <2>3, <2>7 DEF SetEntry
  <2>9. /\ b.nextLease = agg.nextLease
        /\ \A t \in Sessions : b.slots[t] = IF t = s THEN est ELSE agg.slots[t]
        /\ \A t \in Sessions : b.index[t] = IF t = s THEN entry ELSE agg.index[t]
    BY <2>5, <2>8
  <2>10. b \in Aggregates
    BY <2>4, <2>5, <2>8, <1>0 DEF Aggregates
  <2>11. IndexMatches(b) /\ HolesNotParked(b)
    BY <2>4, <2>9 DEF AggInv, IndexMatches, HolesNotParked
  <2>12. Occupied(b) = Occupied(agg)
    BY <1>0, <1>1, <2>4, <2>9 DEF Occupied
  <2>13. LeasesDistinct(b)
    <3>1. \A t \in Sessions : b.slots[t].lease = agg.slots[t].lease
      BY <2>4, <2>9
    <3> QED BY <2>9, <2>12, <3>1 DEF AggInv, LeasesDistinct, Occupied
  <2>14. WithinCapacity(b)
    BY <2>12, FewerSlots DEF AggInv
  <2> QED BY <2>9, <2>10, <2>11, <2>13, <2>14 DEF AggInv
<1>2. CASE ~(slot.st = "pending" /\ KeyAt(s, slot) = key /\ token = slot.lease)
  <2>1. b = agg
    BY <1>2 DEF OnActivated, Ignored, Result
  <2> QED BY <2>1
<1> QED BY <1>1, <1>2

-----------------------------------------------------------------------------
\* on_relay_terminated keeps the invariants: index entry and slot go together.
LEMMA RelayTerminatedInv ==
  ASSUME NEW agg, AggInv(agg), NEW s \in Sessions, NEW l
  PROVE  AggInv(OnRelayTerminated(agg, s, l).agg)
<1>1. AggInv(DiscardAll(agg, {s}))
  BY DiscardSlots
<1> QED BY <1>1 DEF OnRelayTerminated, DiscardResult, Ignored, Result

\* on_sweep keeps the invariants for any set of overdue sessions.
LEMMA SweepInv ==
  ASSUME NEW agg, AggInv(agg), NEW now
  PROVE  AggInv(OnSweep(agg, now).agg)
<1>1. Overdue(agg, now) \subseteq Sessions
  BY DEF Overdue, Parked
<1>2. AggInv(DiscardAll(agg, Overdue(agg, now)))
  BY <1>1, DiscardSlots
<1> QED BY <1>2 DEF OnSweep, DiscardResult, Result

\* A lease that no index entry has is, by I-c, not that of an Established slot,
\* so the second branch of on_relay_ended never frees anything.
LEMMA RelayEndedInv ==
  ASSUME NEW agg, AggInv(agg), NEW l
  PROVE  AggInv(OnRelayEnded(agg, l).agg)
<1> DEFINE owners == {s \in Sessions : IsCurrent(agg, s, l)}
<1>1. CASE owners # {}
  <2>1. AggInv(DiscardAll(agg, owners))
    BY DiscardSlots
  <2> QED BY <1>1, <2>1 DEF OnRelayEnded, DiscardResult, Result
<1>2. CASE owners = {}
  <2>1. /\ agg.slots \in [Sessions -> Slots]
        /\ agg = [slots |-> agg.slots, nextLease |-> agg.nextLease, index |-> agg.index]
    BY DEF AggInv, Aggregates
  <2>2. \A s \in Sessions : ~IsEstablished(agg, s, l)
    BY <1>2 DEF IsEstablished, IsCurrent, AggInv, IndexMatches
  <2>3. [s \in Sessions |-> IF IsEstablished(agg, s, l) THEN NoSlot ELSE agg.slots[s]] = agg.slots
    BY <2>1, <2>2
  <2>4. [agg EXCEPT !.slots = [s \in Sessions |->
           IF IsEstablished(agg, s, l) THEN NoSlot ELSE agg.slots[s]]] = agg
    BY <2>1, <2>3
  <2>5. OnRelayEnded(agg, l).agg = agg
    BY <1>2, <2>4 DEF OnRelayEnded, Result
  <2> QED BY <2>5
<1> QED BY <1>1, <1>2

\* on_parked keeps the invariants: it parks, or discards an unresumable incarnation.
LEMMA ParkedInv ==
  ASSUME NEW agg, AggInv(agg), NEW s \in Sessions, NEW l, NEW now \in Nat
  PROVE  AggInv(OnParked(agg, s, l, now).agg)
<1> DEFINE old == agg.index[s]
           entry == [old EXCEPT !.parked = TRUE, !.since = now]
<1>0. old \in Entries /\ entry \in Entries
  BY DEF AggInv, Aggregates, Entries
<1>1. CASE ~IsCurrent(agg, s, l)
  BY <1>1 DEF OnParked, Ignored, Result
<1>2. CASE IsCurrent(agg, s, l) /\ old.unresumable
  <2>1. AggInv(DiscardAll(agg, {s}))
    BY DiscardSlots
  <2> QED BY <1>2, <2>1 DEF OnParked, DiscardResult, Result
<1>3. CASE IsCurrent(agg, s, l) /\ ~old.unresumable
  <2>1. /\ entry.present = old.present /\ entry.lease = old.lease
        /\ entry.present /\ ~entry.unresumable
    BY <1>0, <1>3 DEF Entries, IsCurrent
  <2>2. AggInv(SetEntry(agg, s, entry))
    BY <1>0, <2>1, UpdateEntry
  <2> QED BY <1>3, <2>2 DEF OnParked, Result
<1> QED BY <1>1, <1>2, <1>3

\* on_resume_unavailable keeps the invariants: a parked entry is not marked.
LEMMA ResumeUnavailableInv ==
  ASSUME NEW agg, AggInv(agg), NEW s \in Sessions, NEW l
  PROVE  AggInv(OnResumeUnavailable(agg, s, l).agg)
<1> DEFINE old == agg.index[s]
           entry == [old EXCEPT !.unresumable = TRUE]
<1>0. old \in Entries /\ entry \in Entries
  BY DEF AggInv, Aggregates, Entries
<1>1. CASE IsCurrent(agg, s, l) /\ ~old.parked
  <2>1. entry.present = old.present /\ entry.lease = old.lease /\ ~entry.parked
    BY <1>0, <1>1 DEF Entries
  <2>2. AggInv(SetEntry(agg, s, entry))
    BY <1>0, <2>1, UpdateEntry
  <2> QED BY <1>1, <2>2 DEF OnResumeUnavailable, Result
<1>2. CASE ~(IsCurrent(agg, s, l) /\ ~old.parked)
  BY <1>2 DEF OnResumeUnavailable, Ignored, Result
<1> QED BY <1>1, <1>2

\* on_resume_requested keeps the invariants: a grant unparks the entry.
LEMMA ResumeRequestedInv ==
  ASSUME NEW agg, AggInv(agg), NEW s \in Sessions
  PROVE  AggInv(OnResumeRequested(agg, s).agg)
<1> DEFINE old == agg.index[s]
           entry == [old EXCEPT !.parked = FALSE, !.since = 0]
<1>0. /\ old \in Entries /\ entry \in Entries
      /\ entry.present = old.present /\ entry.lease = old.lease /\ ~entry.parked
  BY DEF AggInv, Aggregates, Entries
<1>1. AggInv(SetEntry(agg, s, entry))
  BY <1>0, UpdateEntry
<1>2. OnResumeRequested(agg, s).agg \in {agg, SetEntry(agg, s, entry)}
  BY <1>0 DEF OnResumeRequested, Result, Entries
<1> QED BY <1>1, <1>2
=============================================================================
