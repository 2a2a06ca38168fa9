------------------------ MODULE ServeAggregateProofs ------------------------
(***************************************************************************)
(* The invariants of the serve aggregate, for every value of the           *)
(* constants.  The inductive invariant is the conjunction of the type, the *)
(* index/slot correspondence, the uniqueness of leases, the capacity and   *)
(* the rule on unresumable entries: none of the last four is inductive     *)
(* without the others (freeing a slot by its lease needs uniqueness, an    *)
(* eviction makes room only because an indexed session holds a slot).      *)
(***************************************************************************)
EXTENDS ServeAggregate, ServeEffectsProofs

IInv == AggInv(agg) /\ now \in Nat

\* A new server satisfies the inductive invariant.
LEMMA InitInv == Init => IInv
<1> SUFFICES ASSUME Init PROVE IInv
  OBVIOUS
<1>1. agg \in Aggregates
  BY DEF Init, NewAggregate, Aggregates, NoSlot, NoEntry, Slots, SlotStates, Entries
<1>2. /\ \A s \in Sessions : agg.slots[s] = NoSlot /\ agg.index[s] = NoEntry
      /\ Occupied(agg) = {}
  BY DEF Init, NewAggregate, Occupied, NoSlot
<1>3. IndexMatches(agg) /\ LeasesDistinct(agg) /\ HolesNotParked(agg)
  BY <1>2 DEF IndexMatches, LeasesDistinct, HolesNotParked, NoSlot, NoEntry
<1>4. WithinCapacity(agg)
  BY <1>2, FS_EmptySet, MaxSessionsAssumption DEF WithinCapacity, SessionCount
<1> QED BY <1>1, <1>3, <1>4 DEF IInv, AggInv, Init

\* Every event keeps the inductive invariant.
LEMMA NextInv == IInv /\ [Next]_vars => IInv'
<1> SUFFICES ASSUME IInv, [Next]_vars PROVE IInv'
  OBVIOUS
<1> USE DEF IInv
<1>1. ASSUME NEW key \in Keys, AdmitRequested(key) PROVE IInv'
  BY <1>1, AdmitRequestedInv DEF AdmitRequested, Apply
<1>2. ASSUME NEW key \in Keys, CancelReceived(key) PROVE IInv'
  BY <1>2, CancelReceivedInv DEF CancelReceived, Apply
<1>3. ASSUME NEW key \in Keys, NEW token \in Leases, NEW grace \in Graces,
             Activated(key, token, grace)
      PROVE  IInv'
  BY <1>3, ActivatedInv, GracesAssumption DEF Activated, Apply
<1>4. ASSUME NEW s \in Sessions, ResumeRequested(s) PROVE IInv'
  BY <1>4, ResumeRequestedInv DEF ResumeRequested, Apply
<1>5. ASSUME NEW l \in Leases, TargetConnected(l) PROVE IInv'
  BY <1>5, TargetConnectedInv DEF TargetConnected, Apply
<1>6. ASSUME NEW l \in Leases, TargetConnectFailed(l) PROVE IInv'
  BY <1>6, TargetConnectFailedInv DEF TargetConnectFailed, Apply
<1>7. ASSUME NEW l \in Leases, LeaseStopped(l) PROVE IInv'
  BY <1>7, LeaseStoppedInv DEF LeaseStopped, Apply
<1>8. ASSUME NEW l \in Leases, PendingExpired(l) PROVE IInv'
  BY <1>8, PendingExpiredInv DEF PendingExpired, Apply
<1>9. ASSUME NEW l \in Leases, RelayEnded(l) PROVE IInv'
  BY <1>9, RelayEndedInv DEF RelayEnded, Apply
<1>10. ASSUME NEW s \in Sessions, NEW l \in Leases, ParkedFact(s, l) PROVE IInv'
  BY <1>10, ParkedInv DEF ParkedFact, Apply
<1>11. ASSUME NEW s \in Sessions, NEW l \in Leases, RelayTerminated(s, l) PROVE IInv'
  BY <1>11, RelayTerminatedInv DEF RelayTerminated, Apply
<1>12. ASSUME NEW s \in Sessions, NEW l \in Leases, ResumeUnavailable(s, l) PROVE IInv'
  BY <1>12, ResumeUnavailableInv DEF ResumeUnavailable, Apply
<1>13. CASE Sweep
  BY <1>13, SweepInv DEF Sweep, Apply
<1>14. CASE Tick
  BY <1>14 DEF Tick
<1>15. CASE UNCHANGED vars
  BY <1>15 DEF vars
<1> QED BY <1>1, <1>2, <1>3, <1>4, <1>5, <1>6, <1>7, <1>8, <1>9, <1>10, <1>11,
           <1>12, <1>13, <1>14, <1>15 DEF Next, Requests, Facts

\* The inductive invariant holds of every reachable state.
LEMMA Inductive == Spec => []IInv
  BY InitInv, NextInv, PTL DEF Spec

\* The aggregate and its clock keep their types.
THEOREM TypeCorrect == Spec => []TypeOK
<1>1. IInv => TypeOK
  BY DEF IInv, AggInv, TypeOK
<1> QED BY Inductive, <1>1, PTL

\* I-c for every instance: index entries and Established slots correspond.
THEOREM IndexAndSlotsAgree == Spec => []IndexMatchesSlots
<1>1. IInv => IndexMatchesSlots
  BY DEF IInv, AggInv, IndexMatchesSlots
<1> QED BY Inductive, <1>1, PTL

\* Leases stay globally unique for every instance.
THEOREM LeasesStayUnique == Spec => []LeasesUnique
<1>1. IInv => LeasesUnique
  BY DEF IInv, AggInv, LeasesUnique
<1> QED BY Inductive, <1>1, PTL

\* I-k for every --max-sessions and every number of clients.
THEOREM CapacityHolds == Spec => []CapacityRespected
<1>1. IInv => CapacityRespected
  BY DEF IInv, AggInv, CapacityRespected
<1> QED BY Inductive, <1>1, PTL

\* I-g for every instance: what cannot be resumed is never parked.
THEOREM HolesNeverParked == Spec => []UnresumableNeverParked
<1>1. IInv => UnresumableNeverParked
  BY DEF IInv, AggInv, UnresumableNeverParked
<1> QED BY Inductive, <1>1, PTL

-----------------------------------------------------------------------------
\* Only an activation puts a session in the index.
NoNewEntry(a, b) == \A s \in Sessions : b.index[s].present => a.index[s].present

\* An event of the arbiter that only rewrites slots leaves the index alone.
LEMMA SlotChangesKeepIndex ==
  ASSUME NEW a \in Aggregates, NEW s \in Sessions, NEW slot, NEW key
  PROVE  /\ SetSlot(a, s, slot).index = a.index
         /\ MintInto(a, s, key).index = a.index
BY DEF Aggregates, SetSlot, MintInto

\* Neither does a HELLO change the index.
LEMMA HelloKeepsIndex ==
  ASSUME NEW a \in Aggregates, NEW key \in Keys
  PROVE  OnHelloReceived(a, key).agg.index = a.index
<1> DEFINE s == key.sid
           slot == a.slots[s]
           moved == SetSlot(a, s, Slot("closing", key, slot.lease))
<1>1. /\ s \in Sessions /\ key.gen \in Nat /\ slot \in Slots
      /\ moved.index = a.index /\ MintInto(a, s, key).index = a.index
  BY SlotChangesKeepIndex, GenerationsAssumption DEF Keys, Aggregates
<1>2. DecideAgainstInFlight(a, key, slot).agg \in {a, moved}
  BY <1>1 DEF DecideAgainstInFlight, Result, Ignored, Keys, KeyAt, Slots
<1>3. DecideAgainstClosing(a, key, slot).agg \in {a, moved}
  BY <1>1 DEF DecideAgainstClosing, Result, Ignored, Keys, KeyAt, Slots
<1>4. OnHelloReceived(a, key).agg \in {a, moved, MintInto(a, s, key)}
  BY <1>1, <1>2, <1>3 DEF OnHelloReceived, Result, Slots, SlotStates
<1> QED BY <1>1, <1>4

\* Discarding sessions adds none to the index.
LEMMA DiscardKeepsAbsent ==
  ASSUME NEW a \in Aggregates, NEW S
  PROVE  NoNewEntry(a, DiscardAll(a, S))
BY DEF NoNewEntry, DiscardAll, Aggregates, NoEntry

\* A session enters the index resumable, whatever the constants: the branch
\* of on_activated that registers an unresumable entry is dead code.
THEOREM RegistersWithinCapacity == Spec => NeverRegisteredOverCapacity
<1> DEFINE Registers == \A s \in Sessions :
             ~agg.index[s].present /\ agg'.index[s].present => ~agg'.index[s].unresumable
<1>1. ASSUME IInv, [Next]_vars PROVE Registers
  <2>0. agg \in Aggregates
    BY <1>1 DEF IInv, AggInv
  <2>1. NoNewEntry(agg, agg') => Registers
    BY DEF NoNewEntry
  <2>2. ASSUME NEW key \in Keys, AdmitRequested(key) PROVE Registers
    <3> DEFINE b == DiscardAll(agg, OldestParked(agg))
    <3>1. b \in Aggregates
      <4>1. OldestParked(agg) \subseteq Sessions
        BY DEF OldestParked, Parked
      <4> QED BY <1>1, <4>1, DiscardSlots DEF IInv, AggInv
    <3>2. /\ OnHelloReceived(agg, key).agg.index = agg.index
          /\ OnHelloReceived(b, key).agg.index = b.index
      BY <2>0, <3>1, HelloKeepsIndex
    <3>3. OnAdmitRequested(agg, key).agg.index \in {agg.index, b.index}
      BY <3>2 DEF OnAdmitRequested, Result
    <3>4. NoNewEntry(agg, b)
      BY <2>0, DiscardKeepsAbsent
    <3> QED BY <2>1, <2>2, <3>3, <3>4 DEF AdmitRequested, Apply, NoNewEntry
  <2>3. ASSUME NEW key \in Keys, CancelReceived(key) PROVE Registers
    <3>1. key.sid \in Sessions
      BY DEF Keys
    <3> QED BY <2>0, <2>1, <2>3, <3>1, SlotChangesKeepIndex
            DEF CancelReceived, Apply, OnCancelReceived, Ignored, Result, NoNewEntry
  <2>4. ASSUME NEW key \in Keys, NEW token \in Leases, NEW grace \in Graces,
               Activated(key, token, grace)
        PROVE  Registers
    BY <1>1, <2>4, ActivatedInv, GracesAssumption DEF Activated, Apply, IInv
  <2>5. ASSUME NEW s \in Sessions, ResumeRequested(s) PROVE Registers
    BY <2>0, <2>1, <2>5 DEF ResumeRequested, Apply, OnResumeRequested, Result, SetEntry,
                      Aggregates, Entries, NoNewEntry
  <2>6. ASSUME NEW l \in Leases, TargetConnected(l) \/ TargetConnectFailed(l) \/ LeaseStopped(l)
                                  \/ PendingExpired(l)
        PROVE  Registers
    <3>1. TargetConnected(l) => agg'.index = agg.index
      BY <2>0, LeaseOwner, SlotChangesKeepIndex
         DEF TargetConnected, Apply, OnTargetConnected, Ignored, Result
    <3>2. TargetConnectFailed(l) => agg'.index = agg.index
      BY <2>0, LeaseOwner, SlotChangesKeepIndex
         DEF TargetConnectFailed, Apply, OnTargetConnectFailed, Ignored, Result
    <3>3. LeaseStopped(l) => agg'.index = agg.index
      BY <2>0, LeaseOwner, SlotChangesKeepIndex
         DEF LeaseStopped, Apply, OnLeaseStopped, Ignored, Result
    <3>4. PendingExpired(l) => agg'.index = agg.index
      BY <2>0, LeaseOwner, SlotChangesKeepIndex
         DEF PendingExpired, Apply, OnPendingExpired, Ignored, Result
    <3> QED BY <2>1, <2>6, <3>1, <3>2, <3>3, <3>4 DEF NoNewEntry
  <2>7. ASSUME NEW l \in Leases, RelayEnded(l) PROVE Registers
    <3>1. \A S : NoNewEntry(agg, DiscardAll(agg, S))
      BY <2>0, DiscardKeepsAbsent
    <3> QED BY <2>0, <2>1, <2>7, <3>1
            DEF RelayEnded, Apply, OnRelayEnded, DiscardResult, Result, Aggregates, NoNewEntry
  <2>8. ASSUME NEW s \in Sessions, NEW l \in Leases, RelayTerminated(s, l) PROVE Registers
    BY <2>0, <2>1, <2>8, DiscardKeepsAbsent
       DEF RelayTerminated, Apply, OnRelayTerminated, DiscardResult, Ignored, Result, NoNewEntry
  <2>9. ASSUME NEW s \in Sessions, NEW l \in Leases, ParkedFact(s, l) PROVE Registers
    <3>1. NoNewEntry(agg, DiscardAll(agg, {s}))
      BY <2>0, DiscardKeepsAbsent
    <3>2. NoNewEntry(agg, SetEntry(agg, s, [agg.index[s] EXCEPT !.parked = TRUE, !.since = now]))
      BY <2>0 DEF NoNewEntry, SetEntry, Aggregates, Entries
    <3>3. NoNewEntry(agg, agg)
      BY DEF NoNewEntry
    <3> QED BY <2>1, <2>9, <3>1, <3>2, <3>3
            DEF ParkedFact, Apply, OnParked, DiscardResult, Ignored, Result
  <2>10. ASSUME NEW s \in Sessions, NEW l \in Leases, ResumeUnavailable(s, l) PROVE Registers
    BY <2>0, <2>1, <2>10
       DEF ResumeUnavailable, Apply, OnResumeUnavailable, Ignored, Result, SetEntry,
           Aggregates, Entries, NoNewEntry
  <2>11. CASE Sweep
    BY <2>0, <2>1, <2>11, DiscardKeepsAbsent DEF Sweep, Apply, OnSweep, DiscardResult, Result
  <2>12. CASE Tick \/ UNCHANGED vars
    BY <2>1, <2>12 DEF Tick, vars, NoNewEntry
  <2> QED BY <1>1, <2>2, <2>3, <2>4, <2>5, <2>6, <2>7, <2>8, <2>9, <2>10, <2>11, <2>12
          DEF Next, Requests, Facts
<1>2. Spec => [][Registers]_vars
  BY <1>1, Inductive, PTL DEF Spec
<1> QED BY <1>2 DEF NeverRegisteredOverCapacity

-----------------------------------------------------------------------------
(***************************************************************************)
(* Fencing.  A slot that stays occupied moves forward: each reducer is one *)
(* or two rewrites of the aggregate, and each rewrite moves no slot back.  *)
(***************************************************************************)
SlotForward(x, y) ==
  x.st # "absent" /\ y.st # "absent" =>
    /\ x.gen <= y.gen
    /\ x.lease <= y.lease
    /\ x.lease = y.lease => Stage[x.st] <= Stage[y.st]
Forward(a, b) == \A s \in Sessions : SlotForward(a.slots[s], b.slots[s])

\* The stages in order.
LEMMA Stages ==
  /\ Stage["connecting"] = 1 /\ Stage["pending"] = 2
  /\ Stage["closing"] = 3 /\ Stage["established"] = 4
BY DEF Stage

\* A slot that is left alone has not moved back.
LEMMA StaysForward ==
  ASSUME NEW x \in Slots
  PROVE  SlotForward(x, x)
<1>1. x.gen \in Nat /\ x.lease \in Nat /\ x.st \in SlotStates
  BY DEF Slots
<1>2. x.st # "absent" => Stage[x.st] <= Stage[x.st]
  BY <1>1, Stages DEF SlotStates
<1> QED BY <1>1, <1>2 DEF SlotForward

\* An event that leaves the slots alone.
LEMMA SameForward ==
  ASSUME NEW a, AggInv(a), NEW b, b.slots = a.slots
  PROVE  Forward(a, b)
BY Fields, StaysForward DEF Forward

\* An event that rewrites the slot of one session.
LEMMA OneForward ==
  ASSUME NEW a, AggInv(a), NEW b, NEW s \in Sessions, NEW new,
         SlotForward(a.slots[s], new),
         \A t \in Sessions : b.slots[t] = IF t = s THEN new ELSE a.slots[t]
  PROVE  Forward(a, b)
BY Fields, StaysForward DEF Forward

\* Freeing slots moves none back.
LEMMA FreedForward ==
  ASSUME NEW a, AggInv(a), NEW b,
         \A t \in Sessions : b.slots[t] \in {NoSlot, a.slots[t]}
  PROVE  Forward(a, b) /\ Occupied(b) \subseteq Occupied(a)
<1>1. \A x : SlotForward(x, NoSlot)
  BY DEF SlotForward, NoSlot
<1>2. \A t \in Sessions : SlotForward(a.slots[t], b.slots[t])
  BY <1>1, Fields, StaysForward
<1> QED BY <1>2 DEF Forward, Occupied, NoSlot

\* Steps of the same direction add up.
LEMMA FreedThenForward ==
  ASSUME NEW a, NEW b, NEW c, Forward(b, c),
         \A t \in Sessions : b.slots[t] \in {NoSlot, a.slots[t]},
         \A t \in Sessions : b.slots[t] # a.slots[t] => c.slots[t] = b.slots[t]
  PROVE  Forward(a, c)
BY DEF Forward, SlotForward, NoSlot

\* A newer HELLO takes over a slot whose lease is not established yet; an
\* older one changes nothing.
LEMMA HelloForward ==
  ASSUME NEW a, AggInv(a), NEW key \in Keys
  PROVE  LET b == OnHelloReceived(a, key).agg IN
         /\ Forward(a, b) /\ b.index = a.index
         /\ \A t \in Sessions : t # key.sid => b.slots[t] = a.slots[t]
<1> DEFINE s == key.sid
           slot == a.slots[s]
           new == Slot("closing", key, slot.lease)
           moved == SetSlot(a, s, new)
           first == Slot("connecting", key, a.nextLease)
           minted == MintInto(a, s, key)
           b == OnHelloReceived(a, key).agg
<1>0. /\ s \in Sessions /\ key.gen \in Nat /\ slot \in Slots
      /\ slot.gen \in Nat /\ slot.lease \in Nat /\ slot.st \in SlotStates
  BY GenerationsAssumption, Fields DEF Keys, Slots
<1>1. /\ moved.index = a.index /\ minted.index = a.index
      /\ \A t \in Sessions : moved.slots[t] = IF t = s THEN new ELSE a.slots[t]
      /\ \A t \in Sessions : minted.slots[t] = IF t = s THEN first ELSE a.slots[t]
  BY <1>0, SetSlotFields, MintFields
<1>2. /\ b \in {a, moved, minted}
      /\ b = minted => b = a \/ slot.st = "absent"
      /\ b = moved => b = a \/ (slot.st \in {"connecting", "pending", "closing"} /\ slot.gen < key.gen)
  <2>1. CASE slot.st = "absent"
    <3>1. b = minted
      BY <2>1 DEF OnHelloReceived, Result
    <3>2. minted.slots[s].st = "connecting" /\ moved.slots[s].st = "closing"
      BY <1>0, <1>1 DEF Slot
    <3> QED BY <2>1, <3>1, <3>2
  <2>2. CASE slot.st \in {"connecting", "pending"}
    <3>1. b = a \/ (b = moved /\ slot.gen < key.gen)
      BY <1>0, <2>2 DEF OnHelloReceived, DecideAgainstInFlight, Result, Ignored, Keys, KeyAt, Slots
    <3>2. minted.slots[s].st = "connecting" /\ moved.slots[s].st = "closing"
      BY <1>0, <1>1 DEF Slot
    <3> QED BY <2>2, <3>1, <3>2
  <2>3. CASE slot.st = "established"
    BY <2>3 DEF OnHelloReceived, Result
  <2>4. CASE slot.st = "closing"
    <3>1. b = a \/ (b = moved /\ slot.gen < key.gen)
      BY <1>0, <2>4 DEF OnHelloReceived, DecideAgainstClosing, Result, Ignored, Keys, KeyAt, Slots
    <3>2. minted.slots[s].st = "connecting" /\ moved.slots[s].st = "closing"
      BY <1>0, <1>1 DEF Slot
    <3> QED BY <2>4, <3>1, <3>2
  <2> QED BY <1>0, <2>1, <2>2, <2>3, <2>4 DEF SlotStates
<1>3. CASE b = a
  BY <1>3, SameForward
<1>4. CASE b = minted /\ slot.st = "absent"
  <2>1. SlotForward(slot, first)
    BY <1>4 DEF SlotForward
  <2>2. Forward(a, minted)
    <3>1. PICK f, g : f = first /\ g = minted
      OBVIOUS
    <3>2. /\ \A u \in Sessions : g.slots[u] = IF u = s THEN f ELSE a.slots[u]
          /\ SlotForward(a.slots[s], f)
      BY <1>1, <2>1, <3>1
    <3>3. Forward(a, g)
      BY <1>0, <3>2, OneForward
    <3> QED BY <3>1, <3>3
  <2> QED BY <1>1, <1>4, <2>2
<1>5. CASE b = moved /\ slot.st \in {"connecting", "pending", "closing"} /\ slot.gen < key.gen
  <2>1. new.st = "closing" /\ new.gen = key.gen /\ new.lease = slot.lease
    BY DEF Slot
  <2>2. SlotForward(slot, new)
    BY <1>0, <1>5, <2>1, Stages DEF SlotForward
  <2>3. Forward(a, moved)
    BY <1>0, <1>1, <2>2, OneForward
  <2> QED BY <1>1, <1>5, <2>3
<1> QED BY <1>2, <1>3, <1>4, <1>5

\* An admission evicts, if anyone, the session parked longest, and only when
\* no slot is left; then it is a HELLO.
LEMMA AdmitForward ==
  ASSUME NEW a, AggInv(a), NEW key \in Keys
  PROVE  LET b == OnAdmitRequested(a, key).agg IN
         /\ Forward(a, b)
         /\ \A t \in Sessions : t # key.sid =>
              \/ b.slots[t] = a.slots[t]
              \/ /\ b.slots[t] = NoSlot /\ t \in OldestParked(a)
                 /\ ~(SessionCount(a) < MaxSessions) /\ a.slots[key.sid].st = "absent"
<1> DEFINE s == key.sid
           victims == OldestParked(a)
           d == DiscardAll(a, victims)
           b == OnAdmitRequested(a, key).agg
<1>0. s \in Sessions /\ victims \in SUBSET Sessions
  BY DEF Keys, OldestParked, Parked
<1>1. CASE HasSession(a, s) \/ SessionCount(a) < MaxSessions
  <2>1. b = OnHelloReceived(a, key).agg
    BY <1>1 DEF OnAdmitRequested
  <2> QED BY <2>1, HelloForward
<1>2. CASE ~(HasSession(a, s) \/ SessionCount(a) < MaxSessions) /\ victims = {}
  <2>1. b = a
    BY <1>2 DEF OnAdmitRequested, Result
  <2> QED BY <2>1, SameForward
<1>3. CASE ~(HasSession(a, s) \/ SessionCount(a) < MaxSessions) /\ victims # {}
  <2>1. b = OnHelloReceived(d, key).agg
    BY <1>3 DEF OnAdmitRequested, Result
  <2>2. AggInv(d)
    BY <1>0, DiscardSlots
  <2>3. /\ Forward(d, b)
        /\ \A t \in Sessions : t # s => b.slots[t] = d.slots[t]
    BY <2>1, <2>2, HelloForward
  <2>4. \A t \in Sessions :
          d.slots[t] = IF t \in victims /\ a.index[t].present THEN NoSlot ELSE a.slots[t]
    BY <1>0, DiscardFields
  <2>5. a.slots[s].st = "absent" /\ ~a.index[s].present
    BY <1>0, <1>3, Fields DEF HasSession
  <2>6. d.slots[s] = a.slots[s]
    BY <1>0, <2>4, <2>5
  <2>7. Forward(a, b)
    <3>1. \A t \in Sessions : d.slots[t] \in {NoSlot, a.slots[t]}
      BY <2>4
    <3>2. \A t \in Sessions : d.slots[t] # a.slots[t] => b.slots[t] = d.slots[t]
      BY <2>3, <2>6
    <3> QED BY <2>3, <3>1, <3>2, FreedThenForward
  <2> QED BY <1>3, <2>3, <2>4, <2>5, <2>7
<1> QED BY <1>1, <1>2, <1>3

\* At most one session is the oldest park: the ids break a tie.
LEMMA OldestIsOne ==
  ASSUME NEW a, AggInv(a), NEW s \in OldestParked(a), NEW t \in OldestParked(a)
  PROVE  /\ s = t /\ s \in Parked(a)
         /\ \A u \in Parked(a) : a.index[s].since <= a.index[u].since
<1>1. \A u \in Parked(a) : u \in Nat /\ a.index[u].since \in Nat
  <2>1. \A u \in Sessions : a.index[u] \in Entries
    BY Fields
  <2> QED BY <2>1, SessionsAssumption DEF Parked, Entries
<1>2. /\ s \in Parked(a) /\ t \in Parked(a)
      /\ \A u \in Parked(a) :
           \/ a.index[s].since < a.index[u].since
           \/ a.index[s].since = a.index[u].since /\ s <= u
      /\ \A u \in Parked(a) :
           \/ a.index[t].since < a.index[u].since
           \/ a.index[t].since = a.index[u].since /\ t <= u
  BY DEF OldestParked
<1>3. s = t
  BY <1>1, <1>2
<1> QED BY <1>1, <1>2, <1>3

\* The events that free one slot or move one lease a stage on, for the lease
\* they name.
LEMMA LeaseEventsForward ==
  ASSUME NEW a, AggInv(a), NEW l
  PROVE  /\ Forward(a, OnTargetConnected(a, l).agg)
         /\ Forward(a, OnTargetConnectFailed(a, l).agg)
         /\ Forward(a, OnLeaseStopped(a, l).agg)
         /\ Forward(a, OnPendingExpired(a, l).agg)
         /\ Occupied(OnTargetConnected(a, l).agg) \subseteq Occupied(a)
         /\ Occupied(OnTargetConnectFailed(a, l).agg) \subseteq Occupied(a)
         /\ Occupied(OnLeaseStopped(a, l).agg) \subseteq Occupied(a)
         /\ Occupied(OnPendingExpired(a, l).agg) \subseteq Occupied(a)
<1> DEFINE Fine(b) == Forward(a, b) /\ Occupied(b) \subseteq Occupied(a)
<1>0. Fine(a)
  BY SameForward
<1>1. \A s \in Sessions : Fine(SetSlot(a, s, NoSlot))
  <2> TAKE s \in Sessions
  <2>1. \A t \in Sessions : SetSlot(a, s, NoSlot).slots[t] = IF t = s THEN NoSlot ELSE a.slots[t]
    BY SetSlotFields
  <2> QED BY <2>1, FreedForward
<1>2. ASSUME NEW s \in Sessions, NEW b, NEW new, a.slots[s].st # "absent",
             SlotForward(a.slots[s], new),
             \A t \in Sessions : b.slots[t] = IF t = s THEN new ELSE a.slots[t]
      PROVE  Fine(b)
  BY <1>2, OneForward DEF Occupied
<1>3. Fine(OnTargetConnected(a, l).agg)
  <2>1. CASE SlotsWith(a, l, "connecting") = {}
    BY <1>0, <2>1 DEF OnTargetConnected, Ignored, Result
  <2>2. CASE SlotsWith(a, l, "connecting") # {}
    <3>1. PICK s \in Sessions : /\ s = SessionForLease(a, l, "connecting")
                                /\ a.slots[s].st = "connecting" /\ a.slots[s].lease = l
      BY <2>2, LeaseOwner
    <3>2. PICK new : new = Slot("pending", KeyAt(s, a.slots[s]), l)
      OBVIOUS
    <3>3. OnTargetConnected(a, l).agg = SetSlot(a, s, new)
      BY <2>2, <3>1, <3>2 DEF OnTargetConnected, Result
    <3>4. new.st = "pending" /\ new.gen = a.slots[s].gen /\ new.lease = a.slots[s].lease
      BY <3>1, <3>2 DEF Slot, KeyAt
    <3>5. SlotForward(a.slots[s], new)
      <4>1. a.slots[s].gen \in Nat /\ a.slots[s].lease \in Nat
        BY Fields DEF Slots
      <4> QED BY <3>1, <3>4, <4>1, Stages DEF SlotForward
    <3>6. \A t \in Sessions : SetSlot(a, s, new).slots[t] = IF t = s THEN new ELSE a.slots[t]
      BY SetSlotFields
    <3> QED BY <1>2, <3>1, <3>3, <3>5, <3>6
  <2> QED BY <2>1, <2>2
<1>4. Fine(OnTargetConnectFailed(a, l).agg)
  BY <1>0, <1>1, LeaseOwner DEF OnTargetConnectFailed, Ignored, Result
<1>5. Fine(OnPendingExpired(a, l).agg)
  BY <1>0, <1>1, LeaseOwner DEF OnPendingExpired, Ignored, Result
<1>6. Fine(OnLeaseStopped(a, l).agg)
  <2>1. CASE SlotsWith(a, l, "closing") = {}
    BY <1>0, <2>1 DEF OnLeaseStopped, Ignored, Result
  <2>2. CASE SlotsWith(a, l, "closing") # {}
    <3>1. PICK s \in Sessions : /\ s = SessionForLease(a, l, "closing")
                                /\ a.slots[s].st = "closing" /\ a.slots[s].lease = l
      BY <2>2, LeaseOwner
    <3>2. PICK key : key = KeyAt(s, a.slots[s])
      OBVIOUS
    <3>3. PICK new : new = Slot("connecting", key, a.nextLease)
      OBVIOUS
    <3>4. OnLeaseStopped(a, l).agg = MintInto(a, s, key)
      BY <2>2, <3>1, <3>2 DEF OnLeaseStopped, Result
    <3>5. new.gen = a.slots[s].gen /\ new.lease = a.nextLease
      BY <3>2, <3>3 DEF Slot, KeyAt
    <3>6. SlotForward(a.slots[s], new)
      <4>1. /\ a.slots[s].gen \in Nat /\ a.slots[s].lease \in Nat /\ a.nextLease \in Nat
            /\ a.slots[s].lease < a.nextLease
        BY <3>1, Fields DEF Slots, Minted
      <4> QED BY <3>5, <4>1 DEF SlotForward
    <3>7. \A t \in Sessions : MintInto(a, s, key).slots[t] = IF t = s THEN new ELSE a.slots[t]
      BY <3>3, MintFields
    <3> QED BY <1>2, <3>1, <3>4, <3>6, <3>7
  <2> QED BY <2>1, <2>2
<1> QED BY <1>3, <1>4, <1>5, <1>6

\* A discard frees slots and moves none.
LEMMA DiscardForward ==
  ASSUME NEW a, AggInv(a), NEW S \in SUBSET Sessions
  PROVE  LET b == DiscardResult(a, S).agg IN
         Forward(a, b) /\ Occupied(b) \subseteq Occupied(a)
<1>1. DiscardResult(a, S).agg = DiscardAll(a, S)
  BY DEF DiscardResult, Result
<1>2. \A t \in Sessions : DiscardAll(a, S).slots[t] \in {NoSlot, a.slots[t]}
  BY DiscardFields
<1> QED BY <1>1, <1>2, FreedForward

\* The events that name no lease of the arbiter, or an established one: they
\* free slots, leave them alone, or establish the one that was pending.
LEMMA IndexEventsForward ==
  ASSUME NEW a, AggInv(a), NEW s \in Sessions, NEW l, NEW at
  PROVE  /\ Forward(a, OnRelayTerminated(a, s, l).agg)
         /\ Forward(a, OnParked(a, s, l, at).agg)
         /\ Forward(a, OnResumeUnavailable(a, s, l).agg)
         /\ Forward(a, OnResumeRequested(a, s).agg)
         /\ Occupied(OnRelayTerminated(a, s, l).agg) \subseteq Occupied(a)
         /\ Occupied(OnParked(a, s, l, at).agg) \subseteq Occupied(a)
         /\ Occupied(OnResumeUnavailable(a, s, l).agg) \subseteq Occupied(a)
         /\ Occupied(OnResumeRequested(a, s).agg) \subseteq Occupied(a)
<1> DEFINE Fine(b) == Forward(a, b) /\ Occupied(b) \subseteq Occupied(a)
<1>1. Fine(a) /\ Fine(DiscardResult(a, {s}).agg)
  BY SameForward, DiscardForward
<1>2. \A entry : Fine(SetEntry(a, s, entry))
  <2> TAKE entry
  <2>1. SetEntry(a, s, entry).slots = a.slots
    BY SetEntryFields
  <2> QED BY <2>1, SameForward DEF Occupied
<1>3. Fine(OnRelayTerminated(a, s, l).agg)
  BY <1>1 DEF OnRelayTerminated, Ignored, Result
<1>4. Fine(OnParked(a, s, l, at).agg)
  <2>1. \/ OnParked(a, s, l, at).agg \in {a, DiscardResult(a, {s}).agg}
        \/ \E entry : OnParked(a, s, l, at).agg = SetEntry(a, s, entry)
    BY Fields DEF OnParked, Ignored, Result
  <2> QED BY <1>1, <1>2, <2>1
<1>5. Fine(OnResumeUnavailable(a, s, l).agg)
  BY <1>1, <1>2 DEF OnResumeUnavailable, Ignored, Result
<1>6. Fine(OnResumeRequested(a, s).agg)
  <2>1. \/ OnResumeRequested(a, s).agg = a
        \/ \E entry : OnResumeRequested(a, s).agg = SetEntry(a, s, entry)
    BY Fields DEF OnResumeRequested, Result
  <2> QED BY <1>1, <1>2, <2>1
<1> QED BY <1>3, <1>4, <1>5, <1>6

\* An activation takes the pending lease of its own key to the last stage.
LEMMA ActivatedForward ==
  ASSUME NEW a, AggInv(a), NEW key \in Keys, NEW token, NEW grace \in Nat
  PROVE  LET b == OnActivated(a, key, token, grace).agg IN
         Forward(a, b) /\ Occupied(b) \subseteq Occupied(a)
<1> DEFINE s == key.sid
           slot == a.slots[s]
           b == OnActivated(a, key, token, grace).agg
<1>0. s \in Sessions /\ slot.gen \in Nat /\ slot.lease \in Nat
  BY Fields DEF Keys, Slots
<1>1. CASE b = a
  BY <1>1, SameForward
<1>2. CASE b # a
  <2>1. /\ slot.st = "pending" /\ slot.lease = token
        /\ b.slots[s].st = "established" /\ b.slots[s].lease = token
        /\ Elsewhere(a, b, s)
    BY <1>2, ActivatedEstablishes
  <2>2. \A t \in Sessions : b.slots[t] = IF t = s THEN b.slots[s] ELSE a.slots[t]
    BY <2>1 DEF Elsewhere
  <2>3. KeyAt(s, slot) = key
    BY <1>2 DEF OnActivated, Ignored, Result
  <2>4. b.slots[s].gen = slot.gen
    <3>1. PICK d, entry : b = SetEntry(DiscardAll(SetSlot(a, s, Slot("established", key, slot.lease)), d), s, entry)
      BY <1>2 DEF OnActivated, Ignored, Result
    <3>2. b.slots[s] \in {NoSlot, Slot("established", key, slot.lease)}
      BY <1>0, <3>1 DEF AggInv, Aggregates, SetEntry, DiscardAll, SetSlot
    <3>3. b.slots[s].gen = key.gen
      BY <2>1, <3>2 DEF NoSlot, Slot
    <3> QED BY <2>3, <3>3 DEF KeyAt
  <2>5. SlotForward(slot, b.slots[s])
    BY <1>0, <2>1, <2>4, Stages DEF SlotForward
  <2>6. Forward(a, b)
    <3>1. PICK new : new = b.slots[s]
      OBVIOUS
    <3> QED BY <1>0, <2>2, <2>5, <3>1, OneForward
  <2> QED BY <2>1, <2>2, <2>6 DEF Occupied
<1> QED BY <1>1, <1>2

\* No step moves a slot back, and only an admission occupies a free one.
LEMMA StepForward ==
  ASSUME IInv, [Next]_vars
  PROVE  /\ Forward(agg, agg')
         /\ Occupied(agg') \subseteq Occupied(agg) \/ \E key \in Keys : AdmitRequested(key)
<1> DEFINE Fine == Forward(agg, agg') /\ Occupied(agg') \subseteq Occupied(agg)
<1>0. AggInv(agg)
  BY DEF IInv
<1>1. ASSUME NEW key \in Keys, AdmitRequested(key) PROVE Forward(agg, agg')
  BY <1>0, <1>1, AdmitForward DEF AdmitRequested, Apply
<1>2. ASSUME NEW key \in Keys, CancelReceived(key) PROVE Fine
  <2>1. key.sid \in Sessions
    BY DEF Keys
  <2>2. agg' \in {agg, SetSlot(agg, key.sid, NoSlot)}
    BY <1>2 DEF CancelReceived, Apply, OnCancelReceived, Ignored, Result
  <2>3. \A t \in Sessions : agg'.slots[t] \in {NoSlot, agg.slots[t]}
    BY <1>0, <2>1, <2>2, SetSlotFields
  <2> QED BY <1>0, <2>3, FreedForward
<1>3. ASSUME NEW key \in Keys, NEW token \in Leases, NEW grace \in Graces,
             Activated(key, token, grace)
      PROVE  Fine
  BY <1>0, <1>3, ActivatedForward, GracesAssumption DEF Activated, Apply
<1>4. ASSUME NEW s \in Sessions, ResumeRequested(s) PROVE Fine
  BY <1>0, <1>4, IndexEventsForward DEF ResumeRequested, Apply
<1>5. ASSUME NEW l \in Leases,
             TargetConnected(l) \/ TargetConnectFailed(l) \/ LeaseStopped(l) \/ PendingExpired(l)
      PROVE  Fine
  BY <1>0, <1>5, LeaseEventsForward
     DEF TargetConnected, TargetConnectFailed, LeaseStopped, PendingExpired, Apply
<1>6. ASSUME NEW l \in Leases, RelayEnded(l) PROVE Fine
  <2>1. \A t \in Sessions : agg'.slots[t] \in {NoSlot, agg.slots[t]}
    <3>1. \A S \in SUBSET Sessions, t \in Sessions :
            DiscardAll(agg, S).slots[t] \in {NoSlot, agg.slots[t]}
      BY <1>0, DiscardFields
    <3> QED BY <1>0, <1>6, <3>1
            DEF RelayEnded, Apply, OnRelayEnded, DiscardResult, Result, AggInv, Aggregates
  <2> QED BY <1>0, <2>1, FreedForward
<1>7. ASSUME NEW s \in Sessions, NEW l \in Leases,
             RelayTerminated(s, l) \/ ParkedFact(s, l) \/ ResumeUnavailable(s, l)
      PROVE  Fine
  BY <1>0, <1>7, IndexEventsForward DEF RelayTerminated, ParkedFact, ResumeUnavailable, Apply
<1>8. CASE Sweep
  <2>1. Overdue(agg, now) \in SUBSET Sessions
    BY DEF Overdue, Parked
  <2> QED BY <1>0, <1>8, <2>1, DiscardForward DEF Sweep, Apply, OnSweep
<1>9. CASE Tick \/ UNCHANGED vars
  BY <1>0, <1>9, SameForward DEF Tick, vars
<1> QED BY <1>1, <1>2, <1>3, <1>4, <1>5, <1>6, <1>7, <1>8, <1>9 DEF Next, Requests, Facts

\* Fencing for every instance: whatever HELLOs, CANCELs and late facts arrive,
\* a session's generation, its lease and the stage of its lease only grow.
THEOREM FencingHolds == Spec => FencingMovesForward
<1> DEFINE Fenced == \A s \in Occupied(agg) \cap Occupied(agg') :
             /\ agg.slots[s].gen <= agg'.slots[s].gen
             /\ agg.slots[s].lease <= agg'.slots[s].lease
             /\ agg.slots[s].lease = agg'.slots[s].lease
                  => Stage[agg.slots[s].st] <= Stage[agg'.slots[s].st]
<1>1. ASSUME IInv, [Next]_vars PROVE Fenced
  BY <1>1, StepForward DEF Forward, SlotForward, Occupied
<1>2. Spec => [][Fenced]_vars
  BY <1>1, Inductive, PTL DEF Spec
<1> QED BY <1>2 DEF FencingMovesForward

\* Admission at capacity for every instance: who loses the slot for a new
\* session is the session parked longest, and nobody does while there is room.
THEOREM EvictionIsFair == Spec => EvictionTakesTheOldest
<1> DEFINE Evicted == Occupied(agg) \ Occupied(agg')
           Fair == \A t \in Occupied(agg') \ Occupied(agg) :
             LET evicted == Occupied(agg) \ Occupied(agg') IN
             /\ Cardinality(evicted) <= 1
             /\ \A s \in evicted :
                  /\ SessionCount(agg) = MaxSessions
                  /\ s \in Parked(agg)
                  /\ \A u \in Parked(agg) : agg.index[s].since <= agg.index[u].since
<1>1. ASSUME IInv, [Next]_vars PROVE Fair
  <2> SUFFICES ASSUME NEW t \in Occupied(agg') \ Occupied(agg)
               PROVE  /\ Cardinality(Evicted) <= 1
                      /\ \A s \in Evicted :
                           /\ SessionCount(agg) = MaxSessions
                           /\ s \in Parked(agg)
                           /\ \A u \in Parked(agg) : agg.index[s].since <= agg.index[u].since
    OBVIOUS
  <2>0. AggInv(agg)
    BY <1>1 DEF IInv
  <2>1. PICK key \in Keys : AdmitRequested(key)
    BY <1>1, StepForward
  <2>2. \A s \in Sessions : s # key.sid =>
          \/ agg'.slots[s] = agg.slots[s]
          \/ /\ agg'.slots[s] = NoSlot /\ s \in OldestParked(agg)
             /\ ~(SessionCount(agg) < MaxSessions) /\ agg.slots[key.sid].st = "absent"
    BY <2>0, <2>1, AdmitForward DEF AdmitRequested, Apply
  <2>3. t = key.sid
    BY <2>2 DEF Occupied, NoSlot
  <2>4. \A s \in Evicted : s \in OldestParked(agg) /\ ~(SessionCount(agg) < MaxSessions)
    BY <2>2, <2>3 DEF Occupied
  <2>5. \A s \in Evicted :
          /\ SessionCount(agg) = MaxSessions
          /\ s \in Parked(agg)
          /\ \A u \in Parked(agg) : agg.index[s].since <= agg.index[u].since
    <3>1. SessionCount(agg) \in Nat /\ SessionCount(agg) <= MaxSessions
      BY <2>0, OccupiedFinite DEF AggInv, WithinCapacity
    <3>2. \A s \in OldestParked(agg) :
            s \in Parked(agg) /\ \A u \in Parked(agg) : agg.index[s].since <= agg.index[u].since
      BY <2>0, OldestIsOne
    <3> QED BY <2>4, <3>1, <3>2, MaxSessionsAssumption
  <2>6. Cardinality(Evicted) <= 1
    <3>1. CASE Evicted = {}
      BY <3>1, FS_EmptySet
    <3>2. CASE Evicted # {}
      <4>1. PICK s : s \in Evicted
        BY <3>2
      <4>2. Evicted = {s}
        BY <2>0, <2>4, <4>1, OldestIsOne
      <4> QED BY <4>2, FS_Singleton
    <3> QED BY <3>1, <3>2
  <2> QED BY <2>5, <2>6
<1>2. Spec => [][Fair]_vars
  BY <1>1, Inductive, PTL DEF Spec
<1> QED BY <1>2 DEF EvictionTakesTheOldest
=============================================================================
