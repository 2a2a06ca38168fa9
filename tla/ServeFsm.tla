------------------------------ MODULE ServeFsm ------------------------------
(***************************************************************************)
(* The pure reducers of `isekai-pipe serve`: the attach fencing of         *)
(* engine/attach_arbiter.rs (AttachArbiter) and the aggregate that joins   *)
(* it to the index of resumable sessions, engine/serve_fsm.rs              *)
(* (ServeAggregate).  The code's `apply(&mut self, Event) -> Vec<Effect>`  *)
(* becomes one operator per event that takes the aggregate and returns a   *)
(* record: the new aggregate, the effects the shell interprets under the   *)
(* lock (`io`, a set: at most one effect per session, so order is          *)
(* immaterial) and the AttachEffects it executes after unlocking, in       *)
(* order (`out`).                                                          *)
(***************************************************************************)
EXTENDS Integers, Sequences, FiniteSets

CONSTANTS
  Sessions,      \* session ids; numbers because the index orders them
  Generations,   \* the generations a client may put in an ATTACH_HELLO
  Attempts,      \* attempt ids
  None,          \* the attempt id of an empty slot
  MaxSessions,   \* --max-sessions
  MaxParked      \* --resume-window, the global limit on a park

ASSUME SessionsAssumption == Sessions \subseteq Nat /\ IsFiniteSet(Sessions)
ASSUME GenerationsAssumption == Generations \subseteq Nat
ASSUME AttemptsAssumption == None \notin Attempts
ASSUME MaxSessionsAssumption == MaxSessions \in Nat \ {0}
ASSUME MaxParkedAssumption == MaxParked \in Nat

(***************************************************************************)
(* State.                                                                  *)
(***************************************************************************)
Keys == [sid : Sessions, gen : Generations, att : Attempts]

\* AttachState; "absent" is a session_id with no entry in the map.  In
\* "closing" (ClosingForSupersede) gen and att are those of `next` and lease
\* is `old_lease`.  A PendingActivation's token is the one minted when its
\* lease connected, so the lease identifies it.
SlotStates == {"absent", "connecting", "pending", "established", "closing"}
Slots == [st : SlotStates, gen : Nat, att : Attempts \cup {None}, lease : Nat]
NoSlot == [st |-> "absent", gen |-> 0, att |-> None, lease |-> 0]
Slot(st, key, lease) ==
  [st |-> st, gen |-> key.gen, att |-> key.att, lease |-> lease]
KeyAt(s, slot) == [sid |-> s, gen |-> slot.gen, att |-> slot.att]

\* IndexEntry; parked_since is `since` when parked.
Entries == [present : BOOLEAN, lease : Nat, parked : BOOLEAN, since : Nat,
            grace : Nat, unresumable : BOOLEAN]
NoEntry == [present |-> FALSE, lease |-> 0, parked |-> FALSE, since |-> 0,
            grace |-> 0, unresumable |-> FALSE]

Aggregates == [slots : [Sessions -> Slots], nextLease : Nat,
               index : [Sessions -> Entries]]
NewAggregate == [slots |-> [s \in Sessions |-> NoSlot], nextLease |-> 0,
                 index |-> [s \in Sessions |-> NoEntry]]

\* The three ways an event rewrites the aggregate.
SetSlot(agg, s, slot) == [agg EXCEPT !.slots[s] = slot]
SetEntry(agg, s, entry) == [agg EXCEPT !.index[s] = entry]
\* Faulty variant: the lease counter is not advanced.
MintIntoReusing(agg, s, key) == SetSlot(agg, s, Slot("connecting", key, agg.nextLease))

MintInto(agg, s, key) ==
  [agg EXCEPT !.slots[s] = Slot("connecting", key, agg.nextLease),
              !.nextLease = agg.nextLease + 1]

(***************************************************************************)
(* Effects.                                                                *)
(***************************************************************************)
ConnectTarget(l)   == [op |-> "connect", lease |-> l]
CancelLease(l)     == [op |-> "cancel", lease |-> l]
SchedulePendingTimeout(l) == [op |-> "arm", lease |-> l]
StartRelay(l)      == [op |-> "relay", lease |-> l]
SendReady(key, token)   == [op |-> "ready", key |-> key, token |-> token]
SendReject(key, reason) == [op |-> "reject", key |-> key, reason |-> reason]

RegisterIo(s, l)   == [op |-> "register", sid |-> s, lease |-> l]
Discard(s, l)      == [op |-> "discard", sid |-> s, lease |-> l]
StoreParked(s, l)  == [op |-> "store", sid |-> s, lease |-> l]
ResumeGranted(s, l)  == [op |-> "granted", sid |-> s, lease |-> l]
RequestPreempt(s, l) == [op |-> "preempt", sid |-> s, lease |-> l]
ResumeRejected(s)    == [op |-> "rejected", sid |-> s, lease |-> 0]

Result(agg, io, out) == [agg |-> agg, io |-> io, out |-> out]
Ignored(agg) == Result(agg, {}, <<>>)

(***************************************************************************)
(* AttachArbiter.                                                          *)
(***************************************************************************)
Occupied(agg) == {s \in Sessions : agg.slots[s].st # "absent"}
HasSession(agg, s) == agg.slots[s].st # "absent"
SessionCount(agg) == Cardinality(Occupied(agg))

\* session_for_lease followed by the handler's own match on the slot's state.
\* The scan finds at most one session because a lease is never in two slots.
SlotsWith(agg, l, st) ==
  {s \in Sessions : agg.slots[s].st = st /\ agg.slots[s].lease = l}
SessionForLease(agg, l, st) == CHOOSE s \in SlotsWith(agg, l, st) : TRUE

\* HelloReceived against an attempt that is Connecting or PendingActivation.
DecideAgainstInFlight(agg, key, slot) ==
  LET cur == KeyAt(key.sid, slot) IN
  CASE key.gen < cur.gen ->
         Result(agg, {}, <<SendReject(key, "StaleGeneration")>>)
    [] key.gen = cur.gen /\ key.att # cur.att ->
         Result(agg, {}, <<SendReject(key, "AlreadyAttached")>>)
    [] key = cur /\ slot.st = "pending" ->
         Result(agg, {}, <<SendReady(key, slot.lease)>>)
    [] key = cur /\ slot.st # "pending" -> Ignored(agg)
    [] key.gen > cur.gen ->
         Result(SetSlot(agg, key.sid, Slot("closing", key, slot.lease)), {},
                <<SendReject(cur, "StaleGeneration"), CancelLease(slot.lease)>>)

\* Faulty variant: any other key replaces the one that waits.
DecideAgainstClosingLastWins(agg, key, slot) ==
  LET next == KeyAt(key.sid, slot) IN
  IF key = next THEN Ignored(agg)
  ELSE Result(SetSlot(agg, key.sid, Slot("closing", key, slot.lease)), {},
              <<SendReject(next, "StaleGeneration")>>)

\* HelloReceived while the previous lease of the session is torn down.
DecideAgainstClosing(agg, key, slot) ==
  LET next == KeyAt(key.sid, slot) IN
  CASE key = next -> Ignored(agg)
    [] key.gen > next.gen ->
         Result(SetSlot(agg, key.sid, Slot("closing", key, slot.lease)), {},
                <<SendReject(next, "StaleGeneration")>>)
    [] key.gen < next.gen ->
         Result(agg, {}, <<SendReject(key, "StaleGeneration")>>)
    [] key.gen = next.gen /\ key # next ->
         Result(agg, {}, <<SendReject(key, "AlreadyAttached")>>)

OnHelloReceived(agg, key) ==
  LET slot == agg.slots[key.sid] IN
  CASE slot.st = "absent" ->
         Result(MintInto(agg, key.sid, key), {}, <<ConnectTarget(agg.nextLease)>>)
    [] slot.st \in {"connecting", "pending"} ->
         DecideAgainstInFlight(agg, key, slot)
    [] slot.st = "established" ->
         Result(agg, {}, <<SendReject(key, "AttachAlreadyEstablished")>>)
    [] slot.st = "closing" -> DecideAgainstClosing(agg, key, slot)

OnTargetConnected(agg, l) ==
  IF SlotsWith(agg, l, "connecting") = {} THEN Ignored(agg)
  ELSE LET s    == SessionForLease(agg, l, "connecting")
           key  == KeyAt(s, agg.slots[s])
       IN Result(SetSlot(agg, s, Slot("pending", key, l)), {},
                 <<SendReady(key, l), SchedulePendingTimeout(l)>>)

OnTargetConnectFailed(agg, l) ==
  IF SlotsWith(agg, l, "connecting") = {} THEN Ignored(agg)
  ELSE LET s == SessionForLease(agg, l, "connecting")
       IN Result(SetSlot(agg, s, NoSlot), {},
                 <<SendReject(KeyAt(s, agg.slots[s]), "Target")>>)

OnCancelReceived(agg, key) ==
  LET slot == agg.slots[key.sid] IN
  IF slot.st \in {"connecting", "pending"} /\ KeyAt(key.sid, slot) = key
  THEN Result(SetSlot(agg, key.sid, NoSlot), {},
              <<SendReject(key, "AlreadyAttached"), CancelLease(slot.lease)>>)
  ELSE Ignored(agg)

OnLeaseStopped(agg, l) ==
  IF SlotsWith(agg, l, "closing") = {} THEN Ignored(agg)
  ELSE LET s == SessionForLease(agg, l, "closing")
       IN Result(MintInto(agg, s, KeyAt(s, agg.slots[s])), {},
                 <<ConnectTarget(agg.nextLease)>>)

OnPendingExpired(agg, l) ==
  IF SlotsWith(agg, l, "pending") = {} THEN Ignored(agg)
  ELSE Result(SetSlot(agg, SessionForLease(agg, l, "pending"), NoSlot), {},
              <<CancelLease(l)>>)

(***************************************************************************)
(* ServeAggregate: the index of established sessions.                      *)
(***************************************************************************)
Indexed(agg) == {s \in Sessions : agg.index[s].present}
Parked(agg)  == {s \in Sessions : agg.index[s].present /\ agg.index[s].parked}
IsEstablished(agg, s, l) ==
  agg.slots[s].st = "established" /\ agg.slots[s].lease = l

\* Faulty variant: the slot is not freed with the entry.
DiscardAllIndexOnly(agg, S) ==
  [agg EXCEPT !.index = [s \in Sessions |-> IF s \in S THEN NoEntry ELSE @[s]]]

\* The index entries of S leave together with the Established slots that
\* carry their leases (`discard`, the only path of removal).
DiscardAll(agg, S) ==
  [agg EXCEPT
     !.index = [s \in Sessions |-> IF s \in S THEN NoEntry ELSE @[s]],
     !.slots = [s \in Sessions |->
                  IF s \in S /\ IsEstablished(agg, s, agg.index[s].lease)
                  THEN NoSlot ELSE @[s]]]
Discards(agg, S) == {Discard(s, agg.index[s].lease) : s \in S}
DiscardResult(agg, S) == Result(DiscardAll(agg, S), Discards(agg, S), <<>>)

\* Faulty variant: the order of the park times is reversed.
OldestParkedNewest(agg) ==
  {s \in Parked(agg) :
     \A t \in Parked(agg) :
       \/ agg.index[s].since > agg.index[t].since
       \/ agg.index[s].since = agg.index[t].since /\ s <= t}

\* oldest_parked: the least (parked_since, id), or nothing.
OldestParked(agg) ==
  {s \in Parked(agg) :
     \A t \in Parked(agg) :
       \/ agg.index[s].since < agg.index[t].since
       \/ agg.index[s].since = agg.index[t].since /\ s <= t}

\* Faulty variants: one session too many is admitted; capacity is not checked
\* in the same apply at all.
OnAdmitRequestedOffByOne(agg, key) ==
  LET victims == OldestParked(agg)
      hello   == OnHelloReceived(DiscardAll(agg, victims), key)
  IN IF HasSession(agg, key.sid) \/ SessionCount(agg) <= MaxSessions
     THEN OnHelloReceived(agg, key)
     ELSE IF victims = {}
     THEN Result(agg, {}, <<SendReject(key, "BusyOtherSession")>>)
     ELSE Result(hello.agg, Discards(agg, victims), hello.out)
OnAdmitRequestedUnchecked(agg, key) == OnHelloReceived(agg, key)

\* Capacity, eviction and the claim of the slot happen in one apply.
OnAdmitRequested(agg, key) ==
  LET victims == OldestParked(agg)
      hello   == OnHelloReceived(DiscardAll(agg, victims), key)
  IN IF HasSession(agg, key.sid) \/ SessionCount(agg) < MaxSessions
     THEN OnHelloReceived(agg, key)
     ELSE IF victims = {}
     THEN Result(agg, {}, <<SendReject(key, "BusyOtherSession")>>)
     ELSE Result(hello.agg, Discards(agg, victims), hello.out)

Live(agg) == {s \in Indexed(agg) : ~agg.index[s].unresumable}

\* The activation itself (`on_activated` of the arbiter), then the entry in
\* the index: over capacity it evicts the oldest park or is unresumable.
OnActivated(agg, key, token, grace) ==
  LET s       == key.sid
      slot    == agg.slots[s]
      l       == slot.lease
      full    == Cardinality(Live(agg)) >= MaxSessions /\ ~agg.index[s].present
      victims == IF full THEN OldestParked(agg) ELSE {}
      entry   == [present |-> TRUE, lease |-> l, parked |-> FALSE, since |-> 0,
                  grace |-> grace, unresumable |-> full /\ victims = {}]
      established == SetSlot(agg, s, Slot("established", key, l))
  IN IF slot.st = "pending" /\ KeyAt(s, slot) = key /\ token = l
     THEN Result(SetEntry(DiscardAll(established, victims), s, entry),
                 Discards(agg, victims) \cup {RegisterIo(s, l)},
                 <<StartRelay(l)>>)
     ELSE Ignored(agg)

\* Faulty variant: a fact about any incarnation of the session is believed.
IsCurrentAnyLease(agg, s, l) == agg.index[s].present

\* Facts about an incarnation are ignored unless the entry has their lease.
IsCurrent(agg, s, l) == agg.index[s].present /\ agg.index[s].lease = l

OnRelayTerminated(agg, s, l) ==
  IF IsCurrent(agg, s, l) THEN DiscardResult(agg, {s}) ELSE Ignored(agg)

\* A lease no index entry has can still be that of an Established slot.
OnRelayEnded(agg, l) ==
  LET owners == {s \in Sessions : IsCurrent(agg, s, l)} IN
  IF owners # {} THEN DiscardResult(agg, owners)
  ELSE Result([agg EXCEPT !.slots =
                 [s \in Sessions |->
                    IF IsEstablished(agg, s, l) THEN NoSlot ELSE @[s]]],
              {}, <<>>)

OnParked(agg, s, l, now) ==
  CASE ~IsCurrent(agg, s, l) -> Ignored(agg)
    [] IsCurrent(agg, s, l) /\ agg.index[s].unresumable ->
         DiscardResult(agg, {s})
    [] IsCurrent(agg, s, l) /\ ~agg.index[s].unresumable ->
         Result(SetEntry(agg, s, [agg.index[s] EXCEPT !.parked = TRUE, !.since = now]),
                {StoreParked(s, l)}, <<>>)

\* Faulty variant: a fact that is late marks a parked session too.
OnResumeUnavailableLate(agg, s, l) ==
  IF IsCurrent(agg, s, l)
  THEN Result(SetEntry(agg, s, [agg.index[s] EXCEPT !.unresumable = TRUE]), {}, <<>>)
  ELSE Ignored(agg)

OnResumeUnavailable(agg, s, l) ==
  IF IsCurrent(agg, s, l) /\ ~agg.index[s].parked
  THEN Result(SetEntry(agg, s, [agg.index[s] EXCEPT !.unresumable = TRUE]), {}, <<>>)
  ELSE Ignored(agg)

\* Faulty variant: the global window does not limit what was negotiated.
EffectiveDeadlineUncapped(entry) == entry.grace

\* The shorter of the global window and what the ACK promised; a park is
\* overdue once that much time has passed (saturating subtraction).
EffectiveDeadline(entry) ==
  IF entry.grace < MaxParked THEN entry.grace ELSE MaxParked
Elapsed(now, since) == IF now >= since THEN now - since ELSE 0

Overdue(agg, now) ==
  {s \in Parked(agg) :
     Elapsed(now, agg.index[s].since) >= EffectiveDeadline(agg.index[s])}

OnSweep(agg, now) == DiscardResult(agg, Overdue(agg, now))

OnResumeRequested(agg, s) ==
  LET entry == agg.index[s]
      resumable == /\ entry.present
                   /\ ~entry.unresumable
                   /\ IsEstablished(agg, s, entry.lease)
  IN CASE ~resumable -> Result(agg, {ResumeRejected(s)}, <<>>)
       [] resumable /\ entry.parked ->
            Result(SetEntry(agg, s, [entry EXCEPT !.parked = FALSE, !.since = 0]),
                   {ResumeGranted(s, entry.lease)}, <<>>)
       [] resumable /\ ~entry.parked ->
            Result(agg, {RequestPreempt(s, entry.lease)}, <<>>)

(***************************************************************************)
(* The invariants serve_fsm.rs documents, as predicates of an aggregate.   *)
(***************************************************************************)
\* I-c: in the index exactly when Established, under the same lease.
IndexMatches(agg) ==
  \A s \in Sessions :
    /\ agg.index[s].present <=> agg.slots[s].st = "established"
    /\ agg.index[s].present => agg.index[s].lease = agg.slots[s].lease

\* Every lease held was minted, and no two sessions hold the same one.
LeasesDistinct(agg) ==
  \A s \in Occupied(agg) :
    /\ agg.slots[s].lease < agg.nextLease
    /\ \A t \in Occupied(agg) : agg.slots[s].lease = agg.slots[t].lease => s = t

\* I-k: no more slots than --max-sessions.
WithinCapacity(agg) == SessionCount(agg) <= MaxSessions

\* I-g: an entry whose replay has a hole is not parked; no entry, no park.
HolesNotParked(agg) ==
  \A s \in Sessions :
    agg.index[s].parked => agg.index[s].present /\ ~agg.index[s].unresumable
=============================================================================
