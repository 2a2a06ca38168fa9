--------------------------- MODULE ServeAggregate ---------------------------
(***************************************************************************)
(* What the serve aggregate promises whatever order its events arrive in.  *)
(* Every event of engine/serve_fsm.rs is an action.  Requests come from    *)
(* clients; facts carry a LeaseId and may be late or repeated, so a fact   *)
(* may name any lease that was ever minted.  AttachRuntime's shell sends   *)
(* only some of these sequences (it implements this specification).        *)
(***************************************************************************)
EXTENDS ServeFsm

CONSTANTS
  Graces,     \* the resume-graces the server can negotiate
  MaxLeases,  \* bound: how many leases a behaviour mints
  MaxTime     \* bound: the last instant of the clock

ASSUME GracesAssumption == Graces \subseteq Nat
ASSUME BoundsAssumption == MaxLeases \in Nat /\ MaxTime \in Nat

VARIABLES
  agg,   \* the aggregate
  now    \* the shell's clock (Millis), stamped under the lock

vars == <<agg, now>>

Leases == 0 .. (agg.nextLease - 1)

Apply(result) == agg' = result.agg /\ UNCHANGED now
MayMint == agg.nextLease < MaxLeases

AdmitRequested(key) == MayMint /\ Apply(OnAdmitRequested(agg, key))
CancelReceived(key) == Apply(OnCancelReceived(agg, key))
Activated(key, token, grace) == Apply(OnActivated(agg, key, token, grace))
ResumeRequested(s) == Apply(OnResumeRequested(agg, s))

TargetConnected(l) == Apply(OnTargetConnected(agg, l))
TargetConnectFailed(l) == Apply(OnTargetConnectFailed(agg, l))
LeaseStopped(l) == MayMint /\ Apply(OnLeaseStopped(agg, l))
PendingExpired(l) == Apply(OnPendingExpired(agg, l))
RelayEnded(l) == Apply(OnRelayEnded(agg, l))

ParkedFact(s, l) == Apply(OnParked(agg, s, l, now))
RelayTerminated(s, l) == Apply(OnRelayTerminated(agg, s, l))
ResumeUnavailable(s, l) == Apply(OnResumeUnavailable(agg, s, l))
Sweep == Apply(OnSweep(agg, now))

Tick == now < MaxTime /\ now' = now + 1 /\ UNCHANGED agg

Init == agg = NewAggregate /\ now = 0

Requests ==
  \/ \E key \in Keys : AdmitRequested(key) \/ CancelReceived(key)
  \/ \E key \in Keys, token \in Leases, grace \in Graces : Activated(key, token, grace)
  \/ \E s \in Sessions : ResumeRequested(s)

Facts ==
  \/ \E l \in Leases :
       \/ TargetConnected(l) \/ TargetConnectFailed(l) \/ LeaseStopped(l)
       \/ PendingExpired(l) \/ RelayEnded(l)
  \/ \E s \in Sessions, l \in Leases :
       ParkedFact(s, l) \/ RelayTerminated(s, l) \/ ResumeUnavailable(s, l)

Next == Requests \/ Facts \/ Sweep \/ Tick

Spec == Init /\ [][Next]_vars
FairSpec == Spec /\ WF_vars(Tick) /\ WF_vars(Sweep)

(***************************************************************************)
(* Properties.                                                             *)
(***************************************************************************)
\* The aggregate and the clock have their types.
TypeOK == agg \in Aggregates /\ now \in Nat

\* Invariant I-c of serve_fsm.rs: a session is in the resume index exactly
\* when its fencing slot is Established, and both name the same lease, so
\* no removal path can leave one without the other.
IndexMatchesSlots == IndexMatches(agg)

\* attach_arbiter.rs: leases are globally unique.  Two sessions never hold the
\* same lease, and every lease held has been minted.
LeasesUnique == LeasesDistinct(agg)

\* Invariant I-k: the sessions that hold a slot, in whatever state, never
\* exceed --max-sessions, however admissions, supersedes and evictions
\* interleave.
CapacityRespected == WithinCapacity(agg)

\* Invariant I-g: an incarnation whose replay has a hole (unresumable) is
\* never parked, so no RESUME can be granted on it.
UnresumableNeverParked == HolesNotParked(agg)

\* attach_runtime.rs, AttachRuntime::new: registering unresumable because the
\* table is full is "no longer reachable once admission is atomic".  A
\* session that enters the index is resumable.
NeverRegisteredOverCapacity ==
  [][\A s \in Sessions :
       ~agg.index[s].present /\ agg'.index[s].present
         => ~agg'.index[s].unresumable]_vars

\* Fencing: while a session holds a slot, the generation it serves never goes
\* back and a lease never returns to an earlier stage of its life.  Established
\* is the last one: no HELLO or CANCEL of whatever generation supersedes it.
Stage == [connecting |-> 1, pending |-> 2, closing |-> 3, established |-> 4]
FencingMovesForward ==
  [][\A s \in Occupied(agg) \cap Occupied(agg') :
       /\ agg.slots[s].gen <= agg'.slots[s].gen
       /\ agg.slots[s].lease <= agg'.slots[s].lease
       /\ agg.slots[s].lease = agg'.slots[s].lease
            => Stage[agg.slots[s].st] <= Stage[agg'.slots[s].st]]_vars

\* A session is evicted for a new one only when every slot is taken, and then
\* it is one session, the one parked longest.
EvictionTakesTheOldest ==
  [][\A t \in Occupied(agg') \ Occupied(agg) :
       LET evicted == Occupied(agg) \ Occupied(agg') IN
       /\ Cardinality(evicted) <= 1
       /\ \A s \in evicted :
            /\ SessionCount(agg) = MaxSessions
            /\ s \in Parked(agg)
            /\ \A u \in Parked(agg) : agg.index[s].since <= agg.index[u].since]_vars

\* The sweep is a backstop that frees every abandoned park: a session parked at
\* instant t is resumed, parked anew or discarded in the end, so its slot does
\* not leak (t leaves the bounded clock room for the window to pass).
ParkedAt(s, t) == s \in Parked(agg) /\ agg.index[s].since = t
ParkedSessionsLeave ==
  \A s \in Sessions, t \in 0 .. (MaxTime - MaxParked) : ParkedAt(s, t) ~> ~ParkedAt(s, t)
=============================================================================
