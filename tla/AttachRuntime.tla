---------------------------- MODULE AttachRuntime ----------------------------
(***************************************************************************)
(* The shell of `isekai-pipe serve` (engine/attach_runtime.rs and the      *)
(* connection handlers of engine/mod.rs) around the pure reducers of       *)
(* ServeFsm.  Connection tasks, target-connect tasks, pending-activation   *)
(* timers and the spawned Drop fallbacks of the two guards run             *)
(* concurrently; each step of a task is one critical section of one lock   *)
(* (`core`, `leases` or `waiters`), because the code holds no two of them  *)
(* together and awaits in between.                                         *)
(*                                                                         *)
(* todo[t] is what task t has still to do, first item first: the effects   *)
(* its last apply returned and the rest of the function that called it.    *)
(* A task that has ended, or was not spawned, has nothing to do.           *)
(***************************************************************************)
EXTENDS ServeFsm

CONSTANTS
  Attachers,   \* connections that send ATTACH_HELLO
  Cancellers,  \* connections that send CANCEL_ATTACH
  Resumers,    \* connections that send RESUME
  Workloads,   \* bound: the requests peers may send, one per peer, in one behaviour
  Graces,      \* the resume-graces the server can negotiate
  MaxTime      \* bound: the last instant of the clock

Conns == Attachers \cup Cancellers \cup Resumers

\* Bound: each attacher causes at most one lease, at its admission or when the
\* lease it supersedes has stopped, so this bound never blocks a task.
MaxLeases == Cardinality(Attachers)
LeaseIds == 0 .. (MaxLeases - 1)

Connect(l) == <<"connect", l>>
Timer(l) == <<"timer", l>>
LeaseDrop(c) == <<"leaseDrop", c>>
EntryDrop(c) == <<"entryDrop", c>>
Spawned == {Connect(l) : l \in LeaseIds} \cup {Timer(l) : l \in LeaseIds}
           \cup {LeaseDrop(c) : c \in Conns} \cup {EntryDrop(c) : c \in Conns}
Tasks == Conns \cup Spawned

\* A task that was spawned is not a connection; the clock counts from 0.
ASSUME TasksAssumption == IsFiniteSet(Attachers) /\ Conns \cap Spawned = {}
ASSUME ClockAssumption == Graces \subseteq Nat /\ MaxTime \in Nat

VARIABLES
  agg,      \* the aggregate           } both under the lock `core`
  io,       \* SessionIo per session   }
  leases,   \* LeaseResource per lease, under the lock `leases`
  waiters,  \* <<connection, key>> of each hello() caller, under `waiters`
  outcome,  \* what each connection's oneshot has received
  todo,     \* what each task has still to do
  aborted,  \* tasks whose JoinHandle was aborted
  preempted,\* relaying connections whose `preempt` was notified
  fresh,    \* <<connection, request>>: what connections not yet accepted may ask
  now       \* the clock

shell == <<io, leases, waiters, outcome, todo, aborted, preempted, fresh>>
vars == <<agg, io, leases, waiters, outcome, todo, aborted, preempted, fresh, now>>

NoIo == [present |-> FALSE, lease |-> 0, socket |-> FALSE]
Pending == [got |-> "none", token |-> 0]

Init ==
  /\ agg = NewAggregate
  /\ io = [s \in Sessions |-> NoIo]
  /\ leases = [l \in LeaseIds |-> "none"]
  /\ waiters = {}
  /\ outcome = [c \in Conns |-> Pending]
  /\ todo = [t \in Tasks |-> <<>>]
  /\ aborted = {}
  /\ preempted = {}
  /\ fresh \in Workloads
  /\ now = 0

(***************************************************************************)
(* Task plumbing.                                                          *)
(***************************************************************************)
At(t, op) == todo[t] # <<>> /\ Head(todo[t]).op = op
Item(t) == Head(todo[t])

\* Replace the item a task has just done by what it must do now.
Then(t, items) == [todo EXCEPT ![t] = items \o Tail(@)]
Ends(t) == [todo EXCEPT ![t] = <<>>]
Starts(t, items) == [todo EXCEPT ![t] = items]

Do(op, l) == [op |-> op, lease |-> l]
DoFor(op, s, l) == [op |-> op, sid |-> s, lease |-> l]

(***************************************************************************)
(* apply_with: apply the event, then interpret the in-lock effects on the  *)
(* socket map (interpret_in_lock).  A Discard touches only the incarnation *)
(* with its lease; storing or taking a socket needs the same.              *)
(***************************************************************************)
Mine(slot, fx) == slot.present /\ slot.lease = fx.lease

\* Faulty variants: a Discard leaves the socket map alone; a grant leaves the
\* socket in it.
InterpretedWithoutDiscard(slot, fx) ==
  CASE fx.op = "register" -> [present |-> TRUE, lease |-> fx.lease, socket |-> FALSE]
    [] fx.op = "store" /\ Mine(slot, fx) -> [slot EXCEPT !.socket = TRUE]
    [] fx.op = "granted" /\ Mine(slot, fx) -> [slot EXCEPT !.socket = FALSE]
    [] OTHER -> slot
InterpretedKeepingSocket(slot, fx) ==
  CASE fx.op = "register" -> [present |-> TRUE, lease |-> fx.lease, socket |-> FALSE]
    [] fx.op = "discard" /\ Mine(slot, fx) -> NoIo
    [] fx.op = "store" /\ Mine(slot, fx) -> [slot EXCEPT !.socket = TRUE]
    [] OTHER -> slot

Interpreted(slot, fx) ==
  CASE fx.op = "register" -> [present |-> TRUE, lease |-> fx.lease, socket |-> FALSE]
    [] fx.op = "discard" /\ Mine(slot, fx) -> NoIo
    [] fx.op = "store" /\ Mine(slot, fx) -> [slot EXCEPT !.socket = TRUE]
    [] fx.op = "granted" /\ Mine(slot, fx) -> [slot EXCEPT !.socket = FALSE]
    [] OTHER -> slot

ApplyWith(result) ==
  /\ agg' = result.agg
  /\ io' = [s \in Sessions |->
              IF \E fx \in result.io : fx.sid = s
              THEN Interpreted(io[s], CHOOSE fx \in result.io : fx.sid = s)
              ELSE io[s]]

\* Did the interpreter find what the effect needs in the socket map?
Stored(s, result) == \E fx \in result.io : fx.op = "store" /\ Mine(io[s], fx)
Orphaned(s, result) ==
  \/ \E fx \in result.io : fx.op = "store" /\ ~Mine(io[s], fx)
  \/ \E fx \in result.io : fx.op = "granted" /\ ~(Mine(io[s], fx) /\ io[s].socket)
Granted(s, result) ==
  \E fx \in result.io : fx.op = "granted" /\ Mine(io[s], fx) /\ io[s].socket
Preempting(s, result) == \E fx \in result.io : fx.op = "preempt" /\ Mine(io[s], fx)

(***************************************************************************)
(* Effects any task may execute (execute_effects).                         *)
(***************************************************************************)
\* resolve_waiter
Resolve(key, o) ==
  /\ outcome' = [c \in Conns |-> IF <<c, key>> \in waiters THEN o ELSE outcome[c]]
  /\ waiters' = {w \in waiters : w[2] # key}

SendsReady(t) ==
  /\ At(t, "ready")
  /\ Resolve(Item(t).key, [got |-> "ready", token |-> Item(t).token])
  /\ todo' = Then(t, <<>>)
  /\ UNCHANGED <<agg, io, leases, aborted, preempted, fresh, now>>

SendsReject(t) ==
  /\ At(t, "reject")
  /\ Resolve(Item(t).key, [got |-> Item(t).reason, token |-> 0])
  /\ todo' = Then(t, <<>>)
  /\ UNCHANGED <<agg, io, leases, aborted, preempted, fresh, now>>

\* start_connect: the entry is recorded and the task spawned under one lock.
StartsConnect(t) ==
  LET l == Item(t).lease IN
  /\ At(t, "connect")
  /\ leases' = [leases EXCEPT ![l] = "connecting"]
  /\ todo' = [Then(t, <<>>) EXCEPT ![Connect(l)] = <<Do("dial", l)>>]
  /\ UNCHANGED <<agg, io, waiters, outcome, aborted, preempted, fresh, now>>

\* Faulty variant: the aborted connect task is not joined.
CancelsLeaseWithoutJoin(t) ==
  LET l == Item(t).lease IN
  /\ At(t, "cancel")
  /\ leases' = [leases EXCEPT ![l] = "none"]
  /\ aborted' = IF leases[l] = "connecting" THEN aborted \cup {Connect(l)} ELSE aborted
  /\ todo' = Then(t, IF leases[l] = "none" THEN <<>> ELSE <<Do("stopped", l)>>)
  /\ UNCHANGED <<agg, io, waiters, outcome, preempted, fresh, now>>

\* cancel_lease takes the resource out of the map; what it found decides how
\* the lease is stopped.
CancelsLease(t) ==
  LET l == Item(t).lease IN
  /\ At(t, "cancel")
  /\ leases' = [leases EXCEPT ![l] = "none"]
  /\ CASE leases[l] = "none" ->
            todo' = Then(t, <<>>) /\ UNCHANGED aborted
       [] leases[l] = "connecting" ->
            /\ aborted' = aborted \cup {Connect(l)}
            /\ todo' = Then(t, <<Do("join", l), Do("stopped", l)>>)
       [] leases[l] \in {"target", "timed"} ->
            /\ aborted' = IF leases[l] = "timed" THEN aborted \cup {Timer(l)} ELSE aborted
            /\ todo' = Then(t, <<Do("stopped", l)>>)
  /\ UNCHANGED <<agg, io, waiters, outcome, preempted, fresh, now>>

\* `task.await` in cancel_lease returns when the connect task is over.
Joins(t) ==
  /\ At(t, "join")
  /\ todo[Connect(Item(t).lease)] = <<>>
  /\ todo' = Then(t, <<>>)
  /\ UNCHANGED <<agg, io, leases, waiters, outcome, aborted, preempted, fresh, now>>

ReportsStopped(t) ==
  LET result == OnLeaseStopped(agg, Item(t).lease) IN
  /\ At(t, "stopped")
  /\ ApplyWith(result)
  /\ todo' = Then(t, result.out)
  /\ UNCHANGED <<leases, waiters, outcome, aborted, preempted, fresh, now>>

\* Faulty variant: the timer is recorded but never runs.
ArmsTimerNever(t) ==
  LET l == Item(t).lease IN
  /\ At(t, "arm")
  /\ leases' = [leases EXCEPT ![l] = IF @ = "target" THEN "timed" ELSE @]
  /\ todo' = Then(t, <<>>)
  /\ UNCHANGED <<agg, io, waiters, outcome, aborted, preempted, fresh, now>>

\* arm_pending_timeout: the timer is kept only while the target is pending.
ArmsTimer(t) ==
  LET l == Item(t).lease
      pending == leases[l] \in {"target", "timed"}
  IN
  /\ At(t, "arm")
  /\ leases' = [leases EXCEPT ![l] = IF pending THEN "timed" ELSE @]
  /\ todo' = IF pending THEN [Then(t, <<>>) EXCEPT ![Timer(l)] = <<Do("sleep", l)>>]
                        ELSE Then(t, <<>>)
  /\ UNCHANGED <<agg, io, waiters, outcome, aborted, preempted, fresh, now>>

\* relay_ended, from EstablishedLease::release, its Drop, or activate().
ReportsRelayEnded(t) ==
  LET result == OnRelayEnded(agg, Item(t).lease) IN
  /\ At(t, "ended")
  /\ ApplyWith(result)
  /\ todo' = Then(t, result.out)
  /\ UNCHANGED <<leases, waiters, outcome, aborted, preempted, fresh, now>>

\* relay_terminated, from finish_or_park_session or the table guard's Drop.
ReportsTerminated(t) ==
  LET result == OnRelayTerminated(agg, Item(t).sid, Item(t).lease) IN
  /\ At(t, "terminated")
  /\ ApplyWith(result)
  /\ todo' = Then(t, result.out)
  /\ UNCHANGED <<leases, waiters, outcome, aborted, preempted, fresh, now>>

\* An aborted task is dropped at some await, together with what it had to do.
Dies(t) ==
  /\ t \in aborted
  /\ todo[t] # <<>>
  /\ todo' = Ends(t)
  /\ UNCHANGED <<agg, io, leases, waiters, outcome, aborted, preempted, fresh, now>>

(***************************************************************************)
(* The target-connect task of a lease and the pending-activation timer.    *)
(***************************************************************************)
\* TcpStream::connect returns; an aborted task is dropped here instead.
Dials(l) ==
  /\ At(Connect(l), "dial")
  /\ Connect(l) \notin aborted
  /\ \/ todo' = Then(Connect(l), <<Do("store", l), Do("connected", l)>>)
     \/ todo' = Then(Connect(l), <<Do("failed", l)>>)
  /\ UNCHANGED <<agg, io, leases, waiters, outcome, aborted, preempted, fresh, now>>

\* Only a lease still Connecting advances; else the connection is dropped.
StoresTarget(l) ==
  /\ At(Connect(l), "store")
  /\ IF leases[l] = "connecting"
     THEN leases' = [leases EXCEPT ![l] = "target"] /\ todo' = Then(Connect(l), <<>>)
     ELSE UNCHANGED leases /\ todo' = Ends(Connect(l))
  /\ UNCHANGED <<agg, io, waiters, outcome, aborted, preempted, fresh, now>>

ReportsConnected(l) ==
  LET result == OnTargetConnected(agg, l) IN
  /\ At(Connect(l), "connected")
  /\ ApplyWith(result)
  /\ todo' = Then(Connect(l), result.out)
  /\ UNCHANGED <<leases, waiters, outcome, aborted, preempted, fresh, now>>

\* Faulty variant: the entry is forgotten although a cancel_lease owns it.
ReportsConnectFailedForgetting(l) ==
  LET result == OnTargetConnectFailed(agg, l) IN
  /\ At(Connect(l), "failed")
  /\ ApplyWith(result)
  /\ todo' = Then(Connect(l), <<Do("forget", l)>> \o result.out)
  /\ UNCHANGED <<leases, waiters, outcome, aborted, preempted, fresh, now>>

\* connect_failed: report first, and forget the entry only if that consumed
\* the lease; otherwise a cancel_lease owns the entry.
ReportsConnectFailed(l) ==
  LET result == OnTargetConnectFailed(agg, l) IN
  /\ At(Connect(l), "failed")
  /\ ApplyWith(result)
  /\ todo' = Then(Connect(l),
                  IF result.out = <<>> THEN <<>> ELSE <<Do("forget", l)>> \o result.out)
  /\ UNCHANGED <<leases, waiters, outcome, aborted, preempted, fresh, now>>

ForgetsConnecting(l) ==
  /\ At(Connect(l), "forget")
  /\ leases' = [leases EXCEPT ![l] = IF @ = "connecting" THEN "none" ELSE @]
  /\ todo' = Then(Connect(l), <<>>)
  /\ UNCHANGED <<agg, io, waiters, outcome, aborted, preempted, fresh, now>>

\* The sleep of 5 s ends.
TimerFires(l) ==
  /\ At(Timer(l), "sleep")
  /\ Timer(l) \notin aborted
  /\ todo' = Then(Timer(l), <<Do("expire", l)>>)
  /\ UNCHANGED <<agg, io, leases, waiters, outcome, aborted, preempted, fresh, now>>

ReportsExpired(l) ==
  LET result == OnPendingExpired(agg, l) IN
  /\ At(Timer(l), "expire")
  /\ ApplyWith(result)
  /\ todo' = Then(Timer(l), result.out)
  /\ UNCHANGED <<leases, waiters, outcome, aborted, preempted, fresh, now>>

(***************************************************************************)
(* A connection that sends ATTACH_HELLO (handle_attach_stream).            *)
(***************************************************************************)
\* Each connection carries one request.
Unasked(c) == {f \in fresh : f[1] # c}

\* hello(): push the waiter, then apply, execute and wait.
SendsHello(c, key) ==
  /\ c \in Attachers /\ <<c, key>> \in fresh
  /\ fresh' = Unasked(c)
  /\ waiters' = waiters \cup {<<c, key>>}
  /\ todo' = Starts(c, <<[op |-> "admit", key |-> key], [op |-> "await", key |-> key]>>)
  /\ UNCHANGED <<agg, io, leases, outcome, aborted, preempted, now>>

RequestsAdmission(c) ==
  LET result == OnAdmitRequested(agg, Item(c).key) IN
  /\ At(c, "admit")
  /\ ApplyWith(result)
  /\ todo' = Then(c, result.out)
  /\ UNCHANGED <<leases, waiters, outcome, aborted, preempted, fresh, now>>

\* wait_hello_outcome with an outcome: a reject ends the connection, and so
\* does a peer that never sends AttachActivate after its AttachReadyV2.
GetsOutcome(c) ==
  /\ At(c, "await")
  /\ outcome[c].got # "none"
  /\ \/ outcome[c].got = "ready"
        /\ todo' = Then(c, <<[op |-> "activate", key |-> Item(c).key]>>)
     \/ todo' = Ends(c)
  /\ UNCHANGED <<agg, io, leases, waiters, outcome, aborted, preempted, fresh, now>>

\* HELLO_OUTCOME_TIMEOUT expires: the dead sender is pruned.
GivesUpHello(c) ==
  /\ At(c, "await")
  /\ outcome[c].got = "none"
  /\ waiters' = {w \in waiters : w[1] # c}
  /\ todo' = Ends(c)
  /\ UNCHANGED <<agg, io, leases, outcome, aborted, preempted, fresh, now>>

\* AttachActivate arrives with the token of the AttachReadyV2.
Activates(c, grace) ==
  LET key    == Item(c).key
      result == OnActivated(agg, key, outcome[c].token, grace)
  IN
  /\ At(c, "activate")
  /\ ApplyWith(result)
  /\ todo' = IF result.out = <<>> THEN Ends(c)
             ELSE Then(c, <<DoFor("take", key.sid, outcome[c].token)>>)
  /\ UNCHANGED <<leases, waiters, outcome, aborted, preempted, fresh, now>>

\* StartRelay in activate(): the pending target becomes the connection's.
TakesTarget(c) ==
  LET l == Item(c).lease
      s == Item(c).sid
  IN
  /\ At(c, "take")
  /\ leases' = [leases EXCEPT ![l] = "none"]
  /\ aborted' = aborted \cup (CASE leases[l] = "timed" -> {Timer(l)}
                                [] leases[l] = "connecting" -> {Connect(l)}
                                [] leases[l] \in {"none", "target"} -> {})
  /\ todo' = Then(c, IF leases[l] \in {"target", "timed"} THEN <<DoFor("begin", s, l)>>
                                                          ELSE <<Do("ended", l)>>)
  /\ UNCHANGED <<agg, io, waiters, outcome, preempted, fresh, now>>

(***************************************************************************)
(* Relaying (relay_buffered, finish_or_park_session) and its guards.       *)
(***************************************************************************)
\* relay_buffered enables its `preempted` future before it does anything else.
BeginsRelay(c) ==
  /\ At(c, "begin")
  /\ todo' = Then(c, <<DoFor("relay", Item(c).sid, Item(c).lease)>>)
  /\ preempted' = preempted \ {c}
  /\ UNCHANGED <<agg, io, leases, waiters, outcome, aborted, fresh, now>>

\* TcpDied: release the lease, then report the incarnation terminated.
TargetDies(c) ==
  /\ At(c, "relay")
  /\ todo' = Then(c, <<Do("ended", Item(c).lease),
                       DoFor("terminated", Item(c).sid, Item(c).lease)>>)
  /\ UNCHANGED <<agg, io, leases, waiters, outcome, aborted, preempted, fresh, now>>

\* DataStreamDied, at any time, or Preempted, once notified: both park.
DataStreamDies(c) ==
  /\ At(c, "relay")
  /\ todo' = Then(c, <<DoFor("park", Item(c).sid, Item(c).lease)>>)
  /\ UNCHANGED <<agg, io, leases, waiters, outcome, aborted, preempted, fresh, now>>

YieldsToPreemption(c) ==
  /\ At(c, "relay")
  /\ c \in preempted
  /\ todo' = Then(c, <<DoFor("park", Item(c).sid, Item(c).lease)>>)
  /\ UNCHANGED <<agg, io, leases, waiters, outcome, aborted, preempted, fresh, now>>

\* The replay buffer is full and no control stream will ever trim it.
GivesUpReplay(c) ==
  LET result == OnResumeUnavailable(agg, Item(c).sid, Item(c).lease) IN
  /\ At(c, "relay")
  /\ ApplyWith(result)
  /\ UNCHANGED <<leases, waiters, outcome, todo, aborted, preempted, fresh, now>>

\* Faulty variant: no guard is held while relaying.
PanicsUnguarded(c) ==
  /\ At(c, "relay") \/ At(c, "replay")
  /\ todo' = Ends(c)
  /\ UNCHANGED <<agg, io, leases, waiters, outcome, aborted, preempted, fresh, now>>

\* The task panics while it owns the incarnation: the guards it holds (both
\* while relaying, only the table guard before that in a RESUME) each spawn a
\* task that reports it, at any later time.
Panics(c) ==
  LET l == Item(c).lease
      s == Item(c).sid
      both == [Ends(c) EXCEPT ![EntryDrop(c)] = <<DoFor("terminated", s, l)>>,
                              ![LeaseDrop(c)] = <<Do("ended", l)>>]
  IN
  /\ \/ At(c, "relay") /\ todo' = both
     \/ At(c, "replay")
        /\ todo' = [Ends(c) EXCEPT ![EntryDrop(c)] = <<DoFor("terminated", s, l)>>]
  /\ UNCHANGED <<agg, io, leases, waiters, outcome, aborted, preempted, fresh, now>>

\* Faulty variant: the clock is not read under the lock.
ParksWithOtherClock(c) ==
  LET result == OnParked(agg, Item(c).sid, Item(c).lease, now + 1) IN
  /\ At(c, "park")
  /\ ApplyWith(result)
  /\ todo' = Then(c, result.out)
  /\ UNCHANGED <<leases, waiters, outcome, aborted, preempted, fresh, now>>

\* park(): an orphan (accepted, but no SessionIo to hold it) is terminated.
Parks(c) ==
  LET l == Item(c).lease
      s == Item(c).sid
      result == OnParked(agg, s, l, now)
  IN
  /\ At(c, "park")
  /\ ApplyWith(result)
  /\ todo' = Then(c, result.out \o
               (IF Orphaned(s, result) THEN <<DoFor("terminated", s, l)>> ELSE <<>>))
  /\ UNCHANGED <<leases, waiters, outcome, aborted, preempted, fresh, now>>

(***************************************************************************)
(* A connection that sends RESUME (handle_resume_stream).                  *)
(***************************************************************************)
SendsResume(c, s) ==
  /\ c \in Resumers /\ <<c, s>> \in fresh
  /\ fresh' = Unasked(c)
  /\ todo' = Starts(c, <<[op |-> "resume", sid |-> s, again |-> FALSE]>>)
  /\ UNCHANGED <<agg, io, leases, waiters, outcome, aborted, preempted, now>>

\* resume_request, and the one retry after asking the relay to yield.
RequestsResume(c) ==
  LET s == Item(c).sid
      result == OnResumeRequested(agg, s)
      l == agg.index[s].lease
      retry == <<DoFor("notify", s, l), [op |-> "resume", sid |-> s, again |-> TRUE]>>
  IN
  /\ At(c, "resume")
  /\ ApplyWith(result)
  /\ todo' = Then(c, CASE Granted(s, result) -> <<DoFor("replay", s, l)>>
                       [] Orphaned(s, result) -> <<DoFor("terminated", s, l)>>
                       [] Preempting(s, result) /\ ~Item(c).again -> retry
                       [] OTHER -> <<>>)
  /\ UNCHANGED <<leases, waiters, outcome, aborted, preempted, fresh, now>>

\* notify_waiters reaches the relay of that incarnation if it is waiting.  The
\* bounded wait for `reparked` that follows ends by itself, so the retry may
\* come before or after the park.
NotifiesPreempt(c) ==
  LET relays == {d \in Conns : At(d, "relay") /\ Item(d).lease = Item(c).lease} IN
  /\ At(c, "notify")
  /\ preempted' = preempted \cup relays
  /\ todo' = Then(c, <<>>)
  /\ UNCHANGED <<agg, io, leases, waiters, outcome, aborted, fresh, now>>

\* Faulty variant: an early return forgets to park the socket again.
ReplaysWithoutParking(c) ==
  /\ At(c, "replay")
  /\ \/ todo' = Then(c, <<DoFor("begin", Item(c).sid, Item(c).lease)>>)
     \/ todo' = Ends(c)
  /\ UNCHANGED <<agg, io, leases, waiters, outcome, aborted, preempted, fresh, now>>

\* RESUME_ACK and the replay are written; or the offset is gone or the write
\* fails or times out, and the socket is parked again.
Replays(c) ==
  /\ At(c, "replay")
  /\ \E next \in {"begin", "park"} :
       todo' = Then(c, <<DoFor(next, Item(c).sid, Item(c).lease)>>)
  /\ UNCHANGED <<agg, io, leases, waiters, outcome, aborted, preempted, fresh, now>>

(***************************************************************************)
(* CANCEL_ATTACH, the periodic sweep, and time.                            *)
(***************************************************************************)
SendsCancel(c, key) ==
  /\ c \in Cancellers /\ <<c, key>> \in fresh
  /\ fresh' = Unasked(c)
  /\ todo' = Starts(c, <<[op |-> "cancelAttach", key |-> key]>>)
  /\ UNCHANGED <<agg, io, leases, waiters, outcome, aborted, preempted, now>>

Cancels(c) ==
  LET result == OnCancelReceived(agg, Item(c).key) IN
  /\ At(c, "cancelAttach")
  /\ ApplyWith(result)
  /\ todo' = Then(c, result.out)
  /\ UNCHANGED <<leases, waiters, outcome, aborted, preempted, fresh, now>>

SweepsParked ==
  /\ ApplyWith(OnSweep(agg, now))
  /\ UNCHANGED <<leases, waiters, outcome, todo, aborted, preempted, fresh, now>>

Tick ==
  /\ now < MaxTime
  /\ now' = now + 1
  /\ UNCHANGED <<agg, shell>>

(***************************************************************************)
(* The specification.                                                      *)
(***************************************************************************)
EffectStep(t) ==
  \/ SendsReady(t) \/ SendsReject(t) \/ StartsConnect(t) \/ CancelsLease(t) \/ Joins(t)
  \/ ReportsStopped(t) \/ ArmsTimer(t) \/ ReportsRelayEnded(t) \/ ReportsTerminated(t)
  \/ Dies(t)

LeaseStep(l) ==
  \/ Dials(l) \/ StoresTarget(l) \/ ReportsConnected(l) \/ ReportsConnectFailed(l)
  \/ ForgetsConnecting(l) \/ TimerFires(l) \/ ReportsExpired(l)

\* What a connection task does of itself once it may.
ConnStep(c) ==
  \/ RequestsAdmission(c) \/ GetsOutcome(c) \/ TakesTarget(c)
  \/ \E grace \in Graces : Activates(c, grace)
  \/ BeginsRelay(c) \/ YieldsToPreemption(c) \/ Parks(c)
  \/ RequestsResume(c) \/ NotifiesPreempt(c) \/ Replays(c) \/ Cancels(c)

\* What only a peer, the target, a bug or the clock brings about.
Environment ==
  \/ \E c \in Conns, key \in Keys : SendsHello(c, key) \/ SendsCancel(c, key)
  \/ \E c \in Conns, s \in Sessions : SendsResume(c, s)
  \/ \E c \in Conns : \/ TargetDies(c) \/ DataStreamDies(c) \/ GivesUpReplay(c)
                      \/ Panics(c) \/ GivesUpHello(c)
  \/ SweepsParked \/ Tick

\* What the runtime brings about: it polls every runnable task, and a target
\* connect and the pending timer are bounded by timeouts (20 s, 5 s).  One
\* condition for all tasks is enough and asks less of the scheduler than one for
\* each.  Nothing is assumed of peers, of the target, or of the 30 s backstop of
\* hello().
Progress ==
  \/ \E t \in Tasks : EffectStep(t)
  \/ \E l \in LeaseIds : LeaseStep(l)
  \/ \E c \in Conns : ConnStep(c)
Next == Progress \/ Environment

Spec == Init /\ [][Next]_vars
FairSpec == Spec /\ WF_vars(Progress)

(***************************************************************************)
(* Properties.                                                             *)
(***************************************************************************)

\* The socket map agrees with the index at every unlock: a session is parked
\* exactly when a socket is held for it, under the same lease, so no RESUME is
\* granted without a socket and no parked socket is left behind (the orphan
\* branches of park and resume_request are never taken).
SocketMapMatchesIndex ==
  \A s \in Sessions :
    /\ io[s].present <=> agg.index[s].present
    /\ io[s].present => io[s].lease = agg.index[s].lease
    /\ io[s].socket <=> agg.index[s].parked

\* The connections that hold the target socket of a session.
Holding == {"begin", "relay", "park", "replay"}
Holders(s) == {c \in Conns : todo[c] # <<>> /\ Item(c).op \in Holding /\ Item(c).sid = s}

\* A session's target is relayed by one connection at most, whatever RESUMEs
\* preempt each other, and by none while its socket is parked.
OneHolderPerSession ==
  \A s \in Sessions :
    /\ Cardinality(Holders(s)) <= 1
    /\ io[s].socket => Holders(s) = {}

\* A connection that holds a target owns the Established slot of that lease: no
\* sweep, eviction, late guard or stale fact frees the slot under a live relay.
HolderOwnsTheSlot ==
  \A s \in Sessions : \A c \in Holders(s) : IsEstablished(agg, s, Item(c).lease)

\* Some task has yet to take, park or report the end of the incarnation.
WillBeReleased(l) ==
  \E t \in Tasks : \E i \in DOMAIN todo[t] :
    todo[t][i].op \in Holding \cup {"take", "ended", "terminated"} /\ todo[t][i].lease = l

\* .claude/rules/always-connects.md, as quoted in attach_runtime.rs: a slot is
\* never orphaned.  An Established session is parked, or some task still holds
\* it or is due to release it, panics included.
NoOrphanedSlot ==
  \A s \in Sessions :
    agg.slots[s].st = "established" => io[s].socket \/ WillBeReleased(agg.slots[s].lease)

\* The target socket of a lease still being torn down: in the map, or in the
\* hands of a connect task that has not given it up.
Torn(l) == /\ leases[l] = "none"
           /\ ~At(Connect(l), "dial") /\ ~At(Connect(l), "store")

\* attach_arbiter.rs: a larger generation supersedes an attempt "only once its
\* lease has actually finished tearing down".  When the next attempt gets its
\* lease, nothing of the old one can still reach the target.
SupersedeWaitsForTeardown ==
  [][\A s \in Sessions :
       agg.slots[s].st = "closing" /\ agg'.slots[s].st = "connecting"
         => Torn(agg.slots[s].lease)]_vars

SlotIs(s, st, l) == agg.slots[s].st = st /\ agg.slots[s].lease = l

\* An attempt never stays in flight: its connect ends within its timeout and a
\* PendingActivation that is not activated expires, so a client that vanishes
\* does not keep its slot.
AttemptsSettle ==
  \A s \in Sessions, l \in LeaseIds, st \in {"connecting", "pending"} :
    SlotIs(s, st, l) ~> ~SlotIs(s, st, l)

\* A supersede whose CancelLease is still to come when the connect of the old
\* lease has been started completes: the lease stops, whatever its connect task
\* or timer was doing, and the next attempt goes on.
CancelDue(l) == \E t \in Tasks : \E i \in DOMAIN todo[t] : todo[t][i] = CancelLease(l)
StartedSupersedeCompletes ==
  \A s \in Sessions, l \in LeaseIds :
    SlotIs(s, "closing", l) /\ leases[l] # "none" /\ CancelDue(l) ~> ~SlotIs(s, "closing", l)

\* Every supersede completes.  attach_runtime.rs says of start_connect that "a
\* CancelLease effect processed immediately afterward always finds an entry to
\* abort", and of a session left in ClosingForSupersede that it is
\* "unrecoverable by any client retry".
SupersedeCompletes ==
  \A s \in Sessions, l \in LeaseIds :
    SlotIs(s, "closing", l) ~> ~SlotIs(s, "closing", l)

\* An incarnation nobody holds any more (its task panicked, or is about to
\* report that the target died) is released: the Drop fallbacks of the guards
\* keep the slot from leaking.
Abandoned(s, l) == SlotIs(s, "established", l) /\ Holders(s) = {} /\ ~io[s].socket
AbandonedIsReleased ==
  \A s \in Sessions, l \in LeaseIds : Abandoned(s, l) ~> ~Abandoned(s, l)

\* The shell drives the aggregate only through its events: every step of every
\* task is a step of ServeAggregate or leaves the aggregate alone.
Aggregate == INSTANCE ServeAggregate
ImplementsAggregate == Aggregate!Spec
=============================================================================
