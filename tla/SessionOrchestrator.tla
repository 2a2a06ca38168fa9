------------------------ MODULE SessionOrchestrator ------------------------
(***************************************************************************)
(* The shell around the reconnect reducer (rust-core/src/orchestrator.rs). *)
(* Every thread of the app (the caller of the UniFFI methods, the OS path  *)
(* callback, the loop tasks, the session tasks, the debounce task) applies *)
(* an event under the state lock, which also stages the publications and   *)
(* moves session_generation on an abort, and then, without the lock,       *)
(* interprets the effects one by one.  Other threads run in between.       *)
(*                                                                         *)
(* thr[t] is what thread t still has to do, as a sequence of effects and   *)
(* of the shell's own steps; an empty sequence is a thread that is idle or *)
(* has ended.                                                              *)
(*                                                                         *)
(* Abstracted: pending file previews and trzsz transfers that are failed   *)
(* on a loss; the strings and hints of the publications; the path          *)
(* observer's epochs (a superseded debounce does nothing, so only the one  *)
(* that is still current is kept, in armed).                               *)
(***************************************************************************)
EXTENDS ReconnectFsm, FiniteSets

CONSTANTS
  Scripts,      \* bound: what may be called, over which transports, under which policy
  MaxInputs,    \* bound: UI calls, OS path events and losses of a live session
  MaxGen,       \* bound on generations, never reached (TypeOK)
  MaxEpoch      \* bound on loop epochs, never reached (TypeOK)

CallNames == {"connect", "disconnect", "cancel", "background", "foreground", "path"}

ASSUME OrchestratorAssumption ==
  /\ Scripts \subseteq [calls : SUBSET CallNames, transports : SUBSET {"tcp", "quic"},
                       policy : Policies]
  /\ MaxInputs \in Nat /\ MaxGen \in Nat /\ MaxEpoch \in Nat

VARIABLES
  rs,          \* OrchestratorState.reconnect
  gen,         \* OrchestratorState.session_generation
  target,      \* transport of last_connect_attempt, "none" before the first connect
  queue,       \* PublicationQueue.queue
  draining,    \* PublicationQueue.draining
  slot,        \* OrchestratorShared.session: generation of the stored session
  armed,       \* generation the current network-loss debounce was armed for
  wake,        \* the permit of OrchestratorShared.reconnect_wake
  thr,         \* what each thread still has to do
  sess,        \* the transport session of each generation (external)
  disc,        \* generations whose session was told to disconnect
  origin,      \* who created the session of a generation: Manual, Foreground or an epoch
  shown,       \* the last connection state delivered to the app
  edges,       \* the connection edges delivered to the app, in order
  inputs,      \* inputs used up
  script       \* the script of this behaviour

vars == <<rs, gen, target, queue, draining, slot, armed, wake, thr, sess, disc,
          origin, shown, edges, inputs, script>>

Generations == 1..MaxGen
Manual == 0
Foreground == -1

Ui == <<"ui", 0>>
Os == <<"os", 0>>
Debouncer == <<"debounce", 0>>
Loop(e) == <<"loop", e>>
Session(g) == <<"session", g>>
Threads == {Ui, Os, Debouncer} \cup {Loop(e) : e \in 1..MaxEpoch}
                               \cup {Session(g) : g \in Generations}

Idle(t) == thr[t] = <<>>
At(t, op) == ~Idle(t) /\ Head(thr[t]).op = op
Arg(t) == Head(thr[t]).n
Rest(t) == Tail(thr[t])

PublicState ==
  [PublishDisconnected |-> "Disconnected", PublishConnected |-> "Connected",
   PublishConnecting |-> "Connecting", PublishReconnecting |-> "Reconnecting",
   PublishReconnectTimedOut |-> "Disconnected"]
EdgeOps == {"EdgeEstablished", "EdgeLost"}
Flush == Fx("Flush", 0)
IsPublication(f) == f.op \in DOMAIN PublicState \cup EdgeOps

Init ==
  /\ rs = DefaultState
  /\ gen = 0
  /\ target = "none"
  /\ queue = <<>> /\ draining = FALSE
  /\ slot = NoGeneration
  /\ armed = NoGeneration
  /\ wake = FALSE
  /\ thr = [t \in Threads |-> <<>>]
  /\ sess = [g \in Generations |-> "none"]
  /\ disc = {}
  /\ origin = [g \in Generations |-> Manual]
  /\ shown = "none"
  /\ edges = <<>>
  /\ inputs = 0
  /\ script \in Scripts

-----------------------------------------------------------------------------
(* apply_reconnect: the reducer's step, the staging of its publications and *)
(* the generation bump of AbortInFlightAttempt, in one critical section.    *)
(* What is left for the thread is to interpret the effects in order, and    *)
(* then rest.  The flush that execute_reconnect_effects ends with is left   *)
(* out: a queue that it could find is drained anyway (NothingIsStranded),   *)
(* so it only matters to which thread makes the callbacks.                  *)

\* stage_publications: the publications among the effects, in their order.
Publications(fx) ==
  LET staged[i \in 0..Len(fx)] ==
        IF i = 0 THEN <<>>
        ELSE IF IsPublication(fx[i]) THEN Append(staged[i - 1], fx[i]) ELSE staged[i - 1]
  IN  staged[Len(fx)]

StagePublications(fx) ==
  /\ queue' = queue \o Publications(fx)
  /\ gen' = gen + Cardinality({i \in DOMAIN fx : fx[i].op = "AbortInFlightAttempt"})

\* The effects as thread steps.  A publication is a point where the queue is
\* flushed.  ArmLoopTimer, always the last effect, is the value
\* execute_reconnect_effects returns: the loop task sleeps again.
StepOf(f) ==
  IF IsPublication(f) THEN Flush ELSE IF f.op = "ArmLoopTimer" THEN Fx("Sleep", 0) ELSE f
Program(fx) == [i \in DOMAIN fx |-> StepOf(fx[i])]

ApplyReconnect(t, out, rest) ==
  /\ rs' = out.r
  /\ StagePublications(out.fx)
  /\ thr' = [thr EXCEPT ![t] = Program(out.fx) \o rest]

UseInput == inputs < MaxInputs /\ inputs' = inputs + 1

-----------------------------------------------------------------------------
(* The UniFFI calls. *)

BeginConnect ==
  /\ "connect" \in script.calls /\ Idle(Ui) /\ UseInput
  /\ rs.phase # "Connecting"
  /\ ApplyReconnect(Ui, ManualConnectStarted(rs), <<Fx("NewAdapter", Manual)>>)
  /\ target' \in script.transports
  /\ UNCHANGED <<draining, slot, armed, wake, sess, disc, origin, shown, edges, script>>

Disconnect ==
  /\ "disconnect" \in script.calls /\ Idle(Ui) /\ UseInput
  /\ ApplyReconnect(Ui, UserDisconnect(rs), <<>>)
  /\ UNCHANGED <<target, draining, slot, armed, wake, sess, disc, origin, shown, edges, script>>

Cancel ==
  /\ "cancel" \in script.calls /\ Idle(Ui) /\ UseInput
  /\ ApplyReconnect(Ui, CancelReconnect(rs), <<>>)
  /\ UNCHANGED <<target, draining, slot, armed, wake, sess, disc, origin, shown, edges, script>>

\* notify_did_enter_background, and notify_background_budget_expired or
\* notify_memory_warning: plain writes under the lock.
EnterBackground ==
  /\ "background" \in script.calls /\ Idle(Ui) /\ UseInput
  /\ rs.phase # "Idle"
  /\ rs' = [rs EXCEPT !.background = "Quiescing"]
  /\ UNCHANGED <<gen, target, queue, draining, slot, armed, wake, thr, sess, disc,
                 origin, shown, edges, script>>

Suspend ==
  /\ "background" \in script.calls /\ Idle(Ui)
  /\ rs.background = "Quiescing"
  /\ rs' = [rs EXCEPT !.background = "Suspended"]
  /\ UNCHANGED <<gen, target, queue, draining, slot, armed, wake, thr, sess, disc,
                 origin, shown, edges, inputs, script>>

EnterForeground ==
  LET reconnects == /\ rs.background = "Suspended"
                    /\ ~rs.active
                    /\ rs.phase # "Connecting"
                    /\ target # "none"
  IN  /\ "foreground" \in script.calls /\ Idle(Ui)
      /\ rs.background # "Foreground"
      /\ rs' = [rs EXCEPT !.background = "Foreground"]
      /\ thr' = [thr EXCEPT ![Ui] = IF reconnects THEN <<Fx("StartAttempt", Foreground)>> ELSE <<>>]
      /\ UNCHANGED <<gen, target, queue, draining, slot, armed, wake, sess, disc,
                     origin, shown, edges, inputs, script>>

\* notify_network_path_changed: the phase, the transport and the generation are
\* read under the lock, which is released before the decision is acted on.
PathSatisfied ==
  /\ "path" \in script.calls /\ Idle(Os) /\ UseInput
  /\ \/ /\ rs.phase = "Idle"
        /\ thr' = [thr EXCEPT ![Os] = <<Fx("WakeIfActive", 0)>>]
     \/ /\ rs.phase = "Connected" /\ target = "tcp"
        /\ thr' = [thr EXCEPT ![Os] = <<Fx("ObservePath", NoGeneration)>>]
  /\ UNCHANGED <<rs, gen, target, queue, draining, slot, armed, wake, sess, disc,
                 origin, shown, edges, script>>

PathLost ==
  /\ "path" \in script.calls /\ Idle(Os) /\ UseInput
  /\ \/ /\ rs.phase = "Connecting"
        /\ thr' = [thr EXCEPT ![Os] = <<Fx("LostCheck", <<"Connecting", gen>>)>>]
     \/ /\ rs.phase = "Connected" /\ target = "tcp"
        /\ thr' = [thr EXCEPT ![Os] = <<Fx("ObservePath", gen)>>]
  /\ UNCHANGED <<rs, gen, target, queue, draining, slot, armed, wake, sess, disc,
                 origin, shown, edges, script>>

\* The debounce timer of the latest path loss expires.
DebounceFires ==
  /\ armed # NoGeneration /\ Idle(Debouncer)
  /\ thr' = [thr EXCEPT ![Debouncer] = <<Fx("LostCheck", <<"Connected", armed>>)>>]
  /\ armed' = NoGeneration
  /\ UNCHANGED <<rs, gen, target, queue, draining, slot, wake, sess, disc, origin,
                 shown, edges, inputs, script>>

-----------------------------------------------------------------------------
(* apply_network_lost_if_unchanged: check under the lock, disconnect the   *)
(* stored session without it, then handle_unexpected_disconnect.           *)

LostCheck(t) ==
  /\ At(t, "LostCheck")
  /\ thr' = [thr EXCEPT ![t] =
               IF Arg(t) = <<rs.phase, gen>>
                 THEN <<Fx("DisconnectSession", 0), Fx("LostHandle", gen)>>
                 ELSE <<>>]
  /\ UNCHANGED <<rs, gen, target, queue, draining, slot, armed, wake, sess, disc,
                 origin, shown, edges, inputs, script>>

LostHandle(t) ==
  /\ At(t, "LostHandle")
  /\ IF Arg(t) = gen
       THEN ApplyReconnect(t, AttemptDisconnected(rs, "NetworkLost"), <<>>)
       ELSE /\ thr' = [thr EXCEPT ![t] = <<>>]
            /\ UNCHANGED <<rs, gen, queue>>
  /\ UNCHANGED <<target, draining, slot, armed, wake, sess, disc, origin, shown,
                 edges, inputs, script>>

-----------------------------------------------------------------------------
(* execute_reconnect_effects: one effect of thread t, without the lock.    *)

Skip(t) == thr' = [thr EXCEPT ![t] = Rest(t)]

InvalidatePathObserver(t) ==
  /\ At(t, "InvalidatePathObserver")
  /\ armed' = NoGeneration
  /\ Skip(t)
  /\ UNCHANGED <<rs, gen, target, queue, draining, slot, wake, sess, disc, origin,
                 shown, edges, inputs, script>>

\* The path came back: the loop is looked at under a lock of its own.
WakeIfActive(t) ==
  /\ At(t, "WakeIfActive")
  /\ wake' = (wake \/ rs.active)
  /\ Skip(t)
  /\ UNCHANGED <<rs, gen, target, queue, draining, slot, armed, sess, disc, origin,
                 shown, edges, inputs, script>>

\* PathObserver::handle_update: whatever was armed is superseded, and a loss arms
\* a debounce for the generation that was read before.
ObservePath(t) ==
  /\ At(t, "ObservePath")
  /\ armed' = Arg(t)
  /\ Skip(t)
  /\ UNCHANGED <<rs, gen, target, queue, draining, slot, wake, sess, disc, origin,
                 shown, edges, inputs, script>>

WakeReconnectLoop(t) ==
  /\ At(t, "WakeReconnectLoop")
  /\ wake' = TRUE
  /\ Skip(t)
  /\ UNCHANGED <<rs, gen, target, queue, draining, slot, armed, sess, disc, origin,
                 shown, edges, inputs, script>>

\* The second conjunct is a bound: there is a thread for each of the epochs.
SpawnReconnectLoop(t) ==
  /\ At(t, "StartReconnectLoop")
  /\ Arg(t) \in 1..MaxEpoch
  /\ thr' = [thr EXCEPT ![t] = Rest(t), ![Loop(Arg(t))] = <<Fx("LoopStarted", 0)>>]
  /\ UNCHANGED <<rs, gen, target, queue, draining, slot, armed, wake, sess, disc,
                 origin, shown, edges, inputs, script>>

DisconnectCurrentSession(t) ==
  /\ At(t, "DisconnectSession") \/ At(t, "AbortInFlightAttempt")
  /\ disc' = disc \cup {g \in {slot} : g # NoGeneration /\ sess[g] # "dead"}
  /\ Skip(t)
  /\ UNCHANGED <<rs, gen, target, queue, draining, slot, armed, wake, sess, origin,
                 shown, edges, inputs, script>>

\* Faulty variant: every thread drains, whether or not another one does.
FlushPublicationsConcurrently(t) ==
  /\ At(t, "Flush")
  /\ IF queue = <<>>
       THEN Skip(t) /\ UNCHANGED <<draining, queue>>
       ELSE /\ thr' = [thr EXCEPT ![t] = <<Fx("Deliver", Head(queue))>> \o Rest(t)]
            /\ draining' = TRUE
            /\ queue' = Tail(queue)
  /\ UNCHANGED <<rs, gen, target, slot, armed, wake, sess, disc, origin, shown,
                 edges, inputs, script>>

\* flush_publications: unless some thread is draining already, become the drainer
\* and take the first publication.
FlushPublications(t) ==
  /\ At(t, "Flush")
  /\ IF draining \/ queue = <<>>
       THEN Skip(t) /\ UNCHANGED <<draining, queue>>
       ELSE /\ thr' = [thr EXCEPT ![t] = <<Fx("Deliver", Head(queue))>> \o Rest(t)]
            /\ draining' = TRUE
            /\ queue' = Tail(queue)
  /\ UNCHANGED <<rs, gen, target, slot, armed, wake, sess, disc, origin, shown,
                 edges, inputs, script>>

\* Faulty variant: the drainer stops after the callback without looking at the
\* queue again.
DeliverOnce(t) ==
  /\ At(t, "Deliver")
  /\ IF Arg(t).op \in EdgeOps
       THEN edges' = Append(edges, Arg(t)) /\ UNCHANGED shown
       ELSE shown' = PublicState[Arg(t).op] /\ UNCHANGED edges
  /\ Skip(t) /\ draining' = FALSE
  /\ UNCHANGED <<rs, gen, target, queue, slot, armed, wake, sess, disc, origin, inputs, script>>

\* The callback, without the lock; then the next publication is taken, or the
\* drainer stops because the queue is empty.
Deliver(t) ==
  /\ At(t, "Deliver")
  /\ IF Arg(t).op \in EdgeOps
       THEN edges' = Append(edges, Arg(t)) /\ UNCHANGED shown
       ELSE shown' = PublicState[Arg(t).op] /\ UNCHANGED edges
  /\ IF queue = <<>>
       THEN Skip(t) /\ draining' = FALSE /\ UNCHANGED queue
       ELSE /\ thr' = [thr EXCEPT ![t] = <<Fx("Deliver", Head(queue))>> \o Rest(t)]
            /\ queue' = Tail(queue)
            /\ UNCHANGED draining
  /\ UNCHANGED <<rs, gen, target, slot, armed, wake, sess, disc, origin, inputs, script>>

-----------------------------------------------------------------------------
(* Creating a session: begin_reconnect_session, OrchestratorAdapter::new,  *)
(* build_and_store_session.                                                *)

\* connect_via's first critical section.  The epoch of the loop that wants the
\* session is not looked at again.
BeginReconnectSession(t) ==
  /\ At(t, "StartAttempt")
  /\ ApplyReconnect(t, ReconnectSessionStarting(rs), <<Fx("NewAdapter", Arg(t))>> \o Rest(t))
  /\ UNCHANGED <<target, draining, slot, armed, wake, sess, disc, origin, shown,
                 edges, inputs, script>>

NewAdapter(t) ==
  LET g == gen + 1
      out == SessionCreated(rs, g)
  IN  /\ At(t, "NewAdapter")
      /\ g \in Generations
      /\ rs' = out.r
      /\ gen' = g
      /\ queue' = queue \o Publications(out.fx)
      /\ origin' = [origin EXCEPT ![g] = Arg(t)]
      /\ thr' = [thr EXCEPT ![t] = Program(out.fx) \o <<Fx("Build", g)>> \o Rest(t)]
      /\ UNCHANGED <<target, draining, slot, armed, wake, sess, disc, shown, edges, inputs, script>>

\* The transport's connect() spawns the session task and returns Ok.
SessionSpawned(t) ==
  /\ At(t, "Build")
  /\ sess' = [sess EXCEPT ![Arg(t)] = "dialing"]
  /\ thr' = [thr EXCEPT ![t] = <<Fx("Store", Arg(t))>> \o Rest(t)]
  /\ UNCHANGED <<rs, gen, target, queue, draining, slot, armed, wake, disc, origin,
                 shown, edges, inputs, script>>

\* connect() returns Err: reset_phase_after_sync_connect_error, AttemptFailedSync
\* or ForegroundReconnectFailedSync, by who asked for the session.
SessionRefused(t) ==
  LET g == Arg(t)
      out == IF origin[g] = Manual
               THEN IF gen = g THEN ManualConnectFailedSync(rs) ELSE Out(rs, <<>>)
             ELSE IF origin[g] = Foreground THEN ForegroundReconnectFailedSync(rs)
             ELSE AttemptFailedSync(rs, origin[g])
  IN  /\ At(t, "Build")
      /\ sess' = [sess EXCEPT ![g] = "refused"]
      /\ ApplyReconnect(t, out, Rest(t))
      /\ UNCHANGED <<target, draining, slot, armed, wake, disc, origin, shown, edges, inputs, script>>

\* Faulty variant: the replaced session is dropped without a disconnect.
StoreSessionDropping(t) ==
  /\ At(t, "Store")
  /\ slot' = Arg(t)
  /\ Skip(t)
  /\ UNCHANGED <<rs, gen, target, queue, draining, armed, wake, sess, disc, origin,
                 shown, edges, inputs, script>>

\* The new session replaces the stored one, which is told to disconnect.
StoreSession(t) ==
  /\ At(t, "Store")
  /\ slot' = Arg(t)
  /\ disc' = disc \cup {g \in {slot} : g # NoGeneration /\ sess[g] # "dead"}
  /\ Skip(t)
  /\ UNCHANGED <<rs, gen, target, queue, draining, armed, wake, sess, origin, shown,
                 edges, inputs, script>>

-----------------------------------------------------------------------------
(* The loop task of epoch e. *)

LoopStart(e) ==
  /\ At(Loop(e), "LoopStarted")
  /\ ApplyReconnect(Loop(e), LoopStarted(rs, e), <<>>)
  /\ UNCHANGED <<target, draining, slot, armed, wake, sess, disc, origin, shown,
                 edges, inputs, script>>

LoopTick(e) ==
  /\ At(Loop(e), "Sleep")
  /\ ApplyReconnect(Loop(e), ReconnectTick(rs, e, script.policy), <<>>)
  /\ UNCHANGED <<target, draining, slot, armed, wake, sess, disc, origin, shown,
                 edges, inputs, script>>

LoopWake(e) ==
  /\ At(Loop(e), "Sleep") /\ wake
  /\ wake' = FALSE
  /\ ApplyReconnect(Loop(e), ReconnectWake(rs, e), <<>>)
  /\ UNCHANGED <<target, draining, slot, armed, sess, disc, origin, shown, edges, inputs, script>>

-----------------------------------------------------------------------------
(* The session task of generation g (external): it connects or fails, may  *)
(* be lost later, and ends after disconnect() was asked for.  The adapter   *)
(* ignores its callbacks once the generation is no longer current.          *)

\* Faulty variant: callbacks of every generation are taken.
CallbackOfAny(g, out) == ApplyReconnect(Session(g), out, <<>>)

Callback(g, out) ==
  IF gen = g
    THEN ApplyReconnect(Session(g), out, <<>>)
    ELSE UNCHANGED <<rs, gen, queue, thr>>

SessionConnected(g) ==
  /\ sess[g] = "dialing" /\ Idle(Session(g))
  /\ sess' = [sess EXCEPT ![g] = "up"]
  /\ Callback(g, AttemptConnected(rs, g))
  /\ UNCHANGED <<target, draining, slot, armed, wake, disc, origin, shown, edges, inputs, script>>

\* The attempt fails, or the session ends because it was told to.
SessionEnds(g) ==
  /\ sess[g] = "dialing" \/ (sess[g] = "up" /\ g \in disc)
  /\ Idle(Session(g))
  /\ sess' = [sess EXCEPT ![g] = "dead"]
  /\ disc' = disc \ {g}
  /\ Callback(g, AttemptDisconnected(rs, "TransportError"))
  /\ UNCHANGED <<target, draining, slot, armed, wake, origin, shown, edges, inputs, script>>

\* The transport reports a loss, or the remote process exits.
SessionLost(g) ==
  /\ sess[g] = "up" /\ Idle(Session(g)) /\ UseInput
  /\ sess' = [sess EXCEPT ![g] = "dead"]
  /\ disc' = disc \ {g}
  /\ \E kind \in {"TransportError", "GracefulRemoteExit"} :
       Callback(g, AttemptDisconnected(rs, kind))
  /\ UNCHANGED <<target, draining, slot, armed, wake, origin, shown, edges, script>>

-----------------------------------------------------------------------------
UiCall == BeginConnect \/ Disconnect \/ Cancel \/ EnterBackground \/ Suspend
            \/ EnterForeground

EffectStep(t) ==
  \/ InvalidatePathObserver(t) \/ WakeReconnectLoop(t) \/ SpawnReconnectLoop(t)
  \/ DisconnectCurrentSession(t) \/ FlushPublications(t) \/ Deliver(t)
  \/ WakeIfActive(t) \/ ObservePath(t) \/ LostCheck(t) \/ LostHandle(t)
  \/ BeginReconnectSession(t) \/ NewAdapter(t) \/ SessionSpawned(t)
  \/ SessionRefused(t) \/ StoreSession(t)

Next ==
  \/ UiCall \/ PathSatisfied \/ PathLost \/ DebounceFires
  \/ \E t \in {u \in Threads : ~Idle(u)} : EffectStep(t)
  \/ \E e \in 1..MaxEpoch : LoopStart(e) \/ LoopTick(e) \/ LoopWake(e)
  \/ \E g \in Generations : SessionConnected(g) \/ SessionEnds(g) \/ SessionLost(g)

Spec == Init /\ [][Next]_vars

(* Threads run, timers expire, and a dial or a disconnect of the transport *)
(* comes to an end.  Losses, wakes and the calls of the app are not        *)
(* assumed.  One fairness condition for all of them is enough, and assumes *)
(* less of the scheduler than one for each thread would.                   *)
Progress ==
  \/ DebounceFires
  \/ \E t \in {u \in Threads : ~Idle(u)} : EffectStep(t)
  \/ \E e \in 1..MaxEpoch : LoopStart(e) \/ LoopTick(e)
  \/ \E g \in Generations : SessionConnected(g) \/ SessionEnds(g)

Fairness == WF_vars(Progress)

LiveSpec == Spec /\ Fairness

-----------------------------------------------------------------------------
Sessions == {"none", "dialing", "up", "dead", "refused"}
PublicStates == {"none", "Disconnected", "Connected", "Connecting", "Reconnecting"}

\* Types; what the reducer's tests assume of its state holds of every state the
\* shell brings it to; the instance's bounds on generations and epochs are never
\* the reason a thread waits.
TypeOK ==
  /\ rs \in ReconnectStates /\ WellFormed(rs)
  /\ gen \in 0..(MaxGen - 1) /\ rs.epoch \in 0..MaxEpoch
  /\ target \in script.transports \cup {"none"}
  /\ draining \in BOOLEAN /\ wake \in BOOLEAN
  /\ slot \in 0..MaxGen /\ armed \in 0..MaxGen
  /\ sess \in [Generations -> Sessions]
  /\ disc \subseteq Generations
  /\ origin \in [Generations -> Foreground..MaxEpoch]
  /\ DOMAIN thr = Threads
  /\ shown \in PublicStates
  /\ inputs \in 0..MaxInputs

\* The app sees each generation's edges as Established(g) then Lost(g), one
\* generation after the other in increasing order, whichever threads applied
\* the transitions and delivered the callbacks.
EdgesWellFormed ==
  \A i \in DOMAIN edges :
    IF i % 2 = 1
      THEN /\ edges[i].op = "EdgeEstablished"
           /\ i > 1 => edges[i].n > edges[i - 1].n
      ELSE edges[i] = Fx("EdgeLost", edges[i - 1].n)

\* A publication in the queue has somebody to deliver it, the thread that drains
\* now or one with a flush still to come, although a thread that meets another
\* one draining goes on without waiting for it.
NothingIsStranded ==
  queue # <<>> => \E t \in Threads : \/ At(t, "Deliver")
                                    \/ Flush \in {thr[t][i] : i \in DOMAIN thr[t]}

\* Nothing is running, dialing or waiting to be delivered.
Settled ==
  /\ \A t \in Threads : Idle(t) \/ At(t, "Sleep")
  /\ queue = <<>>
  /\ \A g \in Generations : sess[g] # "dialing" /\ (sess[g] = "up" => g \notin disc)

\* A connect() that returned Err at once.  Such a refusal may leave a connection
\* that a late callback had reported, or a loop that is still live, behind a
\* published Disconnected, so the next two properties leave it out.
NoneRefused == \A g \in Generations : sess[g] # "refused"

\* Once everything has settled the app shows Connected exactly when the reducer
\* is connected, and Reconnecting exactly while a loop is live.
ShownStateAgrees ==
  Settled /\ NoneRefused => /\ shown = "Connected" <=> rs.phase = "Connected"
                            /\ shown = "Reconnecting" <=> rs.active

\* Once everything has settled, Connected means that the stored session is up
\* and that its callbacks are heard.
ConnectedIsLive ==
  Settled /\ NoneRefused /\ rs.phase = "Connected" => slot = gen /\ sess[gen] = "up"

\* A session that was replaced in the slot has been told to disconnect.
ReplacedSessionsEnd ==
  \A g \in Generations :
    sess[g] \in {"dialing", "up"} /\ g # slot
      => g \in disc \/ \E t \in Threads : Fx("Store", g) \in {thr[t][i] : i \in DOMAIN thr[t]}

\* RC-03: when a cancel, a disconnect or the give-up has stopped the loop and the
\* app has been told Disconnected, the session of an attempt that the loop had
\* started does not bring the app back to Connected later.
DisconnectedIsFinal ==
  [][shown = "Disconnected" /\ queue = <<>> /\ ~draining
       => ~(/\ rs.phase # "Connected" /\ rs'.phase = "Connected"
            /\ origin[gen] \notin {Manual, Foreground})]_vars

\* An attempt of a loop that had been stopped by then was refused at once.
StaleRefusal == \E g \in Generations : sess[g] = "refused" /\ origin[g] \in 1..(rs.epoch - 1)

\* The app is never left trying.  A reconnect loop ends, by success, give-up or a
\* user's decision, and Connecting does not last, during which begin_connect
\* refuses every manual connect: whichever thread moved the phase, a callback or
\* an error moves it on.  AttemptFailedSync ignores a stopped loop's epoch, so
\* the refusal of an attempt that such a loop still made is left out.
Trying == rs.active \/ rs.phase = "Connecting"
TryingEnds == Trying ~> ~Trying \/ StaleRefusal

=============================================================================
