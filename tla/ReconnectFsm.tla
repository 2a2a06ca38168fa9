---------------------------- MODULE ReconnectFsm ----------------------------
(***************************************************************************)
(* The reducer of the app core's automatic reconnection                    *)
(* (rust-core/src/reconnect_fsm.rs).  ReconnectState::apply takes one      *)
(* event, updates the aggregate and returns the effects the shell has to   *)
(* interpret in order.  Here every event is an operator from a state r to  *)
(* [r |-> next state, fx |-> sequence of effects].                         *)
(*                                                                         *)
(* Abstracted: durations are counted in loop ticks (a policy gives up at   *)
(* timeout and retries every retry ticks); the AttemptRef is reduced to    *)
(* whether there is one; reasons, hints and log-only effects are left      *)
(* out.  LoopStartAborted cannot occur: begin_connect writes the AttemptRef *)
(* and the configuration it stands for in one critical section.            *)
(***************************************************************************)
EXTENDS Integers, Sequences

\* ReconnectPolicy, in ticks: ticks_per_retry() and timeout / tick.
Policies == [retry : Nat \ {0}, timeout : Nat \ {0}]

Phases == {"Idle", "Connecting", "Connected"}
Backgrounds == {"Foreground", "Quiescing", "Suspended"}
DisconnectKinds == {"GracefulRemoteExit", "NetworkLost", "TransportError"}

NoGeneration == 0    \* edge_open / last_established = None: generations start at 1
NoClock == -1        \* loop_clock = None

ReconnectStates ==
  [phase : Phases, epoch : Nat, active : BOOLEAN, inFlight : BOOLEAN,
   pendingWake : BOOLEAN, userDisc : BOOLEAN, background : Backgrounds,
   lastAttempt : BOOLEAN, edge : Nat, lastEst : Nat, clock : Nat \cup {NoClock}]

\* What the reducer's own tests assume of a state: an edge is open only while
\* Connected, for the generation established last, and only a live loop is timed.
WellFormed(r) ==
  /\ r.edge # NoGeneration => r.phase = "Connected" /\ r.lastEst = r.edge
  /\ r.clock # NoClock => r.active

DefaultState ==
  [phase |-> "Idle", epoch |-> 0, active |-> FALSE, inFlight |-> FALSE,
   pendingWake |-> FALSE, userDisc |-> FALSE, background |-> "Foreground",
   lastAttempt |-> FALSE, edge |-> NoGeneration, lastEst |-> NoGeneration,
   clock |-> NoClock]

\* An effect; n is its generation or epoch (0 where it carries none).
Fx(op, n) == [op |-> op, n |-> n]
Out(r, fx) == [r |-> r, fx |-> fx]

-----------------------------------------------------------------------------
CloseEdge(r) ==
  Out([r EXCEPT !.edge = NoGeneration],
      IF r.edge = NoGeneration THEN <<>> ELSE <<Fx("EdgeLost", r.edge)>>)

\* Faulty variant: the edge stays open when Connected is left.
SetPhaseKeepingEdge(r, p) == Out([r EXCEPT !.phase = p], <<>>)

\* The only writer of the phase: leaving Connected closes the open edge in the
\* same apply.
SetPhase(r, p) ==
  LET c == IF p = "Connected" THEN Out(r, <<>>) ELSE CloseEdge(r)
  IN  Out([c.r EXCEPT !.phase = p], c.fx)

StopLoop(r) ==
  [r EXCEPT !.epoch = @ + 1, !.active = FALSE, !.inFlight = FALSE,
            !.pendingWake = FALSE, !.clock = NoClock]

AbortLoopAttempt(r) ==
  LET c == SetPhase(r, "Idle")
  IN  Out(c.r, Append(c.fx, Fx("AbortInFlightAttempt", 0)))

LoopIsLive(r, e) == e = r.epoch /\ r.active /\ r.clock # NoClock

-----------------------------------------------------------------------------
AttemptConnected(r, g) ==
  LET closed == IF r.edge \notin {NoGeneration, g} THEN CloseEdge(r) ELSE Out(r, <<>>)
      up     == StopLoop(SetPhase(closed.r, "Connected").r)
      opens  == up.edge = NoGeneration /\ g > up.lastEst
  IN  Out(IF opens THEN [up EXCEPT !.edge = g, !.lastEst = g] ELSE up,
          closed.fx \o <<Fx("PublishConnected", 0)>>
                    \o (IF opens THEN <<Fx("EdgeEstablished", g)>> ELSE <<>>))

AttemptDisconnected(r, kind) ==
  LET idle  == SetPhase([r EXCEPT !.userDisc = FALSE, !.inFlight = FALSE], "Idle")
      first == <<Fx("InvalidatePathObserver", 0)>> \o idle.fx
      loops == /\ r.phase = "Connected"
               /\ ~r.userDisc
               /\ kind # "GracefulRemoteExit"
               /\ r.lastAttempt
  IN  IF r.active
        THEN Out(idle.r, first \o (IF r.pendingWake THEN <<Fx("WakeReconnectLoop", 0)>> ELSE <<>>))
      ELSE IF loops
        THEN Out([idle.r EXCEPT !.pendingWake = FALSE, !.active = TRUE,
                                !.epoch = @ + 1, !.clock = NoClock],
                 Append(first, Fx("StartReconnectLoop", r.epoch + 1)))
      ELSE Out([idle.r EXCEPT !.pendingWake = FALSE, !.background = "Foreground"],
               Append(first, Fx("PublishDisconnected", 0)))

SessionCreated(r, g) ==
  IF r.edge \notin {NoGeneration, g} THEN CloseEdge(r) ELSE Out(r, <<>>)

ManualConnectStarted(r) ==
  LET c == SetPhase(r, "Connecting")
  IN  IF r.phase = "Connecting"
        THEN Out(r, <<Fx("ManualConnectRejected", 0)>>)
        ELSE Out(StopLoop([c.r EXCEPT !.lastAttempt = TRUE, !.userDisc = FALSE,
                                      !.background = "Foreground"]),
                 c.fx \o <<Fx("InvalidatePathObserver", 0), Fx("PublishConnecting", 0)>>)

ReconnectSessionStarting(r) == SetPhase(r, "Connecting")

ForegroundReconnectFailedSync(r) ==
  LET c == SetPhase(r, "Idle")
  IN  Out(c.r, Append(c.fx, Fx("PublishDisconnected", 0)))

LoopStarted(r, e) ==
  IF e # r.epoch \/ ~r.active \/ r.clock # NoClock
    THEN Out(r, <<>>)
    ELSE Out([r EXCEPT !.clock = 0],
             <<Fx("PublishReconnecting", 0), Fx("ArmLoopTimer", e)>>)

ReconnectWake(r, e) ==
  IF ~LoopIsLive(r, e) THEN Out(r, <<>>)
  ELSE IF r.inFlight
    THEN Out([r EXCEPT !.pendingWake = TRUE], <<Fx("ArmLoopTimer", e)>>)
    ELSE Out([r EXCEPT !.inFlight = TRUE, !.pendingWake = FALSE],
             <<Fx("StartAttempt", e), Fx("ArmLoopTimer", e)>>)

\* Faulty variant: the give-up stops the loop and says nothing.
ReconnectTickSilent(r, e, policy) ==
  IF ~LoopIsLive(r, e) THEN Out(r, <<>>)
  ELSE IF r.clock + 1 >= policy.timeout THEN AbortLoopAttempt(StopLoop(r))
  ELSE Out([r EXCEPT !.clock = @ + 1, !.inFlight = TRUE],
           <<Fx("PublishReconnecting", 0), Fx("StartAttempt", e), Fx("ArmLoopTimer", e)>>)

ReconnectTick(r, e, policy) ==
  LET ticked  == [r EXCEPT !.clock = @ + 1]
      gaveUp  == AbortLoopAttempt(StopLoop(r))
      due     == ticked.clock % policy.retry = 0
      retries == ~r.inFlight /\ (due \/ r.pendingWake)
  IN  IF ~LoopIsLive(r, e) THEN Out(r, <<>>)
      ELSE IF ticked.clock >= policy.timeout
        THEN Out(gaveUp.r, Append(gaveUp.fx, Fx("PublishReconnectTimedOut", 0)))
      ELSE IF retries
        THEN Out([ticked EXCEPT !.inFlight = TRUE, !.pendingWake = FALSE],
                 <<Fx("PublishReconnecting", 0), Fx("StartAttempt", e), Fx("ArmLoopTimer", e)>>)
        ELSE Out(ticked, <<Fx("PublishReconnecting", 0), Fx("ArmLoopTimer", e)>>)

AttemptFailedSync(r, e) ==
  LET free == [r EXCEPT !.inFlight = FALSE]
  IN  IF e # r.epoch THEN Out(r, <<>>)
      ELSE IF r.phase = "Connecting" THEN SetPhase(free, "Idle") ELSE Out(free, <<>>)

\* Faulty variant: the phase stays Connecting after a refused connect.
ManualConnectFailedSyncIgnored(r) == Out(r, <<>>)

ManualConnectFailedSync(r) ==
  IF r.phase = "Connecting" THEN SetPhase(r, "Idle") ELSE Out(r, <<>>)

CancelReconnect(r) ==
  LET c == AbortLoopAttempt([StopLoop(r) EXCEPT !.background = "Foreground"])
  IN  IF r.active
        THEN Out(c.r, Append(c.fx, Fx("PublishDisconnected", 0)))
        ELSE Out(StopLoop(r), <<>>)

UserDisconnect(r) ==
  LET c == AbortLoopAttempt([StopLoop(r) EXCEPT !.userDisc = FALSE,
                                                !.background = "Foreground"])
  IN  IF r.active
        THEN Out(c.r, <<Fx("InvalidatePathObserver", 0)>> \o c.fx
                        \o <<Fx("PublishDisconnected", 0)>>)
        ELSE Out([r EXCEPT !.userDisc = TRUE], <<Fx("DisconnectSession", 0)>>)

=============================================================================
