---------------------------- MODULE ConnectResume ----------------------------
(***************************************************************************)
(* The shell around the resume planner: run_resume_loop and                *)
(* resume_with_backoff_until_deadline (isekai-pipe/src/resume_loop.rs),    *)
(* the warm standby (isekai-transport/src/warm_standby.rs) with its own    *)
(* task, and, as the environment, the serve process and a host that may be *)
(* suspended for long.                                                     *)
(*                                                                         *)
(* Time is counted in units of which StepTimeout is one transport step.    *)
(* A wait or a dial is one step of the model that moves the clock; what    *)
(* the server and the standby task do meanwhile happens before or after.   *)
(* A suspend does not move the clock: it is monotonic.                     *)
(***************************************************************************)
EXTENDS ResumePlanner

CONSTANTS
  Routes,        \* set of [grace, clamp, cross, standby]
  Delays,        \* what BackoffPolicy::next_delay may return
  StepTimeout,   \* TRANSPORT_STEP_TIMEOUT = REPLAY_WRITE_TIMEOUT
  IdleTimeout,   \* how long serve takes to notice a dead connection (external)
  MaxEpisodes,   \* bound on disconnects
  MaxSuspends    \* bound on suspends of the host

\* Warm standby and a cross-family target never coexist (run_resume_loop asserts it).
ASSUME ShellAssumption ==
  /\ Routes \subseteq [grace : Nat, clamp : Nat \cup {NoClamp}, cross : BOOLEAN, standby : BOOLEAN]
  /\ \A r \in Routes : ~(r.cross /\ r.standby)
  /\ Delays \subseteq Nat
  /\ StepTimeout \in Nat \ {0} /\ IdleTimeout \in Nat /\ IdleTimeout <= StepTimeout
  /\ MaxEpisodes \in Nat /\ MaxSuspends \in Nat

\* The floor of 30 s leaves room for serve's idle timeout of 15 s and for an answer
\* that is a transport step of 15 s old when it arrives.
ASSUME FloorAssumption == ElapsedFloor >= IdleTimeout + StepTimeout

VARIABLES
  p,           \* ResumePlanner
  cmd,         \* the outstanding ResumeCmd
  now,         \* ShellClock
  known,       \* does serve still have the session? (external)
  parkAt,      \* when serve has noticed that the connection is dead (external)
  slot,        \* WarmStandby.standby: dialled since the last suspend, or before
  task,        \* where the warm-standby task is
  supported,   \* ~server_unsupported
  jump,        \* the wall clock jumped since the task's last_wall
  dialled,     \* paths dialled in this episode
  reattached,  \* a RESUME of this episode reached serve without its answer coming back
  episodes, suspends

standbyVars == <<slot, task, supported, jump>>
serveVars == <<known, parkAt>>
vars == <<p, cmd, now, known, parkAt, slot, task, supported, jump, dialled,
          reattached, episodes, suspends>>

Standbys == {"none", "fresh", "stale"}
Never == -1      \* parkAt while the connection is alive

Init ==
  /\ \E r \in Routes : /\ p = NewPlanner(r)
                       /\ task = IF r.standby THEN "waiting" ELSE "off"
  /\ cmd = NoCmd
  /\ now = 0
  /\ known = TRUE /\ parkAt = Never
  /\ slot = "none" /\ supported = TRUE /\ jump = FALSE
  /\ dialled = {} /\ reattached = FALSE
  /\ episodes = 0 /\ suspends = 0

Apply(out) ==
  /\ p' = out.p
  /\ cmd' = out.cmd

-----------------------------------------------------------------------------
(* The pumps end with a remote failure or a network change.  Either serve  *)
(* gets the reset, or it notices by its own idle timeout.                  *)
Disconnects ==
  /\ p.phase = "Connected" /\ cmd = NoCmd
  /\ episodes < MaxEpisodes
  /\ \E byNetworkChange \in BOOLEAN, delay \in Delays :
       Apply(Disconnected(p, now, byNetworkChange, delay))
  /\ parkAt' \in {now, now + IdleTimeout}
  /\ episodes' = episodes + 1
  /\ UNCHANGED <<now, known, standbyVars, dialled, reattached, suspends>>

BackoffEnds ==
  /\ cmd.op = "Backoff"
  /\ now' = now + cmd.after
  /\ Apply(BackoffElapsed(p, now', FALSE))
  /\ UNCHANGED <<serveVars, standbyVars, dialled, reattached, episodes, suspends>>

NetworkChangesInBackoff ==
  /\ cmd.op = "Backoff"
  /\ now' \in now..(now + cmd.after)
  /\ Apply(BackoffElapsed(p, now', TRUE))
  /\ UNCHANGED <<serveVars, standbyVars, dialled, reattached, episodes, suspends>>

-----------------------------------------------------------------------------
(* A dial: reconnect_and_resume (connect, then request_resume) and the     *)
(* replay; or the promotion of the standby, which is connected already.    *)

Parked(t) == known /\ parkAt # Never /\ t >= parkAt
Steps(path) == IF path = "WarmStandby" THEN 1 ELSE 2

\* When the shell may have the outcome, and when serve may have given the answer the
\* shell has at time t.
OutcomeTimes(path) == now..(now + Steps(path) * StepTimeout)
AnsweredAt(t) == Max({now, t - StepTimeout})..t

\* The promotion takes the standby out whatever comes of it.
TakesStandby(path) ==
  /\ path = "WarmStandby" => slot # "none"
  /\ slot' = IF path = "WarmStandby" THEN "none" ELSE slot
  /\ UNCHANGED <<task, supported, jump>>

DialSucceeds ==
  /\ cmd.op = "Dial"
  /\ TakesStandby(cmd.path)
  /\ known
  /\ now' \in OutcomeTimes(cmd.path)
  /\ Apply(AttemptOk(p, cmd.path))
  /\ parkAt' = Never
  /\ dialled' = dialled \cup {cmd.path}
  /\ UNCHANGED <<known, reattached, episodes, suspends>>

\* serve does not have the session, or has not parked it yet.
DialGetsUnknownSession ==
  /\ cmd.op = "Dial"
  /\ TakesStandby(cmd.path)
  /\ now' \in OutcomeTimes(cmd.path)
  /\ \E t \in AnsweredAt(now') : ~Parked(t)
  /\ \E delay \in Delays :
       Apply(AttemptFailed(p, cmd.path, now', "UnknownSession", delay))
  /\ dialled' = dialled \cup {cmd.path}
  /\ UNCHANGED <<serveVars, reattached, episodes, suspends>>

\* No connection, no answer, an answer that is lost, or a replay that fails or is
\* impossible.  In the last three serve has attached the session to a connection
\* that the client abandons.
DialFails ==
  /\ cmd.op = "Dial"
  /\ TakesStandby(cmd.path)
  /\ \E kind \in AttemptFailures \ {"UnknownSession"}, delay \in Delays, reached \in BOOLEAN :
       /\ kind \in {"ReplayFailed", "Unrecoverable"} => reached
       /\ reached => known
       /\ \E t \in OutcomeTimes(cmd.path) :
            now' \in IF kind = "ReplayFailed" THEN {t, t + StepTimeout} ELSE {t}
       /\ reattached' = (reattached \/ reached)
       /\ parkAt' \in IF reached THEN {now', now' + IdleTimeout} ELSE {parkAt}
       /\ Apply(AttemptFailed(p, cmd.path, now', kind, delay))
  /\ dialled' = dialled \cup {cmd.path}
  /\ UNCHANGED <<known, episodes, suspends>>

\* There is no standby to promote.
NothingToPromote ==
  /\ cmd.op = "Dial" /\ cmd.path = "WarmStandby" /\ slot = "none"
  /\ \E delay \in Delays : Apply(AttemptFailed(p, cmd.path, now, "Other", delay))
  /\ UNCHANGED <<now, serveVars, standbyVars, dialled, reattached, episodes, suspends>>

\* The interpreter returns: to the pumps, or with an error that ends the process and
\* the standby task with it.  Only differences of times of one episode are used, so
\* the clock is put back.
EpisodeEnds ==
  /\ cmd.op \in {"Resumed", "GiveUp"}
  /\ cmd' = NoCmd
  /\ IF cmd.op = "GiveUp" THEN task' = "off" /\ slot' = "none" ELSE UNCHANGED <<task, slot>>
  /\ now' = IF cmd.op = "Resumed" THEN 0 ELSE now
  /\ dialled' = {} /\ reattached' = FALSE
  /\ UNCHANGED <<p, serveVars, supported, jump, episodes, suspends>>

-----------------------------------------------------------------------------
(* The warm-standby task: a tick of its interval, then ensure_warm, whose  *)
(* probe and dial run without the lock on the slot.                        *)

StandbyTick ==
  LET kept == IF jump THEN "none" ELSE slot
  IN  /\ task = "waiting"
      /\ slot' = kept
      /\ jump' = FALSE
      /\ task' = IF ~supported THEN "waiting"
                 ELSE IF kept = "none" THEN "dialing" ELSE "probing"
      /\ UNCHANGED <<p, cmd, now, serveVars, supported, dialled, reattached,
                     episodes, suspends>>

ProbeAnswers ==
  /\ task = "probing"
  /\ \/ task' = "waiting" /\ UNCHANGED slot
     \/ task' = "dialing" /\ slot' = "none"
  /\ UNCHANGED <<p, cmd, now, serveVars, supported, jump, dialled, reattached,
                 episodes, suspends>>

\* Faulty variant: last_wall is read again after ensure_warm, so a jump during the
\* dial is missed.
StandbyDialedResettingClock ==
  /\ task \in {"dialing", "dialingStale"}
  /\ task' = "waiting"
  /\ jump' = FALSE
  /\ slot' = IF task = "dialing" THEN "fresh" ELSE "stale"
  /\ UNCHANGED <<p, cmd, now, serveVars, supported, dialled, reattached, episodes, suspends>>

\* The dial of a standby: held, refused by an older serve, or failed.  A standby
\* whose dial began before a suspend is as old as the suspend.
StandbyDialed ==
  /\ task \in {"dialing", "dialingStale"}
  /\ task' = "waiting"
  /\ \/ /\ slot' = IF slot # "none" THEN slot
                   ELSE IF task = "dialing" THEN "fresh" ELSE "stale"
        /\ UNCHANGED supported
     \/ supported' = FALSE /\ UNCHANGED slot
     \/ UNCHANGED <<slot, supported>>
  /\ UNCHANGED <<p, cmd, now, serveVars, jump, dialled, reattached, episodes, suspends>>

-----------------------------------------------------------------------------
\* The host sleeps for longer than the task's intervals allow for.
HostSuspends ==
  /\ suspends < MaxSuspends
  /\ suspends' = suspends + 1
  /\ jump' = (task # "off")
  /\ slot' = IF slot = "none" THEN "none" ELSE "stale"
  /\ task' = IF task = "dialing" THEN "dialingStale" ELSE task
  /\ UNCHANGED <<p, cmd, now, serveVars, supported, dialled, reattached, episodes>>

\* serve restarts, evicts the session or reclaims it.
ServeForgets ==
  /\ known
  /\ known' = FALSE
  /\ UNCHANGED <<p, cmd, now, parkAt, standbyVars, dialled, reattached, episodes, suspends>>

Next ==
  \/ Disconnects \/ BackoffEnds \/ NetworkChangesInBackoff
  \/ DialSucceeds \/ DialGetsUnknownSession \/ DialFails \/ NothingToPromote \/ EpisodeEnds
  \/ StandbyTick \/ ProbeAnswers \/ StandbyDialed
  \/ HostSuspends \/ ServeForgets

Spec == Init /\ [][Next]_vars

-----------------------------------------------------------------------------
Recovering == p.phase = "Recovering"
LongestDial == 3 * StepTimeout

\* An episode is over one dial after its deadline, and no deadline is later than
\* what serve granted, whichever path the planner is on and however often the
\* deadline was moved.
EpisodeEndsInTime ==
  /\ Recovering => /\ p.deadline <= p.at + ResumeWindowFor(p.grace)
                   /\ cmd.op = "Backoff" => now + cmd.after <= p.deadline
                   /\ now <= p.deadline + LongestDial
  /\ p.phase = "GaveUp" => now <= p.deadline + LongestDial

\* continuity-lost is recorded only for an episode that dialled the relay: a switch
\* always leaves room for a dial before the deadline.
LostContinuityWasTried ==
  cmd.op = "GiveUp" /\ cmd.lost # "none" => "CrossFamily" \in dialled

\* Giving up because the session is gone is right: serve really does not have it,
\* also while serve is slow to notice that the old connection is dead.  (Unless a
\* RESUME of this very episode attached the session to a connection that died.)
SessionGoneIsReal ==
  cmd.op = "GiveUp" /\ cmd.reason = "SessionGone" => ~known \/ reattached

\* A standby from before a suspend is still in the slot only until the task's next
\* tick, which discards it.
StaleStandbyIsDropped == slot = "stale" => jump

=============================================================================
