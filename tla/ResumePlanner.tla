---------------------------- MODULE ResumePlanner ----------------------------
(***************************************************************************)
(* The reducer that decides, after `isekai-pipe connect` lost its data     *)
(* stream, where and when to resume and when to give up                    *)
(* (isekai-pipe/src/resume_fsm.rs).  Every event is an operator from the   *)
(* planner's state p to [p |-> next state, cmd |-> the command the shell   *)
(* has to carry out next].                                                 *)
(*                                                                         *)
(* Abstracted: display commands; the backoff schedule (the shell picks any *)
(* delay); the two counters, of failures and of UnknownSession answers,    *)
(* stop at the thresholds they are compared with; tokens, because the      *)
(* shell has one command outstanding and answers it before it takes the    *)
(* next (resume_with_backoff_until_deadline).                              *)
(***************************************************************************)
EXTENDS Integers, FiniteSetsExt

CONSTANTS
  ConfirmThreshold,   \* UNKNOWN_SESSION_CONFIRM_THRESHOLD
  ElapsedFloor,       \* UNKNOWN_SESSION_MIN_ELAPSED_FLOOR
  SwitchDeadline,     \* CROSS_FAMILY_SWITCH_DEADLINE
  ProbeBudget,        \* CROSS_FAMILY_MIN_PROBE_BUDGET
  SwitchAttempts,     \* STUN_TO_CROSS_FAMILY_SWITCH_ATTEMPTS
  DefaultWindow       \* DEFAULT_RESUME_WINDOW

ASSUME PlannerAssumption ==
  /\ ConfirmThreshold \in Nat \ {0} /\ SwitchAttempts \in Nat \ {0}
  /\ ElapsedFloor \in Nat /\ SwitchDeadline \in Nat \ {0}
  /\ ProbeBudget \in Nat \ {0} /\ DefaultWindow \in Nat \ {0}

NoClamp == -1     \* max_resume_window = None

DialPaths == {"WarmStandby", "Primary", "CrossFamily"}
AttemptFailures == {"UnknownSession", "Other", "ReplayFailed", "Unrecoverable"}

NoCmd == [op |-> "None"]
Backoff(after) == [op |-> "Backoff", after |-> after]
Dial(path) == [op |-> "Dial", path |-> path]
Resumed(path) == [op |-> "Resumed", path |-> path]
GiveUp(reason, lost) == [op |-> "GiveUp", reason |-> reason, lost |-> lost]
Out(p, cmd) == [p |-> p, cmd |-> cmd]

-----------------------------------------------------------------------------
ResumeWindowFor(grace) == IF grace = 0 THEN DefaultWindow ELSE grace

EffectiveWindow(grace, clamp) ==
  LET w == ResumeWindowFor(grace)
  IN  IF clamp = NoClamp THEN w ELSE Min({w, clamp})

\* A route is what is known when the connection is established: the grace the
\* server granted, the clamp of a STUN path, and which other paths there are.
NewPlanner(route) ==
  [phase |-> "Connected", grace |-> route.grace, cross |-> route.cross,
   standby |-> route.standby, window |-> EffectiveWindow(route.grace, route.clamp),
   onCross |-> FALSE, streak |-> 0,
   at |-> 0, deadline |-> 0, switched |-> FALSE, failures |-> 0, switchAfter |-> 0]

\* Phase::Connected: the Episode is dropped.
Connected(p) ==
  [p EXCEPT !.phase = "Connected", !.at = 0, !.deadline = 0, !.switched = FALSE,
            !.failures = 0, !.switchAfter = 0]

\* Millis::saturating_sub
Since(now, t) == Max({now - t, 0})

CrossFamilyProbeFits(remaining) == remaining >= ProbeBudget

\* Faulty variant: a switch however little time is left.
ShouldSwitchAnytime(failures, switchAfter, remaining) ==
  failures >= switchAfter \/ remaining <= SwitchDeadline

ShouldSwitch(failures, switchAfter, remaining) ==
  /\ CrossFamilyProbeFits(remaining)
  /\ failures >= switchAfter \/ remaining <= SwitchDeadline

CrossFamilyAvailable(p) == p.cross /\ ~p.onCross

DialPath(p) == IF p.onCross \/ p.switched THEN "CrossFamily" ELSE "Primary"

\* Faulty variant: the new deadline may lie past the grant.
SwitchToCrossFamilyUnclamped(p, now) ==
  [p EXCEPT !.deadline = now + SwitchDeadline, !.switched = TRUE]

\* The new deadline counts from the switch itself and stays inside the grant.
SwitchToCrossFamily(p, now) ==
  LET clamp == Max({Since(now, p.at) + SwitchDeadline, ElapsedFloor})
  IN  [p EXCEPT !.deadline = p.at + EffectiveWindow(p.grace, clamp), !.switched = TRUE]

ContinuityLost(p, reason) == IF p.onCross \/ p.switched THEN reason ELSE "none"

GivesUp(p, reason, lost) ==
  Out([p EXCEPT !.phase = "GaveUp"], GiveUp(reason, ContinuityLost(p, lost)))

LoopTop(p, now, delay) ==
  IF now >= p.deadline
    THEN GivesUp(p, "DeadlineExceeded", "RelayUnreachable")
    ELSE Out(p, Backoff(Min({delay, p.deadline - now})))

-----------------------------------------------------------------------------
(* apply *)

Disconnected(p, now, byNetworkChange, delay) ==
  LET ep == [p EXCEPT !.phase = "Recovering", !.at = now, !.deadline = now + p.window,
                      !.switched = FALSE, !.failures = 0,
                      !.switchAfter = IF byNetworkChange THEN 1 ELSE SwitchAttempts]
  IN  IF p.standby THEN Out(ep, Dial("WarmStandby")) ELSE LoopTop(ep, now, delay)

BackoffElapsed(p, now, networkChanged) ==
  LET switches == /\ networkChanged
                  /\ ~p.switched
                  /\ p.failures >= 1
                  /\ CrossFamilyProbeFits(Since(p.deadline, now))
                  /\ CrossFamilyAvailable(p)
      ep == IF switches THEN SwitchToCrossFamily(p, now) ELSE p
  IN  Out(ep, Dial(DialPath(ep)))

\* A RESUME_ACK shows that the session was known; a switch that succeeded is kept,
\* with the window of a relay.  A promotion changes neither.
AttemptOk(p, path) ==
  LET kept == [p EXCEPT !.onCross = TRUE, !.window = EffectiveWindow(p.grace, NoClamp)]
  IN  Out(IF path = "WarmStandby" THEN Connected(p)
          ELSE [Connected(IF p.switched THEN kept ELSE p) EXCEPT !.streak = 0],
          Resumed(path))

\* Faulty variant: three UnknownSession answers are proof, however early.
RedialFailedWithoutFloor(p, now, kind, delay) ==
  LET streak == IF kind = "UnknownSession" THEN p.streak + 1 ELSE 0
      ep     == [p EXCEPT !.streak = streak]
  IN  IF streak >= ConfirmThreshold THEN GivesUp(ep, "SessionGone", "SessionGone")
      ELSE LoopTop(ep, now, delay)

\* update_unknown_session_streak and the rest of a failed bare redial: the
\* give-up is decided before a switch.
RedialFailed(p, now, kind, delay) ==
  LET streak == IF kind = "UnknownSession" THEN Min({p.streak + 1, ConfirmThreshold}) ELSE 0
      gone   == streak >= ConfirmThreshold /\ Since(now, p.at) >= ElapsedFloor
      ep     == [p EXCEPT !.streak = streak,
                          !.failures = IF p.switched THEN @ ELSE Min({@ + 1, SwitchAttempts})]
      switches == /\ ~ep.switched
                  /\ ShouldSwitch(ep.failures, ep.switchAfter, Since(ep.deadline, now))
                  /\ CrossFamilyAvailable(ep)
  IN  IF gone THEN GivesUp(ep, "SessionGone", "SessionGone")
      ELSE LoopTop(IF switches THEN SwitchToCrossFamily(ep, now) ELSE ep, now, delay)

AttemptFailed(p, path, now, kind, delay) ==
  IF path = "WarmStandby" THEN LoopTop(p, now, delay)
  ELSE CASE kind = "Unrecoverable" -> GivesUp(p, "SessionUnrecoverable", "SessionGone")
         [] kind = "ReplayFailed"  -> LoopTop([p EXCEPT !.streak = 0], now, delay)
         [] OTHER                  -> RedialFailed(p, now, kind, delay)

=============================================================================
