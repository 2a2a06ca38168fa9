------------------------ MODULE ConnectResumeProofs ------------------------
(***************************************************************************)
(* What run_resume_loop and the resume planner guarantee of an episode,    *)
(* for every timeout, window, threshold and delay: it ends in time, a lost *)
(* continuity was tried for, a session given up as gone really is, and no  *)
(* standby from before a suspend survives the next tick.                   *)
(*                                                                         *)
(* The planner is a reducer, so its part of the argument is one lemma for  *)
(* each of its operators, about any planner q and any time t.  What makes  *)
(* the deadline bound inductive is that a dial starts no later than the    *)
(* deadline, that a switch to the cross-family relay happens only strictly *)
(* before it, and that the deadline set by the switch is again ahead.      *)
(***************************************************************************)
EXTENDS ConnectResume, TLAPS

Planners ==
  [phase : {"Connected", "Recovering", "GaveUp"}, grace : Nat, cross : BOOLEAN,
   standby : BOOLEAN, window : Nat, onCross : BOOLEAN, streak : Nat,
   at : Nat, deadline : Nat, switched : BOOLEAN, failures : Nat, switchAfter : Nat]

\* The greater of two numbers.
LEMMA MaxOfTwo ==
  ASSUME NEW a \in Int, NEW b \in Int
  PROVE  Max({a, b}) = IF a >= b THEN a ELSE b
<1>1. \A x \in {a, b} : (\A y \in {a, b} : x >= y) => x = IF a >= b THEN a ELSE b
  OBVIOUS
<1>2. \E x \in {a, b} : \A y \in {a, b} : x >= y
  OBVIOUS
<1> QED BY <1>1, <1>2 DEF Max

\* The smaller of two numbers.
LEMMA MinOfTwo ==
  ASSUME NEW a \in Int, NEW b \in Int
  PROVE  Min({a, b}) = IF a <= b THEN a ELSE b
<1>1. \A x \in {a, b} : (\A y \in {a, b} : x =< y) => x = IF a <= b THEN a ELSE b
  OBVIOUS
<1>2. \E x \in {a, b} : \A y \in {a, b} : x =< y
  OBVIOUS
<1> QED BY <1>1, <1>2 DEF Min

\* saturating_sub is the difference where there is one.
LEMMA SinceIs ==
  ASSUME NEW t \in Nat, NEW u \in Nat
  PROVE  /\ Since(t, u) = IF t >= u THEN t - u ELSE 0
         /\ Since(t, u) \in Nat
  BY MaxOfTwo DEF Since

\* Room for a probe means that the deadline is still ahead.
LEMMA ProbeFitsBefore ==
  ASSUME NEW t \in Nat, NEW u \in Nat, CrossFamilyProbeFits(Since(u, t))
  PROVE  t < u
<1>1. Since(u, t) = IF u >= t THEN u - t ELSE 0
  BY SinceIs
<1>2. Since(u, t) >= ProbeBudget /\ ProbeBudget > 0 /\ ProbeBudget \in Nat
  BY PlannerAssumption DEF CrossFamilyProbeFits
<1> QED BY <1>1, <1>2

\* A window is positive and a clamp only shortens it.
LEMMA Windows ==
  ASSUME NEW grace \in Nat, NEW clamp \in Nat \cup {NoClamp}
  PROVE  /\ ResumeWindowFor(grace) \in Nat \ {0}
         /\ EffectiveWindow(grace, clamp) \in Nat
         /\ EffectiveWindow(grace, clamp) <= ResumeWindowFor(grace)
         /\ EffectiveWindow(grace, NoClamp) = ResumeWindowFor(grace)
         /\ clamp # NoClamp => EffectiveWindow(grace, clamp)
                                 = IF ResumeWindowFor(grace) <= clamp
                                     THEN ResumeWindowFor(grace) ELSE clamp
  BY PlannerAssumption, MinOfTwo DEF ResumeWindowFor, EffectiveWindow, NoClamp

-----------------------------------------------------------------------------
(* The planner. *)

\* What every phase keeps of the routes and the windows.
Routed(q) ==
  /\ q \in Planners
  /\ q.cross => ~q.standby
  /\ q.onCross \/ q.switched => q.cross
  /\ q.window <= ResumeWindowFor(q.grace)
  /\ q.onCross => q.window = ResumeWindowFor(q.grace)

\* An episode at time t: it has begun, and its deadline is within the grant.
InEpisode(q, t) ==
  /\ Routed(q)
  /\ q.phase = "Recovering"
  /\ q.at <= t
  /\ q.at <= q.deadline
  /\ q.deadline <= q.at + ResumeWindowFor(q.grace)

PathOf(q, path) ==
  \/ path = "WarmStandby" /\ q.standby
  \/ path = DialPath(q)

\* A command the planner may have outstanding in an episode at time t.
Waits(q, t, c) ==
  \/ \E after \in Nat : c = Backoff(after) /\ t + after <= q.deadline
  \/ \E path \in DialPaths : c = Dial(path) /\ PathOf(q, path) /\ t <= q.deadline

\* Whoever waits has not given up.
LEMMA WaitsFor ==
  ASSUME NEW q, NEW t, NEW c, Waits(q, t, c)
  PROVE  c.op # "GiveUp"
  BY DEF Waits, Backoff, Dial

LastWords(q, c) ==
  \E reason \in {"DeadlineExceeded", "SessionGone", "SessionUnrecoverable"},
     lost \in {"none", "RelayUnreachable", "SessionGone"} :
    c = GiveUp(reason, lost) /\ (lost # "none" => q.onCross \/ q.switched)

\* What a reducer of an episode returns at time t.
Continues(o, t) ==
  \/ InEpisode(o.p, t) /\ Waits(o.p, t, o.cmd)
  \/ /\ Routed(o.p) /\ o.p.phase = "GaveUp"
     /\ LastWords(o.p, o.cmd)

\* Giving up in an episode keeps the planner but for its phase.
LEMMA GivesUpIs ==
  ASSUME NEW q, NEW t \in Nat, InEpisode(q, t),
         NEW reason \in {"DeadlineExceeded", "SessionGone", "SessionUnrecoverable"},
         NEW lost \in {"RelayUnreachable", "SessionGone"}
  PROVE  LET o == GivesUp(q, reason, lost)
         IN  /\ Continues(o, t) /\ o.p.phase = "GaveUp"
             /\ o.p.deadline = q.deadline /\ o.p.at = q.at
             /\ o.cmd.op = "GiveUp" /\ o.cmd.reason = reason
             /\ o.cmd.lost # "none" => q.onCross \/ q.switched
<1> DEFINE r == [q EXCEPT !.phase = "GaveUp"]
<1>1. /\ r \in Planners /\ r.phase = "GaveUp" /\ r.cross = q.cross /\ r.standby = q.standby
      /\ r.onCross = q.onCross /\ r.switched = q.switched /\ r.window = q.window
      /\ r.grace = q.grace /\ r.deadline = q.deadline /\ r.at = q.at
  BY DEF InEpisode, Routed, Planners
<1>2. Routed(r)
  BY <1>1 DEF InEpisode, Routed
<1>3. GivesUp(q, reason, lost) = Out(r, GiveUp(reason, ContinuityLost(q, lost)))
  BY DEF GivesUp
<1>4. /\ ContinuityLost(q, lost) \in {"none", "RelayUnreachable", "SessionGone"}
      /\ ContinuityLost(q, lost) # "none" => q.onCross \/ q.switched
  BY DEF ContinuityLost
<1>5. LastWords(r, GiveUp(reason, ContinuityLost(q, lost)))
  BY <1>1, <1>4 DEF LastWords
<1> HIDE DEF r
<1> QED BY <1>1, <1>2, <1>3, <1>4, <1>5 DEF Continues, Out, GiveUp

\* The top of the loop gives up at the deadline or waits, but not beyond it.
LEMMA LoopTopIs ==
  ASSUME NEW q, NEW t \in Nat, InEpisode(q, t), NEW delay \in Nat
  PROVE  LET o == LoopTop(q, t, delay)
         IN  /\ Continues(o, t)
             /\ o.p.deadline = q.deadline /\ o.p.at = q.at
             /\ o.p.phase = "GaveUp" => /\ q.deadline <= t
                                        /\ o.cmd.reason = "DeadlineExceeded"
                                        /\ o.cmd.lost # "none" => q.onCross \/ q.switched
             /\ o.p.phase # "GaveUp" => o.p = q
<1>0. q \in Planners /\ q.deadline \in Nat
  BY DEF InEpisode, Routed, Planners
<1>1. CASE t >= q.deadline
  BY <1>0, <1>1, GivesUpIs DEF LoopTop
<1>2. CASE t < q.deadline
  <2> DEFINE after == Min({delay, q.deadline - t})
  <2>1. after \in Nat /\ t + after <= q.deadline
    BY <1>0, <1>2, MinOfTwo
  <2>2. LoopTop(q, t, delay) = Out(q, Backoff(after))
    BY <1>0, <1>2 DEF LoopTop
  <2>3. Waits(q, t, Backoff(after))
    BY <2>1 DEF Waits
  <2> QED BY <1>0, <1>2, <2>2, <2>3 DEF Continues, Out, InEpisode
<1> QED BY <1>0, <1>1, <1>2

\* A switch at a time before the deadline leaves a deadline ahead, within the grant.
LEMMA SwitchIs ==
  ASSUME NEW q, NEW t \in Nat, InEpisode(q, t), t < q.deadline, CrossFamilyAvailable(q)
  PROVE  LET r == SwitchToCrossFamily(q, t)
         IN  InEpisode(r, t) /\ t < r.deadline /\ r.switched /\ r.at = q.at
<1> DEFINE clamp == Max({Since(t, q.at) + SwitchDeadline, ElapsedFloor})
           w == EffectiveWindow(q.grace, clamp)
           r == SwitchToCrossFamily(q, t)
<1>0. /\ q \in Planners /\ q.at \in Nat /\ q.deadline \in Nat /\ q.grace \in Nat
      /\ q.at <= t /\ q.deadline <= q.at + ResumeWindowFor(q.grace)
  BY DEF InEpisode, Routed, Planners
<1>1. Since(t, q.at) = t - q.at
  BY <1>0, SinceIs
<1>2. clamp \in Nat /\ clamp > t - q.at
  BY <1>0, <1>1, MaxOfTwo, PlannerAssumption
<1>3. r = [q EXCEPT !.deadline = q.at + w, !.switched = TRUE]
  BY DEF SwitchToCrossFamily
<1> HIDE DEF clamp, w, r
<1>4. clamp # NoClamp /\ clamp \in Nat \cup {NoClamp} /\ w = EffectiveWindow(q.grace, clamp)
  BY <1>2 DEF NoClamp, w
<1>5. /\ w \in Nat /\ w <= ResumeWindowFor(q.grace)
      /\ w = IF ResumeWindowFor(q.grace) <= clamp THEN ResumeWindowFor(q.grace) ELSE clamp
      /\ ResumeWindowFor(q.grace) \in Nat
  BY <1>0, <1>4, Windows
<1>6. t < q.at + w
  BY <1>0, <1>2, <1>5
<1>7. q.at + w \in Nat
  BY <1>0, <1>5
<1>8. r \in Planners /\ r.switched = TRUE /\ r.deadline = q.at + w
  BY <1>0, <1>3, <1>7 DEF Planners
<1>9. /\ r.phase = q.phase /\ r.cross = q.cross /\ r.standby = q.standby
      /\ r.onCross = q.onCross /\ r.window = q.window
      /\ r.grace = q.grace /\ r.at = q.at
  BY <1>0, <1>3 DEF Planners
<1>10. InEpisode(r, t)
  BY <1>0, <1>5, <1>6, <1>7, <1>8, <1>9 DEF InEpisode, Routed, CrossFamilyAvailable
<1> QED BY <1>6, <1>8, <1>9, <1>10 DEF r

\* A backoff that ended by its delay or a network change is followed by a dial.
LEMMA BackoffElapsedIs ==
  ASSUME NEW q, NEW t \in Nat, InEpisode(q, t), t <= q.deadline, NEW changed \in BOOLEAN
  PROVE  LET o == BackoffElapsed(q, t, changed)
         IN  InEpisode(o.p, t) /\ Waits(o.p, t, o.cmd) /\ o.p.at = q.at
<1> DEFINE switches == /\ changed /\ ~q.switched /\ q.failures >= 1
                       /\ CrossFamilyProbeFits(Since(q.deadline, t))
                       /\ CrossFamilyAvailable(q)
           ep == IF switches THEN SwitchToCrossFamily(q, t) ELSE q
<1>0. q.deadline \in Nat
  BY DEF InEpisode, Routed, Planners
<1>1. switches => t < q.deadline
  BY <1>0, ProbeFitsBefore
<1>2. InEpisode(ep, t) /\ t <= ep.deadline /\ ep.at = q.at
  <2>1. CASE switches
    <3>1. ep.deadline \in Nat
      BY <1>1, <2>1, SwitchIs DEF InEpisode, Routed, Planners
    <3> QED BY <1>1, <2>1, <3>1, SwitchIs
  <2>2. CASE ~switches
    BY <2>2
  <2> QED BY <2>1, <2>2
<1>3. BackoffElapsed(q, t, changed) = Out(ep, Dial(DialPath(ep)))
  BY DEF BackoffElapsed
<1> HIDE DEF ep
<1>4. Waits(ep, t, Dial(DialPath(ep)))
  BY <1>2 DEF Waits, PathOf, DialPath, DialPaths
<1> QED BY <1>2, <1>3, <1>4 DEF Out

\* r is q but for its counters of failures and answers.
Recounted(r, q) ==
  /\ r \in Planners
  /\ r.phase = q.phase /\ r.grace = q.grace /\ r.cross = q.cross /\ r.standby = q.standby
  /\ r.window = q.window /\ r.onCross = q.onCross /\ r.switched = q.switched
  /\ r.at = q.at /\ r.deadline = q.deadline

\* The counters decide nothing else about an episode.
LEMMA RecountedIs ==
  ASSUME NEW q, NEW r, NEW t \in Nat, InEpisode(q, t), Recounted(r, q)
  PROVE  InEpisode(r, t)
  BY DEF InEpisode, Routed, Recounted

\* What becomes of an episode when a dial has failed at time t.
FailsTo(q, t, kind, o) ==
  /\ Continues(o, t)
  /\ o.p.at = q.at
  /\ o.p.phase = "GaveUp" =>
       /\ o.p.deadline = q.deadline
       /\ o.cmd.lost # "none" => q.onCross \/ q.switched
       /\ o.cmd.reason = "SessionGone" => kind = "UnknownSession" /\ t - q.at >= ElapsedFloor

\* A redial that failed.
LEMMA RedialFailedIs ==
  ASSUME NEW q, NEW t \in Nat, InEpisode(q, t), NEW kind, NEW delay \in Nat
  PROVE  FailsTo(q, t, kind, RedialFailed(q, t, kind, delay))
<1> DEFINE streak == IF kind = "UnknownSession" THEN Min({q.streak + 1, ConfirmThreshold}) ELSE 0
           failures == IF q.switched THEN q.failures ELSE Min({q.failures + 1, SwitchAttempts})
           gone == streak >= ConfirmThreshold /\ Since(t, q.at) >= ElapsedFloor
           ep == [q EXCEPT !.streak = streak, !.failures = failures]
           switches == /\ ~ep.switched
                       /\ ShouldSwitch(ep.failures, ep.switchAfter, Since(ep.deadline, t))
                       /\ CrossFamilyAvailable(ep)
           o == RedialFailed(q, t, kind, delay)
<1>0. /\ q.streak \in Nat /\ q.failures \in Nat /\ q.at \in Nat /\ q.deadline \in Nat
      /\ q \in Planners /\ q.at <= t
  BY DEF InEpisode, Routed, Planners
<1>1. streak \in Nat /\ failures \in Nat
  BY <1>0, MinOfTwo, PlannerAssumption
<1>2. gone => kind = "UnknownSession" /\ t - q.at >= ElapsedFloor
  <2>1. Since(t, q.at) = t - q.at
    BY <1>0, SinceIs
  <2>2. streak # 0 => kind = "UnknownSession"
    OBVIOUS
  <2>3. gone => streak # 0
    BY PlannerAssumption
  <2> QED BY <2>1, <2>2, <2>3
<1>3. o = IF gone THEN GivesUp(ep, "SessionGone", "SessionGone")
          ELSE LoopTop(IF switches THEN SwitchToCrossFamily(ep, t) ELSE ep, t, delay)
  BY <1>0 DEF RedialFailed, Planners
<1> HIDE DEF streak, failures, gone
<1>4. Recounted(ep, q)
  BY <1>0, <1>1 DEF Recounted, Planners
<1> HIDE DEF ep
<1>10. InEpisode(ep, t)
  BY <1>4, RecountedIs
<1>11. FailsTo(ep, t, kind, o) => FailsTo(q, t, kind, o)
  BY <1>4 DEF FailsTo, Recounted
<1>5. switches => t < ep.deadline
  <2>1. ep.deadline \in Nat
    BY <1>0, <1>4 DEF Recounted
  <2> QED BY <2>1, ProbeFitsBefore DEF ShouldSwitch
<1>6. CASE gone
  <2>1. o = GivesUp(ep, "SessionGone", "SessionGone")
    BY <1>3, <1>6
  <2>2. ep.at = q.at
    BY <1>4 DEF Recounted
  <2> HIDE DEF o
  <2>3. FailsTo(ep, t, kind, o)
    BY <1>10, <1>2, <1>6, <2>1, <2>2, GivesUpIs DEF FailsTo
  <2> QED BY <1>11, <2>3 DEF o
<1>7. CASE ~gone /\ switches
  <2> DEFINE r == SwitchToCrossFamily(ep, t)
  <2>1. InEpisode(r, t) /\ t < r.deadline /\ r.at = ep.at
    BY <1>10, <1>5, <1>7, SwitchIs
  <2>2. o = LoopTop(r, t, delay)
    BY <1>3, <1>7
  <2>3. r.deadline \in Nat
    BY <2>1 DEF InEpisode, Routed, Planners
  <2> HIDE DEF o, r
  <2>4. Continues(o, t) /\ o.p.at = r.at /\ o.p.phase # "GaveUp"
    BY <2>1, <2>2, <2>3, LoopTopIs
  <2>5. FailsTo(ep, t, kind, o)
    BY <2>1, <2>4 DEF FailsTo
  <2> QED BY <1>11, <2>5 DEF o
<1>8. CASE ~gone /\ ~switches
  <2>1. o = LoopTop(ep, t, delay)
    BY <1>3, <1>8
  <2> HIDE DEF o
  <2>2. FailsTo(ep, t, kind, o)
    BY <1>10, <2>1, LoopTopIs DEF FailsTo
  <2> QED BY <1>11, <2>2 DEF o
<1> QED BY <1>6, <1>7, <1>8

\* Any dial that failed.
LEMMA AttemptFailedIs ==
  ASSUME NEW q, NEW t \in Nat, InEpisode(q, t), NEW path, NEW kind \in AttemptFailures,
         NEW delay \in Nat
  PROVE  FailsTo(q, t, kind, AttemptFailed(q, path, t, kind, delay))
<1> DEFINE o == AttemptFailed(q, path, t, kind, delay)
           r == [q EXCEPT !.streak = 0]
<1>1. \/ o = LoopTop(q, t, delay)
      \/ o = GivesUp(q, "SessionUnrecoverable", "SessionGone")
      \/ o = LoopTop(r, t, delay)
      \/ o = RedialFailed(q, t, kind, delay)
  BY DEF AttemptFailed, AttemptFailures
<1>2. q \in Planners
  BY DEF InEpisode, Routed
<1>3. Recounted(r, q)
  BY <1>2 DEF Planners, Recounted
<1> HIDE DEF o, r
<1>4. InEpisode(r, t)
  BY <1>3, RecountedIs
<1>5. o = LoopTop(q, t, delay) => FailsTo(q, t, kind, o)
  BY LoopTopIs DEF FailsTo
<1>6. o = GivesUp(q, "SessionUnrecoverable", "SessionGone") => FailsTo(q, t, kind, o)
  BY GivesUpIs DEF FailsTo
<1>7. o = LoopTop(r, t, delay) => FailsTo(q, t, kind, o)
  <2>1. o = LoopTop(r, t, delay) => FailsTo(r, t, kind, o)
    BY <1>4, LoopTopIs DEF FailsTo
  <2> QED BY <1>3, <2>1 DEF FailsTo, Recounted
<1>8. o = RedialFailed(q, t, kind, delay) => FailsTo(q, t, kind, o)
  BY RedialFailedIs
<1> QED BY <1>1, <1>5, <1>6, <1>7, <1>8 DEF o

\* Between episodes.
AtRest(q) == Routed(q) /\ q.phase = "Connected" /\ ~q.switched

\* A disconnect begins an episode at its own time.  A planner that stays on the
\* relay has a window, so it does not give up before it has dialled.
LEMMA DisconnectedIs ==
  ASSUME NEW q, NEW t \in Nat, AtRest(q), NEW byNetworkChange \in BOOLEAN, NEW delay \in Nat
  PROVE  LET o == Disconnected(q, t, byNetworkChange, delay)
         IN  /\ Continues(o, t) /\ o.p.at = t /\ t <= o.p.deadline
             /\ o.p.phase = "GaveUp" => o.cmd.lost = "none" /\ o.cmd.reason # "SessionGone"
<1> DEFINE after == IF byNetworkChange THEN 1 ELSE SwitchAttempts
           ep == [q EXCEPT !.phase = "Recovering", !.at = t, !.deadline = t + q.window,
                           !.switched = FALSE, !.failures = 0, !.switchAfter = after]
           o == Disconnected(q, t, byNetworkChange, delay)
<1>0. /\ q \in Planners /\ q.window \in Nat /\ q.grace \in Nat /\ q.standby \in BOOLEAN
      /\ ResumeWindowFor(q.grace) \in Nat \ {0}
  BY Windows DEF AtRest, Routed, Planners
<1>1. after \in Nat /\ t + q.window \in Nat
  BY <1>0, PlannerAssumption
<1>2. o = IF q.standby THEN Out(ep, Dial("WarmStandby")) ELSE LoopTop(ep, t, delay)
  BY DEF Disconnected
<1> HIDE DEF after
<1>3. /\ ep \in Planners /\ ep.phase = "Recovering" /\ ep.at = t
      /\ ep.deadline = t + q.window /\ ep.switched = FALSE
  BY <1>0, <1>1 DEF Planners
<1>4. /\ ep.grace = q.grace /\ ep.cross = q.cross /\ ep.standby = q.standby
      /\ ep.window = q.window /\ ep.onCross = q.onCross
  BY <1>0 DEF Planners
<1> HIDE DEF ep
<1>5. InEpisode(ep, t) /\ t <= ep.deadline
  BY <1>0, <1>3, <1>4 DEF InEpisode, AtRest, Routed
<1>6. ep.onCross => t < ep.deadline
  BY <1>0, <1>3, <1>4 DEF AtRest, Routed
<1>7. CASE q.standby
  <2>1. o = Out(ep, Dial("WarmStandby"))
    BY <1>2, <1>7
  <2>2. Waits(ep, t, Dial("WarmStandby"))
    BY <1>4, <1>5, <1>7 DEF Waits, PathOf, DialPaths
  <2> HIDE DEF o
  <2>3. o.p = ep /\ o.cmd = Dial("WarmStandby")
    BY <2>1 DEF Out
  <2>4. Continues(o, t) /\ o.p.at = t /\ t <= o.p.deadline /\ o.p.phase # "GaveUp"
    BY <1>3, <1>5, <2>2, <2>3 DEF Continues
  <2> QED BY <2>4 DEF o
<1>8. CASE ~q.standby
  <2>1. o = LoopTop(ep, t, delay)
    BY <1>2, <1>8
  <2> HIDE DEF o
  <2>2. /\ Continues(o, t) /\ o.p.deadline = ep.deadline /\ o.p.at = ep.at
        /\ o.p.phase = "GaveUp" => /\ ep.deadline <= t
                                   /\ o.cmd.reason = "DeadlineExceeded"
                                   /\ o.cmd.lost # "none" => ep.onCross \/ ep.switched
    BY <1>5, <2>1, LoopTopIs
  <2>3. ~(ep.deadline <= t /\ ep.onCross)
    BY <1>0, <1>1, <1>3, <1>6
  <2>4. o.p.phase = "GaveUp" => o.cmd.lost = "none" /\ o.cmd.reason # "SessionGone"
    BY <1>3, <2>2, <2>3
  <2> QED BY <1>3, <1>5, <2>2, <2>4 DEF o
<1> QED BY <1>7, <1>8

\* A resume that succeeded ends the episode; a switch that succeeded is kept.
LEMMA AttemptOkIs ==
  ASSUME NEW q, NEW t \in Nat, InEpisode(q, t), NEW path
  PROVE  AtRest(AttemptOk(q, path).p) /\ AttemptOk(q, path).cmd = Resumed(path)
<1> DEFINE full == EffectiveWindow(q.grace, NoClamp)
           kept == [q EXCEPT !.onCross = TRUE, !.window = full]
           used == IF q.switched THEN kept ELSE q
           done == IF path = "WarmStandby" THEN Connected(q)
                   ELSE [Connected(used) EXCEPT !.streak = 0]
<1>0. /\ q \in Planners /\ q.grace \in Nat
      /\ full \in Nat /\ full = ResumeWindowFor(q.grace)
  BY Windows DEF InEpisode, Routed, Planners
<1>1. AttemptOk(q, path) = Out(done, Resumed(path))
  BY DEF AttemptOk
<1> HIDE DEF full
<1>2. Routed(used)
  <2>1. kept \in Planners /\ kept.onCross = TRUE /\ kept.window = full
    BY <1>0 DEF Planners
  <2>2. /\ kept.cross = q.cross /\ kept.standby = q.standby /\ kept.grace = q.grace
        /\ kept.switched = q.switched
    BY <1>0 DEF Planners
  <2> HIDE DEF kept
  <2>3. q.switched => Routed(kept)
    BY <1>0, <2>1, <2>2 DEF InEpisode, Routed
  <2> QED BY <2>3 DEF InEpisode
<1> HIDE DEF kept, used
<1>3. ASSUME NEW r, Routed(r)
      PROVE  AtRest(Connected(r)) /\ AtRest([Connected(r) EXCEPT !.streak = 0])
  <2> DEFINE c == Connected(r)
             d == [c EXCEPT !.streak = 0]
  <2>0. r \in Planners
    BY <1>3 DEF Routed
  <2>1. c \in Planners /\ c.phase = "Connected" /\ c.switched = FALSE
    BY <2>0 DEF Connected, Planners
  <2>2. /\ c.cross = r.cross /\ c.standby = r.standby /\ c.grace = r.grace
        /\ c.onCross = r.onCross /\ c.window = r.window
    BY <2>0 DEF Connected, Planners
  <2> HIDE DEF c
  <2>3. Recounted(d, c)
    BY <2>1 DEF Recounted, Planners
  <2>4. Routed(c)
    BY <1>3, <2>1, <2>2 DEF Routed
  <2> HIDE DEF d
  <2>5. AtRest(c) /\ AtRest(d)
    BY <2>1, <2>3, <2>4 DEF AtRest, Routed, Recounted
  <2> QED BY <2>5 DEF c, d
<1>4. AtRest(done)
  BY <1>2, <1>3 DEF InEpisode
<1> HIDE DEF done
<1> QED BY <1>1, <1>4 DEF Out

-----------------------------------------------------------------------------
(* The shell. *)

\* The planner, its outstanding command and the clock fit together.
PhaseInv ==
  \/ AtRest(p) /\ (cmd = NoCmd \/ \E path \in DialPaths : cmd = Resumed(path))
  \/ InEpisode(p, now) /\ Waits(p, now, cmd)
  \/ /\ Routed(p) /\ p.phase = "GaveUp"
     /\ now <= p.deadline + LongestDial
     /\ cmd = NoCmd \/ LastWords(p, cmd)

\* serve notices the loss of this episode's connection within its idle timeout.
ServeInv ==
  p.phase = "Recovering" /\ ~reattached => parkAt \in Nat /\ parkAt <= p.at + IdleTimeout

\* A standby that is as old as a suspend, or will be, meets a jump of the clock.
StandbyInv ==
  /\ slot = "stale" => jump
  /\ task = "dialingStale" => jump
  /\ task = "off" => slot = "none"

\* What the last words of an episode claim is so.
VerdictInv == LostContinuityWasTried /\ SessionGoneIsReal

\* The inductive invariant.
IInv ==
  /\ now \in Nat /\ known \in BOOLEAN /\ reattached \in BOOLEAN /\ parkAt \in Nat \cup {Never}
  /\ PhaseInv /\ ServeInv /\ StandbyInv /\ VerdictInv

\* A new connection satisfies the invariant.
LEMMA InitInv == Init => IInv
<1> SUFFICES ASSUME Init PROVE IInv
  OBVIOUS
<1>1. PICK r \in Routes : p = NewPlanner(r) /\ task = IF r.standby THEN "waiting" ELSE "off"
  BY DEF Init
<1>2. /\ r.grace \in Nat /\ r.clamp \in Nat \cup {NoClamp} /\ r.cross \in BOOLEAN
      /\ r.standby \in BOOLEAN /\ ~(r.cross /\ r.standby)
  BY ShellAssumption
<1>3. /\ EffectiveWindow(r.grace, r.clamp) \in Nat
      /\ EffectiveWindow(r.grace, r.clamp) <= ResumeWindowFor(r.grace)
  BY <1>2, Windows
<1>4. /\ p \in Planners /\ p.phase = "Connected" /\ p.switched = FALSE /\ p.onCross = FALSE
      /\ p.cross = r.cross /\ p.standby = r.standby /\ p.grace = r.grace
      /\ p.window = EffectiveWindow(r.grace, r.clamp)
  BY <1>1, <1>2, <1>3 DEF NewPlanner, Planners
<1>5. AtRest(p)
  BY <1>2, <1>3, <1>4 DEF AtRest, Routed
<1>6. cmd = NoCmd /\ cmd.op = "None" /\ now = 0 /\ known = TRUE /\ reattached = FALSE
      /\ parkAt = Never /\ slot = "none" /\ jump = FALSE
  BY DEF Init, NoCmd
<1>7. PhaseInv
  BY <1>5, <1>6 DEF PhaseInv
<1>8. ServeInv /\ VerdictInv
  BY <1>4, <1>6 DEF ServeInv, VerdictInv, LostContinuityWasTried, SessionGoneIsReal
<1>9. StandbyInv
  BY <1>1, <1>6 DEF StandbyInv
<1> QED BY <1>6, <1>7, <1>8, <1>9 DEF IInv

\* What a planner at rest, in an episode or past one has outstanding.
LEMMA OutstandingIs ==
  ASSUME IInv
  PROVE  /\ cmd.op = "Backoff" => InEpisode(p, now) /\ cmd.after \in Nat
                                    /\ now + cmd.after <= p.deadline
         /\ cmd.op = "Dial" => InEpisode(p, now) /\ cmd.path \in DialPaths
                                 /\ PathOf(p, cmd.path) /\ now <= p.deadline
         /\ cmd.op = "Resumed" => AtRest(p)
         /\ cmd.op = "GiveUp" => /\ Routed(p) /\ p.phase = "GaveUp"
                                 /\ now <= p.deadline + LongestDial
         /\ p.phase = "Connected" => AtRest(p)
         /\ p.phase = "Recovering" => InEpisode(p, now) /\ Waits(p, now, cmd)
         /\ p.phase = "GaveUp" => now <= p.deadline + LongestDial
<1>1. CASE AtRest(p) /\ (cmd = NoCmd \/ \E path \in DialPaths : cmd = Resumed(path))
  BY <1>1 DEF AtRest, NoCmd, Resumed
<1>2. CASE InEpisode(p, now) /\ Waits(p, now, cmd)
  <2>1. \/ /\ cmd.op = "Backoff" /\ cmd.after \in Nat /\ now + cmd.after <= p.deadline
        \/ /\ cmd.op = "Dial" /\ cmd.path \in DialPaths /\ PathOf(p, cmd.path)
           /\ now <= p.deadline
    BY <1>2 DEF Waits, Backoff, Dial
  <2>2. p.phase = "Recovering"
    BY <1>2 DEF InEpisode
  <2> QED BY <1>2, <2>1, <2>2
<1>3. CASE /\ Routed(p) /\ p.phase = "GaveUp" /\ now <= p.deadline + LongestDial
           /\ cmd = NoCmd \/ LastWords(p, cmd)
  <2>1. cmd.op \in {"None", "GiveUp"}
    BY <1>3 DEF LastWords, NoCmd, GiveUp
  <2> QED BY <1>3, <2>1
<1> QED BY <1>1, <1>2, <1>3 DEF IInv, PhaseInv

\* An episode that goes on, or that ends no later than a dial after its deadline,
\* is one that the invariant allows.
LEMMA AppliedIs ==
  ASSUME NEW o, Apply(o), now' \in Nat, Continues(o, now'),
         o.p.phase = "GaveUp" => now' <= o.p.deadline + LongestDial
  PROVE  /\ PhaseInv'
         /\ cmd'.op = "GiveUp" => o.p.phase = "GaveUp"
<1>1. p' = o.p /\ cmd' = o.cmd
  BY DEF Apply
<1>2. PhaseInv'
  <2>1. CASE InEpisode(o.p, now') /\ Waits(o.p, now', o.cmd)
    <3>1. InEpisode(p', now') /\ Waits(p', now', cmd')
      BY <1>1, <2>1
    <3> QED BY <3>1 DEF PhaseInv, InEpisode, Routed, Planners, Waits, PathOf, DialPath,
                        ResumeWindowFor, Backoff, Dial, DialPaths
  <2>2. CASE Routed(o.p) /\ o.p.phase = "GaveUp" /\ LastWords(o.p, o.cmd)
    <3>1. Routed(p') /\ p'.phase = "GaveUp" /\ LastWords(p', cmd')
          /\ now' <= p'.deadline + LongestDial
      BY <1>1, <2>2
    <3> QED BY <3>1 DEF PhaseInv, Routed, Planners, LastWords, ResumeWindowFor, GiveUp, LongestDial
  <2> QED BY <2>1, <2>2 DEF Continues
<1>3. cmd'.op = "GiveUp" => o.p.phase = "GaveUp"
  BY <1>1, WaitsFor DEF Continues
<1> QED BY <1>2, <1>3

\* The timeouts as numbers.
LEMMA Sizes ==
  /\ StepTimeout \in Nat /\ IdleTimeout \in Nat /\ ElapsedFloor \in Nat
  /\ LongestDial \in Nat /\ ElapsedFloor >= IdleTimeout + StepTimeout
  BY ShellAssumption, FloorAssumption, PlannerAssumption DEF LongestDial

\* An episode goes on as time passes.
LEMMA Later ==
  ASSUME NEW q, NEW t \in Nat, InEpisode(q, t), NEW u \in Nat, t <= u
  PROVE  InEpisode(q, u)
  BY DEF InEpisode, Routed, Planners

\* A dial that fails, whatever its path, its kind and its duration.
LEMMA FailedDialIs ==
  ASSUME IInv, cmd.op = "Dial", now' \in Nat, now <= now', now' <= now + LongestDial,
         NEW kind \in AttemptFailures, NEW delay \in Delays,
         Apply(AttemptFailed(p, cmd.path, now', kind, delay))
  PROVE  /\ PhaseInv' /\ p'.at = p.at /\ p.phase = "Recovering"
         /\ cmd'.op = "GiveUp" =>
              /\ cmd'.lost # "none" => cmd.path = "CrossFamily"
              /\ cmd'.reason = "SessionGone" =>
                   kind = "UnknownSession" /\ now' - p.at >= ElapsedFloor
<1> DEFINE o == AttemptFailed(p, cmd.path, now', kind, delay)
<1>0. delay \in Nat /\ now \in Nat
  BY ShellAssumption DEF IInv
<1>1. InEpisode(p, now) /\ PathOf(p, cmd.path) /\ now <= p.deadline
  BY OutstandingIs
<1>2. InEpisode(p, now')
  BY <1>0, <1>1, Later
<1>3. FailsTo(p, now', kind, o)
  BY <1>0, <1>2, AttemptFailedIs
<1>4. p.deadline \in Nat /\ LongestDial \in Nat /\ p.phase = "Recovering"
  BY <1>1, ShellAssumption DEF InEpisode, Routed, Planners, LongestDial
<1>5. p' = o.p /\ cmd' = o.cmd
  BY DEF Apply
<1> HIDE DEF o
<1>6. o.p.phase = "GaveUp" => now' <= o.p.deadline + LongestDial
  <2>1. now' <= p.deadline + LongestDial
    BY <1>0, <1>1, <1>4
  <2> QED BY <1>3, <2>1 DEF FailsTo
<1>7. PhaseInv' /\ (cmd'.op = "GiveUp" => o.p.phase = "GaveUp")
  BY <1>3, <1>6, AppliedIs DEF FailsTo, o
<1>8. p.onCross \/ p.switched => cmd.path = "CrossFamily"
  BY <1>1 DEF InEpisode, Routed, PathOf, DialPath
<1> QED BY <1>3, <1>4, <1>5, <1>7, <1>8 DEF FailsTo

\* The pumps end.
LEMMA DisconnectsInv == IInv /\ Disconnects => IInv'
<1> SUFFICES ASSUME IInv, Disconnects PROVE IInv'
  OBVIOUS
<1>1. PICK byNetworkChange \in BOOLEAN, delay \in Delays :
        Apply(Disconnected(p, now, byNetworkChange, delay))
  BY DEF Disconnects
<1> DEFINE o == Disconnected(p, now, byNetworkChange, delay)
<1>2. AtRest(p) /\ now \in Nat /\ delay \in Nat
  BY OutstandingIs, ShellAssumption DEF Disconnects, IInv
<1>3. /\ Continues(o, now) /\ o.p.at = now /\ now <= o.p.deadline
      /\ o.p.phase = "GaveUp" => o.cmd.lost = "none" /\ o.cmd.reason # "SessionGone"
  BY <1>2, DisconnectedIs
<1>4. p' = o.p /\ cmd' = o.cmd /\ now' = now
  BY <1>1 DEF Apply, Disconnects
<1> HIDE DEF o
<1>5. o.p.deadline \in Nat /\ LongestDial \in Nat /\ IdleTimeout \in Nat
  BY <1>3, ShellAssumption DEF Continues, InEpisode, Routed, Planners, LongestDial
<1>6. PhaseInv' /\ (cmd'.op = "GiveUp" => o.p.phase = "GaveUp")
  <2>1. now' \in Nat /\ Continues(o, now') /\ now' <= o.p.deadline + LongestDial
    BY <1>2, <1>3, <1>4, <1>5
  <2> QED BY <1>1, <2>1, AppliedIs DEF o
<1>7. VerdictInv'
  BY <1>3, <1>4, <1>6 DEF VerdictInv, LostContinuityWasTried, SessionGoneIsReal
<1>8. ServeInv' /\ parkAt' \in Nat
  BY <1>2, <1>3, <1>4, <1>5 DEF ServeInv, Disconnects
<1>9. StandbyInv'
  BY DEF StandbyInv, IInv, Disconnects, standbyVars
<1> QED BY <1>2, <1>4, <1>6, <1>7, <1>8, <1>9 DEF IInv, Disconnects

\* A wait ends, by its delay or earlier by a network change.
LEMMA BackoffInv == IInv /\ (BackoffEnds \/ NetworkChangesInBackoff) => IInv'
<1> SUFFICES ASSUME IInv, BackoffEnds \/ NetworkChangesInBackoff PROVE IInv'
  OBVIOUS
<1>1. /\ InEpisode(p, now) /\ cmd.after \in Nat /\ now + cmd.after <= p.deadline /\ now \in Nat
  BY OutstandingIs DEF BackoffEnds, NetworkChangesInBackoff, IInv
<1>2. PICK changed \in BOOLEAN : Apply(BackoffElapsed(p, now', changed))
  BY DEF BackoffEnds, NetworkChangesInBackoff
<1>3. p.deadline \in Nat /\ p.phase = "Recovering"
  BY <1>1 DEF InEpisode, Routed, Planners
<1>4. now' \in Nat /\ now <= now' /\ now' <= p.deadline
  <2>1. now' = now + cmd.after \/ now' \in now..(now + cmd.after)
    BY DEF BackoffEnds, NetworkChangesInBackoff
  <2> QED BY <1>1, <1>3, <2>1
<1>5. UNCHANGED <<serveVars, standbyVars, dialled, reattached, episodes, suspends>>
  BY DEF BackoffEnds, NetworkChangesInBackoff
<1> DEFINE o == BackoffElapsed(p, now', changed)
<1>6. InEpisode(p, now')
  BY <1>1, <1>4, Later
<1>7. InEpisode(o.p, now') /\ Waits(o.p, now', o.cmd) /\ o.p.at = p.at
  BY <1>4, <1>6, BackoffElapsedIs
<1>8. p' = o.p
  BY <1>2 DEF Apply
<1> HIDE DEF o
<1>9. Continues(o, now') /\ o.p.phase = "Recovering"
  BY <1>7 DEF Continues, InEpisode
<1>10. PhaseInv' /\ cmd'.op # "GiveUp"
  BY <1>2, <1>4, <1>9, AppliedIs DEF o
<1>11. VerdictInv'
  BY <1>10 DEF VerdictInv, LostContinuityWasTried, SessionGoneIsReal
<1>12. ServeInv'
  BY <1>3, <1>5, <1>7, <1>8 DEF ServeInv, IInv, serveVars
<1>13. StandbyInv'
  BY <1>5 DEF StandbyInv, IInv, standbyVars
<1> QED BY <1>4, <1>5, <1>10, <1>11, <1>12, <1>13 DEF IInv, serveVars

\* A dial takes at most two transport steps and a replay, and takes the standby out.
LEMMA DialTakes ==
  ASSUME IInv, NEW path \in DialPaths, NEW t \in OutcomeTimes(path), TakesStandby(path)
  PROVE  t \in Nat /\ now <= t /\ t + StepTimeout <= now + LongestDial /\ StandbyInv'
<1>1. /\ now \in Nat /\ StepTimeout \in Nat
      /\ Steps(path) = 1 \/ Steps(path) = 2
  BY ShellAssumption DEF IInv, Steps
<1>2. t \in Nat /\ now <= t /\ t + StepTimeout <= now + LongestDial
  BY <1>1 DEF OutcomeTimes, LongestDial
<1>3. StandbyInv'
  BY DEF StandbyInv, IInv, TakesStandby
<1> QED BY <1>2, <1>3

\* The clock after a dial, and the answer of a dial that came after the floor.
LEMMA ShortDial ==
  ASSUME NEW n \in Nat, NEW t \in Nat, t + StepTimeout <= n + LongestDial
  PROVE  t <= n + LongestDial
BY Sizes

LEMMA LateAnswer ==
  ASSUME NEW lost \in Nat, NEW parked \in Nat, NEW answered \in Int, NEW t \in Nat,
         parked <= lost + IdleTimeout, answered >= t - StepTimeout, t - lost >= ElapsedFloor
  PROVE  ~(answered < parked)
BY Sizes

\* A dial and its replay succeed.
LEMMA DialSucceedsInv == IInv /\ DialSucceeds => IInv'
<1> SUFFICES ASSUME IInv, DialSucceeds PROVE IInv'
  OBVIOUS
<1>1. InEpisode(p, now) /\ cmd.path \in DialPaths /\ now \in Nat
  BY OutstandingIs DEF DialSucceeds, IInv
<1>2. now' \in Nat /\ StandbyInv'
  BY <1>1, DialTakes DEF DialSucceeds
<1>3. AtRest(p') /\ cmd' = Resumed(cmd.path)
  BY <1>1, AttemptOkIs DEF DialSucceeds, Apply
<1>4. p'.phase = "Connected" /\ cmd'.op = "Resumed"
  BY <1>3 DEF AtRest, Resumed
<1>5. PhaseInv'
  BY <1>1, <1>3 DEF PhaseInv, AtRest, Routed, Planners, ResumeWindowFor, Resumed, DialPaths
<1>6. ServeInv' /\ VerdictInv'
  BY <1>4 DEF ServeInv, VerdictInv, LostContinuityWasTried, SessionGoneIsReal
<1> QED BY <1>2, <1>5, <1>6 DEF IInv, DialSucceeds

\* serve answers that it does not have the session.  An answer that counts was given
\* when serve had had the time to notice the loss, so it is true.
LEMMA UnknownSessionInv == IInv /\ DialGetsUnknownSession => IInv'
<1> SUFFICES ASSUME IInv, DialGetsUnknownSession PROVE IInv'
  OBVIOUS
<1>0. PICK delay \in Delays :
        Apply(AttemptFailed(p, cmd.path, now', "UnknownSession", delay))
  BY DEF DialGetsUnknownSession
<1>1. cmd.op = "Dial" /\ cmd.path \in DialPaths /\ now \in Nat /\ InEpisode(p, now)
  BY OutstandingIs DEF DialGetsUnknownSession, IInv
<1>2. /\ now' \in Nat /\ now <= now' /\ now' + StepTimeout <= now + LongestDial
      /\ StandbyInv'
  BY <1>1, DialTakes DEF DialGetsUnknownSession
<1>3. now' <= now + LongestDial
  BY <1>1, <1>2, ShortDial
<1>4. /\ PhaseInv' /\ p'.at = p.at /\ p.phase = "Recovering"
      /\ cmd'.op = "GiveUp" =>
           /\ cmd'.lost # "none" => cmd.path = "CrossFamily"
           /\ cmd'.reason = "SessionGone" => now' - p.at >= ElapsedFloor
  BY <1>0, <1>1, <1>2, <1>3, FailedDialIs DEF AttemptFailures
<1>5. ServeInv'
  BY <1>4 DEF ServeInv, IInv, DialGetsUnknownSession, serveVars
<1>6. LostContinuityWasTried'
  BY <1>4 DEF LostContinuityWasTried, DialGetsUnknownSession
<1>7. cmd'.op = "GiveUp" /\ cmd'.reason = "SessionGone" => ~known \/ reattached
  <2> SUFFICES ASSUME cmd'.op = "GiveUp", cmd'.reason = "SessionGone", known, ~reattached
               PROVE  FALSE
    OBVIOUS
  <2>1. PICK t \in AnsweredAt(now') : ~Parked(t)
    BY DEF DialGetsUnknownSession
  <2>2. parkAt \in Nat /\ parkAt <= p.at + IdleTimeout
    BY <1>4 DEF IInv, ServeInv
  <2>3. t < parkAt
    <3>1. t \in Int
      BY DEF AnsweredAt
    <3> QED BY <2>1, <2>2, <3>1 DEF Parked, Never
  <2>4. t >= now' - StepTimeout
    <3>1. now' - StepTimeout \in Int /\ now \in Int
      BY <1>1, <1>2, ShellAssumption
    <3>2. Max({now, now' - StepTimeout}) >= now' - StepTimeout
          /\ Max({now, now' - StepTimeout}) \in Int
      BY <3>1, MaxOfTwo
    <3> QED BY <3>1, <3>2 DEF AnsweredAt
  <2>5. now' - p.at >= ElapsedFloor
    BY <1>4
  <2>6. p.at \in Nat /\ t \in Int
    BY <1>1 DEF InEpisode, Routed, Planners, AnsweredAt
  <2>7. now' \in Nat /\ IdleTimeout \in Nat /\ StepTimeout \in Nat /\ ElapsedFloor \in Nat
        /\ ElapsedFloor >= IdleTimeout + StepTimeout
    BY <1>2, Sizes
  <2> QED BY <2>2, <2>3, <2>4, <2>5, <2>6, <2>7, LateAnswer
<1>8. SessionGoneIsReal'
  BY <1>7 DEF SessionGoneIsReal, DialGetsUnknownSession, serveVars
<1> QED BY <1>2, <1>4, <1>5, <1>6, <1>8
        DEF IInv, VerdictInv, DialGetsUnknownSession, serveVars

\* A dial or its replay fails, or there is nothing to promote.
LEMMA FailureInv == IInv /\ (DialFails \/ NothingToPromote) => IInv'
<1>1. ASSUME IInv, DialFails PROVE IInv'
  <2>1. PICK kind \in AttemptFailures \ {"UnknownSession"}, delay \in Delays, reached \in BOOLEAN :
          /\ \E t \in OutcomeTimes(cmd.path) :
               now' \in IF kind = "ReplayFailed" THEN {t, t + StepTimeout} ELSE {t}
          /\ reattached' = (reattached \/ reached)
          /\ parkAt' \in IF reached THEN {now', now' + IdleTimeout} ELSE {parkAt}
          /\ Apply(AttemptFailed(p, cmd.path, now', kind, delay))
    BY <1>1 DEF DialFails
  <2>2. cmd.op = "Dial" /\ cmd.path \in DialPaths /\ now \in Nat /\ TakesStandby(cmd.path)
    BY <1>1, OutstandingIs DEF DialFails, IInv
  <2>3. PICK t \in OutcomeTimes(cmd.path) :
          now' \in IF kind = "ReplayFailed" THEN {t, t + StepTimeout} ELSE {t}
    BY <2>1
  <2>4. t \in Nat /\ now <= t /\ t + StepTimeout <= now + LongestDial /\ StandbyInv'
    BY <1>1, <2>2, DialTakes
  <2>5. now' = t \/ now' = t + StepTimeout
    BY <2>3
  <2>6. now' \in Nat /\ now <= now' /\ now' <= now + LongestDial
    BY <2>2, <2>4, <2>5, Sizes
  <2>7. /\ PhaseInv' /\ p'.at = p.at /\ p.phase = "Recovering"
        /\ cmd'.op = "GiveUp" => /\ cmd'.lost # "none" => cmd.path = "CrossFamily"
                                 /\ cmd'.reason # "SessionGone"
    BY <1>1, <2>1, <2>2, <2>6, FailedDialIs
  <2>8. VerdictInv'
    BY <1>1, <2>7 DEF VerdictInv, LostContinuityWasTried, SessionGoneIsReal, DialFails
  <2>9. reattached' \in BOOLEAN /\ (~reattached' => ~reattached /\ ~reached)
    BY <1>1, <2>1 DEF IInv
  <2>10. ServeInv'
    <3>1. ~reached => parkAt' = parkAt
      BY <2>1
    <3> QED BY <1>1, <2>7, <2>9, <3>1 DEF ServeInv, IInv
  <2>11. parkAt' \in Nat \cup {Never}
    <3>1. parkAt' = parkAt \/ parkAt' = now' \/ parkAt' = now' + IdleTimeout
      BY <2>1
    <3>2. parkAt \in Nat \cup {Never}
      BY <1>1 DEF IInv
    <3> QED BY <2>6, <3>1, <3>2, Sizes
  <2> QED BY <1>1, <2>4, <2>6, <2>7, <2>8, <2>9, <2>10, <2>11 DEF IInv, DialFails
<1>2. ASSUME IInv, NothingToPromote PROVE IInv'
  <2>1. PICK delay \in Delays : Apply(AttemptFailed(p, cmd.path, now, "Other", delay))
    BY <1>2 DEF NothingToPromote
  <2>2. cmd.op = "Dial" /\ cmd.path = "WarmStandby" /\ now \in Nat /\ now' = now
    BY <1>2 DEF NothingToPromote, IInv
  <2>3. now' \in Nat /\ now <= now' /\ now' <= now + LongestDial
    BY <2>2, Sizes
  <2>4. /\ PhaseInv' /\ p'.at = p.at /\ p.phase = "Recovering"
        /\ cmd'.op = "GiveUp" => cmd'.lost = "none" /\ cmd'.reason # "SessionGone"
    <3>1. Apply(AttemptFailed(p, cmd.path, now', "Other", delay)) /\ "Other" \in AttemptFailures
      BY <2>1, <2>2 DEF AttemptFailures
    <3> QED BY <1>2, <2>2, <2>3, <3>1, FailedDialIs
  <2>5. VerdictInv'
    BY <2>4 DEF VerdictInv, LostContinuityWasTried, SessionGoneIsReal
  <2>6. ServeInv' /\ StandbyInv'
    BY <1>2, <2>4 DEF ServeInv, StandbyInv, IInv, NothingToPromote, serveVars, standbyVars
  <2> QED BY <1>2, <2>3, <2>4, <2>5, <2>6 DEF IInv, NothingToPromote, serveVars
<1> QED BY <1>1, <1>2

\* The interpreter returns to the pumps, or the process ends.
LEMMA EpisodeEndsInv == IInv /\ EpisodeEnds => IInv'
<1> SUFFICES ASSUME IInv, EpisodeEnds PROVE IInv'
  OBVIOUS
<1>1. /\ cmd' = NoCmd /\ cmd'.op = "None" /\ p' = p /\ reattached' = FALSE
      /\ known' = known /\ parkAt' = parkAt
  BY DEF EpisodeEnds, NoCmd, serveVars
<1>2. now \in Nat /\ now' \in Nat /\ (cmd.op = "GiveUp" => now' = now)
  BY DEF EpisodeEnds, IInv
<1>3. \/ AtRest(p)
      \/ Routed(p) /\ p.phase = "GaveUp" /\ now' <= p.deadline + LongestDial
  BY <1>2, OutstandingIs DEF EpisodeEnds
<1>4. PhaseInv'
  <2>1. \/ AtRest(p')
        \/ Routed(p') /\ p'.phase = "GaveUp" /\ now' <= p'.deadline + LongestDial
    BY <1>1, <1>3
  <2> QED BY <1>1, <2>1 DEF PhaseInv, AtRest, Routed, Planners, ResumeWindowFor, NoCmd, LongestDial
<1>5. ServeInv'
  BY <1>1, <1>3 DEF ServeInv, AtRest
<1>6. VerdictInv'
  BY <1>1 DEF VerdictInv, LostContinuityWasTried, SessionGoneIsReal
<1>7. StandbyInv'
  BY DEF StandbyInv, IInv, EpisodeEnds
<1> QED BY <1>1, <1>2, <1>4, <1>5, <1>6, <1>7 DEF IInv

\* The standby task, a suspend and a serve that forgets leave the planner alone.
LEMMA OthersInv ==
  IInv /\ (StandbyTick \/ ProbeAnswers \/ StandbyDialed \/ HostSuspends \/ ServeForgets
            \/ UNCHANGED vars) => IInv'
<1> SUFFICES ASSUME IInv, StandbyTick \/ ProbeAnswers \/ StandbyDialed \/ HostSuspends
                           \/ ServeForgets \/ UNCHANGED vars
             PROVE  IInv'
  OBVIOUS
<1>1. /\ p' = p /\ cmd' = cmd /\ now' = now /\ parkAt' = parkAt /\ reattached' = reattached
      /\ dialled' = dialled /\ (known' = known \/ known' = FALSE)
  BY DEF StandbyTick, ProbeAnswers, StandbyDialed, HostSuspends, ServeForgets, vars, serveVars
<1>2. PhaseInv' /\ ServeInv'
  BY <1>1 DEF IInv, PhaseInv, ServeInv, AtRest, Routed, Planners, InEpisode, Waits, PathOf,
              DialPath, ResumeWindowFor, LastWords, LongestDial
<1>3. VerdictInv'
  <2>1. LostContinuityWasTried /\ SessionGoneIsReal
    BY DEF IInv, VerdictInv
  <2>2. LostContinuityWasTried'
    BY <1>1, <2>1 DEF LostContinuityWasTried
  <2>3. CASE known' = known
    BY <1>1, <2>1, <2>2, <2>3 DEF VerdictInv, SessionGoneIsReal
  <2>4. CASE known' = FALSE
    BY <2>2, <2>4 DEF VerdictInv, SessionGoneIsReal
  <2> QED BY <1>1, <2>3, <2>4
<1>4. StandbyInv'
  BY DEF IInv, StandbyInv, StandbyTick, ProbeAnswers, StandbyDialed, HostSuspends, ServeForgets,
         vars, standbyVars
<1> QED BY <1>1, <1>2, <1>3, <1>4 DEF IInv

\* The inductive invariant holds of every reachable state.
LEMMA Inductive == Spec => []IInv
<1>1. IInv /\ [Next]_vars => IInv'
  BY DisconnectsInv, BackoffInv, DialSucceedsInv, UnknownSessionInv, FailureInv,
     EpisodeEndsInv, OthersInv DEF Next
<1> QED BY InitInv, <1>1, PTL DEF Spec

\* However long dials take, however often the deadline moves and whatever delays the
\* backoff draws, an episode ends within a dial of a deadline that serve granted.
THEOREM EpisodesEndInTime == Spec => []EpisodeEndsInTime
<1>1. IInv => EpisodeEndsInTime
  <2> SUFFICES ASSUME IInv PROVE EpisodeEndsInTime
    OBVIOUS
  <2>1. ASSUME Recovering
        PROVE  /\ p.deadline <= p.at + ResumeWindowFor(p.grace)
               /\ cmd.op = "Backoff" => now + cmd.after <= p.deadline
               /\ now <= p.deadline + LongestDial
    <3>1. InEpisode(p, now) /\ Waits(p, now, cmd) /\ now \in Nat
      BY <2>1, OutstandingIs DEF Recovering, IInv
    <3>2. p.deadline \in Nat /\ p.deadline <= p.at + ResumeWindowFor(p.grace)
      BY <3>1 DEF InEpisode, Routed, Planners
    <3>3. cmd.op = "Backoff" \/ cmd.op = "Dial"
      BY <3>1 DEF Waits, Backoff, Dial
    <3>4. cmd.op = "Backoff" => cmd.after \in Nat /\ now + cmd.after <= p.deadline
      BY OutstandingIs
    <3>5. cmd.op = "Dial" => now <= p.deadline
      BY OutstandingIs
    <3>6. now <= p.deadline
      BY <3>1, <3>2, <3>3, <3>4, <3>5
    <3> QED BY <3>1, <3>2, <3>4, <3>6, Sizes
  <2>2. p.phase = "GaveUp" => now <= p.deadline + LongestDial
    BY OutstandingIs
  <2> QED BY <2>1, <2>2 DEF EpisodeEndsInTime
<1> QED BY Inductive, <1>1, PTL

\* continuity-lost is recorded only after the relay was dialled in that episode.
THEOREM LostContinuityTried == Spec => []LostContinuityWasTried
<1>1. IInv => LostContinuityWasTried
  BY DEF IInv, VerdictInv
<1> QED BY Inductive, <1>1, PTL

\* A session given up as gone is gone, for every idle timeout of serve that leaves a
\* transport step of the floor.
THEOREM SessionGoneIsTrue == Spec => []SessionGoneIsReal
<1>1. IInv => SessionGoneIsReal
  BY DEF IInv, VerdictInv
<1> QED BY Inductive, <1>1, PTL

\* No standby from before a suspend outlives the task's next tick.
THEOREM StaleStandbyGoes == Spec => []StaleStandbyIsDropped
<1>1. IInv => StaleStandbyIsDropped
  BY DEF IInv, StandbyInv, StaleStandbyIsDropped
<1> QED BY Inductive, <1>1, PTL
=============================================================================
