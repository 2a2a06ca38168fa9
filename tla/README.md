# Verification of isekai-terminal: sessions that survive

This directory holds TLA+ models of the parts of isekai-terminal on which
"the session survives" rests:

* `isekai-pipe serve`, which admits, fences, parks and resumes sessions;
* the resume protocol between it and `isekai-pipe connect`, which carries an SSH
  byte stream over a series of QUIC connections, and the client's decisions when
  to retry, over which path, and when to give up;
* the automatic reconnection of the app core (`SessionOrchestrator`);
* `isekai-pipe tty daemon`, which keeps a shell for clients that come and go.

TLC checks the models on small instances; TLAPS proves the central safety
properties of the server's aggregate and of the shell around it, of the byte
streams, of the client's resume decisions, of the app core's reconnect shell and of
the tty daemon for every value of their parameters.

`PROJECT.json` lists the components, runs, mutants, the map from definitions to
source lines, findings, hazards and theorems.

## 1. Inventory

| Component | State it keeps | Operations | Interacts with | Hard because |
|---|---|---|---|---|
| Serve aggregate (`engine/attach_arbiter.rs`, `engine/serve_fsm.rs`) | a slot per session (Connecting, PendingActivation, Established, ClosingForSupersede), the lease counter, the resume index (parked since, grace, unresumable) | HELLO with admission, activation, CANCEL, connect results, lease stopped, pending expired, relay ended/terminated, park, resume request, resume unavailable, sweep | pure; driven by the attach runtime | stale facts, capacity, fencing by generation |
| Attach runtime (`engine/attach_runtime.rs`) | the aggregate and the socket map under one lock; the lease resources and the waiters under two others | `hello`, `activate`, `cancel`, `park`, `sweep_expired_parked`, `resume_request`, effects, guards | connection handlers, connect tasks, timers | locks are released between an apply and its effects; aborts, panics, spawned Drops |
| Connection handlers (`engine/mod.rs`) | per connection: the target socket, the guards | ATTACH, RESUME with preemption, CANCEL, relay, park or finish | attach runtime, client | two connections of one session at once |
| Relay and APP_ACK (`engine/mod.rs`, `engine/resume.rs`) | committed offset, output replay buffer, replay given up | relay both ways, trim on APP_ACK, replay on RESUME | client, target | cancellation at any await, late acks, full buffers |
| Replay buffer (`quicmux/src/resume.rs`) | bytes and their start offset | append, advance_start, replay_from | both ends | offsets must stay in step for ever |
| Client pumps and resume loop (`isekai-pipe/src/resume_loop.rs`, `isekai-transport/src/resume/app_ack.rs`) | C2H replay buffer, delivered and acknowledged offsets, EOF latch | pump both ways, RESUME, replay, reopen the control stream | server, planner | pumps dropped where they await |
| Resume planner (`resume_fsm.rs`) | episode with its deadline and failure counts; across episodes the UnknownSession streak and the path | disconnect, backoff elapsed, attempt results | resume loop, what serve granted | deadlines that move, answers that mean two things |
| Warm standby (`isekai-transport/src/warm_standby.rs`, `engine/standby_hold.rs`) | a held second connection | ensure_warm, promote, invalidate | resume loop, its own task, server | promotion racing replacement, suspends of the host |
| Path health, generation coordinator, candidates (`isekai-transport`) | per-path health, attach generations | probes, rounds, races | dialling | timers, bounds |
| Reconnection of the app core (`rust-core/src/reconnect_fsm.rs`, `orchestrator.rs`, `net_health_policy.rs`) | the reconnect aggregate, the session generation, the stored session, the publication queue | UniFFI calls, path events, session callbacks, loop ticks and wakes, effects | UI, transports, OS | every effect runs without the lock, on any of five kinds of thread |
| Rest of the app core: pool, rebind manager, resume client | pool and path state | user and network events, timers | UI, transports | generations of timers |
| isekai-ssh: connect recovery, mux owner and hand-off | attempts, budgets, ownership | attempts, redeploys, hand-off | isekai-pipe | budgets, crash of the owner |
| tty daemon (`isekai-pipe/src/tty`) | the occupant of the slot and its generation, ring buffer, missed flag, a channel per client | install, broadcast, take_missed, notify_exit, vacate; two tasks per client | shell, clients | preempted and hanging clients, the exit racing the output |
| Terminal, tmux, ctl, bootstrap, trust, auth, STUN, UI shells | data formats, files, views | parsing, I/O | | no concurrent control of their own |

What makes the modelled parts correct:

* **Aggregate**: the index agrees with the slots; leases identify incarnations;
  capacity is never exceeded; fencing only moves forward; nothing that cannot be
  replayed is resumed.
* **Runtime**: whatever the tasks interleave, the socket map agrees with the
  index, a target socket has one holder and its holder owns the slot, no slot is
  orphaned (panics included), a superseding attempt waits for the teardown, and
  everything in flight settles.
* **Streams**: each direction is delivered without loss, duplication or
  reordering over any series of lost connections, offsets of the two ends can
  always be reconciled, and full buffers drain.
* **Resume decisions**: an episode ends within what the server granted, a path is
  blamed only after it was tried, and a session is declared gone only if it is.
* **Reconnection**: the app is shown what is true, in the right order; a decision
  of the user is final; nothing keeps running that nobody owns; the app is never
  left trying for ever.
* **tty daemon**: the client that came last sees everything the ring still has,
  the exit comes after the output, and a hanging client holds up nobody.

## 2. Modules

| Module | Models | Kind |
|---|---|---|
| `ServeFsm` | the reducers of `attach_arbiter.rs` and `serve_fsm.rs` as operators: an aggregate and an event give a new aggregate, in-lock effects and out-of-lock effects | pure |
| `ServeAggregate` | the aggregate alone, with any event at any time, stale ones included | specification (abstract for `AttachRuntime`) |
| `ServeFsmProofs`, `ServeAggregateProofs` | proofs about the aggregate | TLAPS |
| `AttachRuntime` | the shell: `attach_runtime.rs` and the handlers of `engine/mod.rs` | specification, refines `ServeAggregate` |
| `ServeEffectsProofs`, `AttachRuntimeProofs` | proofs about the effects of the reducers, and about the shell | TLAPS |
| `ReplayBuffer` | `quicmux::ReplayBuffer` | pure |
| `ReliableStream` | what a resumed session promises of one direction | abstract specification |
| `ResumeStream` | client pumps, RESUME attempts, server relay, APP_ACKs | specification, refines `ReliableStream` |
| `ResumeStreamProofs` | proofs about `ResumeStream` | TLAPS |
| `ResumePlanner` | the reducer of `resume_fsm.rs` | pure |
| `ConnectResume` | the interpreter of the planner's commands in `resume_loop.rs`, the warm standby and its task, serve and the host as environment | specification, composes `ResumePlanner` with them |
| `ConnectResumeProofs` | proofs about `ConnectResume` and the planner | TLAPS |
| `ReconnectFsm` | the reducer of `reconnect_fsm.rs` | pure |
| `SessionOrchestrator` | the shell of `orchestrator.rs`: threads, effects, publications, session creation, the loop task | specification, composes `ReconnectFsm` with transport sessions |
| `SessionOrchestratorProofs` | proofs about `ReconnectFsm` and `SessionOrchestrator` | TLAPS |
| `TtyDaemon` | `tty/daemon.rs`, `attach_slot.rs`, `ring_buffer.rs` | specification |
| `TtyDaemonProofs` | proofs about `TtyDaemon` | TLAPS |
| `MC*` | instances for TLC | |

Operators called "Faulty variant" in a comment are mutations of the definition
that follows them; nothing uses them except the mutation tests listed in
`PROJECT.json`.

### ServeFsm and ServeAggregate

`agg.slots[s]` is `AttachArbiter::sessions`, with `absent` for no entry; in
`closing` the key is that of `next` and the lease that of `old_lease`.
`agg.index[s]` is the resume index. `Result(agg, io, out)` separates the
effects interpreted under the core lock from those executed after it. A session
token is identified with the lease it was minted for, because both are minted
once and together. Times are abstract instants; `MaxParked` is
`--resume-window`.

`ServeAggregate` lets every event happen with any lease that was ever minted, so
late facts of earlier incarnations are included. Its bounds, `MaxLeases` and
`MaxTime`, appear only in guards.

### AttachRuntime

A task (connection, connect task, timer, spawned Drop fallback) has a list
`todo[t]` of what it has still to do: the effects its last apply returned and
the rest of the function that called it. One step is one critical section of one
lock, which is how the code is written: no two of `core`, `leases` and `waiters`
are held together and effects run after the core lock is released. `Dies` drops
an aborted task at an await. `Panics` ends a task that holds guards and starts
the tasks their `Drop` spawns. The bounded wait for a preempted relay is modelled
by letting the retry come before or after the park.

A HELLO, a CANCEL or a RESUME comes from a connection that authenticated; proofs
of possession, frame decoding and the control stream of an attach are left out
of this module. The pending-activation token never mismatches, because a client
that sends another one is treated like a client that sends none.

### ResumeStream

Bytes of a direction are numbered from 1 as they are read, so loss, duplication
and reordering are visible in `target` and `stdout`. A connection is a pair of
FIFO streams; either end may find it dead at any time and then loses what it has
not read. The client's pumps are dropped where they await (`Disconnects`): what
the stdout writer had been handed may still land. `cout`, `sout`, `sin` and `hin`
are the part of a write that is not done yet, so every partial write is a state.
A server handler that returns drops its send stream, which may show as a FIN;
`write_resume_ack_bounded` resets instead. The planner's choices (retry, path,
give up) are nondeterministic here; `ConnectResume` has them. A behaviour chooses
its `load` at the start: how many bytes each way, how many connections, and which
APP_ACK tasks may fail on their own (`frail`).

`acking` says which of the four APP_ACK loops of a connection are still at work:
the client's sender and receiver (`csend`, `crecv`), the server's (`ssend`,
`srecv`). They start with the control stream; the client's are aborted when its
pumps are dropped. A loop also breaks on an error of the control stream or an
unknown frame while the data stream lives (`AckTaskFails`; `app_ack.rs:175-180`
and `:209`, `engine/mod.rs:1753` and `:1772`), the client's sender when its
receiver has ended (`AckSenderStops`). Nobody is told: `AppAckUnavailable` is set
only when a control stream never came up. In the safety runs no task is frail: an
acknowledgement may stay away for ever there anyway.

Two stalls follow, and the liveness properties name them as the only ones besides
a FIN that the client has read and waits behind:

* `OutputStalled`: the server's replay buffer is full, the control stream was up,
  and the client's sender or the server's receiver has ended. The relay does not
  read the target again until the connection is lost and resumed. The comment of
  `AppAckUnavailable` calls this a known limitation (`engine/mod.rs:1812-1816`).
  A control stream that never comes up does not stall the output: the server
  gives its replay up instead (`engine/mod.rs:1900`).
* `InputStalled`: the client's replay buffer is full and the server's sender or
  the client's receiver is not at work, because it ended or because the control
  stream was never reopened after a RESUME. Stdin is not read again although the
  connection works (`resume_loop.rs:1729`); unlike the server, the client never
  gives its replay up.

`OutputArrives` and `InputArrivesWhenAcked` allow a behaviour that ends in the
stall for good, and nothing else: a stall that a later connection resolves is no
excuse.

### ResumePlanner and ConnectResume

Every `ResumeEvent` is an operator that returns the new planner and the one
command the shell carries out next (display commands are left out). Tokens are
left out because `resume_with_backoff_until_deadline` has one command
outstanding and answers it before it takes the next, so no stale token can
arrive; the two counters stop at the thresholds they are compared with.

In `ConnectResume` a wait or a dial is one step that moves the clock. A bare
redial takes up to two transport steps, a promotion one, a replay one more.
`known` and `parkAt` are serve as a RESUME meets it: it may forget the session at
any time, and it parks only once it has noticed that the old connection is dead.
A RESUME that reached serve without its answer coming back makes serve attach the
session to a connection that is dead already (`reattached`). The standby task
ticks at any time; a suspend of the host leaves the monotonic clock alone and
makes the wall clock jump (`jump`), which the task's next tick sees. Only
differences of times within one episode are used, so the clock is put back
between episodes. A backoff is cut to the deadline and may end exactly there, so
the last dial of an episode may begin at the deadline; that is the dial
`EpisodeEndsInTime` allows for. `SessionGoneIsReal` leaves out `reattached`
episodes: there serve answers UnknownSession for a session it still has for as
long as its idle timeout lasts, and the planner's floor is counted from the
disconnect and not from that attempt.

### ReconnectFsm and SessionOrchestrator

Durations are counted in ticks of the loop. `thr[t]` is the program of thread t:
the effects its last apply returned and what the calling function does after
them. An apply, the staging of its publications and the generation bump of
`AbortInFlightAttempt` are one step, because the code does them in one critical
section; every effect is a step of its own. `Program` turns effects into steps: a
publication becomes a flush, `ArmLoopTimer` the loop's sleep. A flush is a step,
and so is each callback to the app together with the re-check of the queue after
it, so publications of several threads interleave as the drainer rule allows.

One step of the code is left out: the flush with which `execute_reconnect_effects`
ends (`orchestrator.rs:1202`). It would find something only where another thread
drains or has a flush of its own still to come, which is what `NothingIsStranded`
says; it therefore decides only which thread makes a callback. With it the state
space grows beyond what TLC can finish. It does matter when a callback of the app
panics, which is not modelled.

A behaviour chooses its `script` at the start: which calls the app and the OS
make, over which transports, and the policy of the loop. `MaxGen` and `MaxEpoch`
are large enough never to be exceeded, which `TypeOK` checks. `LoopStartAborted`
is not modelled: `begin_connect` writes the AttemptRef and the configuration it
stands for in one critical section, so the reference always resolves.

`connect()` of a transport may return Err at once, at any time. Such a refusal has
three consequences that the properties of the passing runs leave out by a premise.
Two of them contradict what the code's comments say:

* an attempt that a stopped loop still makes and that is refused leaves the phase
  in Connecting, because `AttemptFailedSync` ignores a stale epoch
  (`StaleRefusal`, the premise of `TryingEnds`; part of the finding of
  `reconnect_cancel`);
* a late `on_connected` between `ManualConnectStarted` and the new adapter makes
  the phase Connected, and `ManualConnectFailedSync` then resets only Connecting
  (`NoneRefused`, the premise of `ShownStateAgrees` and `ConnectedIsLive`; see
  "Claims refuted without a run" in §3);
* a refused foreground reconnect publishes Disconnected while a loop that started
  meanwhile is live (also `NoneRefused`). No comment says otherwise.

### TtyDaemon

The shell's output is a sequence of numbered chunks and the ring is the last
`RingCap` of those broadcast. A client has a reader (`handle_client` itself) and a
writer task; each lock of the slot, each receive and each write to a socket is a
step. A write may fail or never come back. `run()` waits for the shell, drains
the read loop or times out, tries `notify_exit` a bounded number of times and
ends the process.

What the model makes visible: `is_current` and the write to the pty are two
steps, so one frame of a client that was just preempted can still reach the shell
(`attach_slot.rs` speaks of "closing the window", which it does not: see §3;
`StaleInputIsOneFrame` says how much of it is left); a preempted client that types may be torn down before it
was sent `Preempted`; a failed HelloAck returns without `vacate`, so the slot
keeps a sender whose receiver is gone until the next install. `NothingIsLost`
speaks of what the ring still holds, and `ExitComesLast` promises nothing once
`READ_LOOP_DRAIN_TIMEOUT` has expired.

## 3. Runs

Passing (distinct states in brackets):

| Run | Instance | Shows |
|---|---|---|
| `aggregate` (97 k) | 3 sessions, 2 slots, 2 generations, 2 attempts, 3 leases, instants 0–2, graces 1 and 3 around a window of 2, fair clock and sweep | the invariants of `serve_fsm.rs` (I-c, I-g, I-k), unique leases, fencing, eviction of the oldest, parked sessions leave |
| `attach` (520 k) | 2 sessions for one slot; three workloads: 2 attachers and a canceller on one session, 2 attachers over both and a resumer of the first, 1 attacher and 2 resumers | no orphaned slot, holders own their slots, one holder per target, socket map and index agree, a supersede waits for the teardown, refinement of `ServeAggregate` |
| `attach_live` (39 k) | 2 attachers of generations 1 and 2, fair runtime | attempts settle, a supersede of a started connect completes, abandoned incarnations are released |
| `resume` (2.4 M) | 3 bytes one way over 2 connections, 2 over 3, or 1 each way; chunks and buffers of 2 | stdin reaches the target reliably, no gap on stdout, replays exact relative to the delivered offset, labels and offsets in step |
| `resume_live` (527 k) | 2 bytes each way, or 2 bytes one way with APP_ACK tasks of that direction that may end; buffers of 1, 2 connections, fair runtime | full buffers drain and both directions arrive, except behind the two stalls of §2 |
| `reconnect` (885 k) | 3 inputs; all calls of the app with a retry at every tick, or all calls and path events over tcp and quic with attempts on a wake | the state shown, its order, that nothing is left undelivered, and who is left running |
| `reconnect_live` (403 k) | connect and cancel with retries, or connect and path events; fair runtime | the app is never left trying |
| `connect_resume` (801 k) | relay, relay with standby, STUN with relay fallback, with grants below and above the STUN window; 2 episodes, 1 suspend | episodes end in time, decisions are justified, stale standbys go |
| `tty` (1.3 M) | 2 clients; 3 chunks through a channel of 1 and a ring of 2, or 2 frames of input | nothing lost, exit last, one stale frame at most, the daemon ends |

Violated, each a disagreement between the code and what its own comments or
documents say (see `findings`):

| Run | Shows |
|---|---|
| `attach_supersede` | a supersede that falls between an apply returning `ConnectTarget` and `start_connect` is never completed |
| `resume_duplicate` | bytes that stdout took but the delivered offset did not count are replayed |
| `reconnect_cancel` | an attempt that the loop had decided on is made after a cancel and brings the app back to Connected |

Claims refuted without a run. Three more sentences of the code are refuted by the
same models. TLC finds each counterexample when the formula is added to the
configuration named; the passing runs state what remains true instead.

* `TtyDaemon.cfg` with the invariant `\A c \in Clients : stale[c] = 0`.
  `attach_slot.rs:36` has `is_current` called "under the same lock immediately
  before writing to the pty" and lines 214-217 speak of "closing the window where
  stale input could otherwise reach a different client's session". The lock is
  given back before the write (`daemon.rs:459`): a client checks, another one
  attaches, the first one's frame is written. `StaleInputIsOneFrame` is what holds.
* `ReconnectLive.cfg` with `rs.phase = "Connecting" ~> rs.phase # "Connecting"`.
  The RC-29 comments (`reconnect_fsm.rs:473-475` and `:1917`) say that a refused
  attempt of the loop returns to Idle. A tick decides on an attempt, the app
  cancels, the attempt moves the phase to Connecting and is refused: its epoch is
  stale, the event is ignored, and every manual connect is rejected from then on.
* `ReconnectCancel.cfg` with "a step in which a manual connect of the current
  generation is refused ends in Idle":
  `[][\A g \in Generations : sess[g] # "refused" /\ sess'[g] = "refused" /\
  origin[g] = Manual /\ gen = g => rs'.phase = "Idle"]_vars`.
  `orchestrator.rs:1526-1528` and the table at `reconnect_fsm.rs:39` say so.
  A stopped loop's session connects between `ManualConnectStarted` and the new
  adapter; the refusal finds the phase Connected and leaves it there
  (`reconnect_fsm.rs:516`), and the loss of that session, whose generation is
  no longer current, is never heard.

Why the bounds are enough. Two generations, two attachers and one canceller are
all the parties a supersede involves; a third would meet the same slot states.
One slot for two sessions makes every admission contend, and `aggregate` adds a
third session and a second slot so that evictions have a choice. Two instants
separate "parked before" from "parked now" for the sweep. Peers that play the
same part in `attach` are interchangeable, which is a symmetry of the
specification and of every property the run checks. In `ResumeStream` a buffer of
two with chunks of two gives partial writes, partial trims and a full buffer;
three connections give a RESUME of a RESUME with late acknowledgements of both
earlier connections. In `SessionOrchestrator` three inputs are what the deepest
known case needs (connect, a loss that starts a loop, a cancel); what the loop,
the sessions and the debounce do on their own is not counted. A policy that
retries at the first tick and gives up at the second has an attempt in flight at
the give-up; with the path events the policy gives up before its first periodic
retry, so that attempts come from wakes, pending ones included, which keeps that
script small enough. The times of `ConnectResume` keep the order of the code's
constants (step timeout < probe budget < floor < switch deadline < STUN window <
default window), and the grants 2, 5 and 18 lie below the floor, below the switch
deadline and above the STUN window. In `TtyDaemon` three chunks overflow the
channel and the ring; with two clients one preempts the other and each order of
leaving occurs.

### Fairness

`ServeAggregate!FairSpec` assumes that time passes and that the 5-second sweep
task runs again (it survives panics of a sweep). `AttachRuntime!FairSpec`
assumes that tokio polls every runnable task, that a target connect ends (20 s
timeout) and that the pending timer fires (5 s); it assumes nothing of peers,
targets, panics or the 30 s backstop of `hello`. `ResumeStream!FairSpec` assumes
that runnable tasks are polled, that a RESUME attempt ends by its timeouts, that
an episode ends with the resume window, and that an end whose peer has left the
connection finds out (idle timeout or reset) — except a client that has read the
server's FIN, which only notices when it writes. `SessionOrchestrator!LiveSpec`
has one condition: as long as some thread can run, some timer is due or some dial
or disconnect of a transport is outstanding, something of that happens. It
assumes no fairness between threads, no losses, no wakes and no calls of the app.
`TtyDaemon!FairSpec` assumes only that the task of `run()` goes on: each of its
waits is bounded by a timer. It assumes nothing of clients, their tasks or the
read loop.

## 4. Proofs

### The serve aggregate

`ServeAggregateProofs` proves, for every finite set of sessions, every set of
generations and attempts, every `MaxSessions > 0`, every window and every bound:

* `TypeCorrect`: `Spec => []TypeOK`
* `IndexAndSlotsAgree`: `Spec => []IndexMatchesSlots`
* `LeasesStayUnique`: `Spec => []LeasesUnique`
* `CapacityHolds`: `Spec => []CapacityRespected`
* `HolesNeverParked`: `Spec => []UnresumableNeverParked`
* `RegistersWithinCapacity`: `Spec => NeverRegisteredOverCapacity`
* `FencingHolds`: `Spec => FencingMovesForward`
* `EvictionIsFair`: `Spec => EvictionTakesTheOldest`

Assumptions are those of `ServeFsm` and `ServeAggregate`: session ids are
naturals (the eviction order breaks ties by id), generations are naturals,
`None` is not an attempt, `MaxSessions` is positive.

Argument. The inductive invariant `IInv` is the conjunction `AggInv(agg)` of
type, `IndexMatches`, `LeasesDistinct`, `WithinCapacity` and `HolesNotParked`.
None of the last four is inductive alone: discarding by index entry frees a slot
only if the entry and the slot carry the same lease; a stale event finds its
session by lease, so it touches one slot only if leases are unique; and the
index fits in the capacity only because it is a subset of the slots. The
reducers are built from a few rewrites (free, move or mint a slot, discard a set
of sessions, update an entry). Each rewrite has a lemma in `ServeFsmProofs` that
it preserves `AggInv`; each reducer has a lemma that cites the rewrites it uses;
`NextInv` has one case per action. `RegistersWithinCapacity` uses `IInv` to show
that an activating session's own slot leaves room in the index, so the
over-capacity branch of `on_activated` is dead. The last two are about pairs of
states: a reducer is one rewrite, or a discard followed by one, and each rewrite
moves no slot back (`Forward`), where a lease minted anew is larger than all before
it; only an admission occupies a slot that was free, and what it discards first is
nothing or the one session `OldestParked` names.

### The serve shell

`AttachRuntimeProofs` proves, for every finite set of attachers, any cancellers and
resumers and any workload of theirs:

* `SocketMapFollowsIndex`: `Spec => []SocketMapMatchesIndex`
* `HoldersOwnTheirSlots`: `Spec => []HolderOwnsTheSlot`
* `TargetsHaveOneHolder`: `Spec => []OneHolderPerSession`
* `SlotsAreNeverOrphaned`: `Spec => []NoOrphanedSlot`
* `SupersedeWaits`: `Spec => SupersedeWaitsForTeardown`
* `ShellImplementsAggregate`: `Spec => ImplementsAggregate`, the refinement of
  `ServeAggregate`

Assumptions, besides those of `ServeFsm`: `TasksAssumption` (the attachers are
finitely many, and a connection is not one of the tasks that are spawned, which is
about the names of tasks only) and `ClockAssumption` (graces and times are
naturals).

Argument. The inductive invariant has six parts:

* `AggInv(agg)`, the invariant of the aggregate;
* `TypeInv`: what a task may have to do, about leases that were minted;
* `TaskInv`: a connection that owns a target has nothing else to do, what may be
  aborted (connect tasks and timers) owns nothing, and the Drop fallbacks of a
  connection run only once it is over. So an abort loses nothing, and a panic
  finds room for its reports;
* `CountInv`: leases minted, leases a closing slot will mint and attachers not yet
  admitted are together at most `MaxLeases`, so the bound blocks no step;
* `SocketMapMatchesIndex`;
* `HoldInv`: whoever has a target's socket or is about to take it (`Claims`) is the
  only one of its session and has the entry of that lease, not parked; a report
  that is due (`Ended`, `Terminated`) is about an incarnation that nobody claims and
  that is not parked, and that is the Established one if its lease is in a slot at
  all; and an Established session is parked, claimed or due to be reported.

`OneHolderPerSession` alone is not inductive: a grant is safe only because the
parked socket has no holder, and a second report or a late one is harmless only
because its lease cannot come back. `ServeEffectsProofs` shows of every reducer
which in-lock effects it returns (`Follows`: at most one for a session, telling
exactly what became of its entry), what it may ask tasks to do, and that it leaves
alone everything that is held (`Quiet`), establishes, grants, parks or drops one
session. Each of the seven ways a hold can change has a lemma, and `NextInv` has
one case per action.

`SupersedeWaits` is about a pair of states and needs a seventh part, `TearInv`. A
lease that is still to be connected, or about to be reported as stopped, has no
entry in the map of resources and no connect task that may yet dial, except one that
the reporting task joins first; a lease is connected once, by one task; and a task
dials before anything else it has to do. Only the report of a stopped lease turns a
closing slot into a connecting one, so at that step nothing of the old lease is left
that could reach the target. The join is what the argument turns on: an abort alone takes
effect only at the connect task's next await.

For the refinement, the reducers of the instance are shown
equal to those of `ServeFsm` one by one, and every action is an event of the
aggregate with a minted lease or leaves it alone.

### The byte streams

`ResumeStreamProofs` proves, for every chunk size, all buffer sizes and every load
(bytes each way and number of connections):

* `Typed`: `Spec => []TypeOK`
* `BuffersAreLabelled`: `Spec => []ReplayIsLabelled`
* `OffsetsAgree`: `Spec => []NeverUnrecoverable`
* `OutputIsGapless`: `Spec => []OutputHasNoGap`
* `CountedOutputIsExact`: `Spec => []OutputExactWhenCounted`
* `UpstreamRefines`: `Spec => InputIsReliable`, the refinement of `ReliableStream`

Argument. The inductive invariant has one part per question a reader would ask of
a state:

* `TypeInv` and `PhaseInv`: what is on which stream, and what each end has in its
  hands, in each phase of a RESUME;
* `LabelInv`: a replay buffer holds exactly the bytes its start offset says;
* `AskInv`: the offsets in a RESUME and its answer are those of the ends that
  wrote them;
* `TrimInv`: an APP_ACK, sent or still to be sent, of this or of any earlier
  connection, never names more than the peer was given. Without it a late ack of
  an earlier connection could trim what a RESUME still needs, and `OffsetGone`
  would be answered;
* `UpInv`: on a live connection, what the target has, then what the server holds
  and has not written, then what the connection carries, then what the client has
  still to write, is stdin up to the last byte read; after a loss the replay
  buffer covers everything past the committed offset;
* `DownInv` and `OutInv`: the same from the target to stdout, where stdout may
  repeat bytes it took without counting them, but never skips one.

None of the last three is inductive without `LabelInv` (a replay is only as right
as the label of its first byte) and `TrimInv` (what must be replayed must still be
there). The refinement needs `UpInv` only: a step appends to `target` the bytes
that come next or leaves it alone. The premise of `CountedOutputIsExact` is the one
finding `resume_duplicate` shows to be needed.

### The resume decisions

`ConnectResumeProofs` proves `EpisodesEndInTime`, `LostContinuityTried`,
`SessionGoneIsTrue` and `StaleStandbyGoes`, that is `Spec => []P` for
`EpisodeEndsInTime`, `LostContinuityWasTried`, `SessionGoneIsReal` and
`StaleStandbyIsDropped`, for every set of routes, grants and delays and every
value of the planner's times.

Assumptions: those of `ResumePlanner` on its constants and, in `ConnectResume`,
`FloorAssumption`: the planner's floor for believing UnknownSession is at least
serve's idle timeout and one transport step together. The code's constants
satisfy it (a floor of 30 s, an idle timeout of 15 s and a step of 15 s,
`resume_fsm.rs:212-229`, `timing_relations.rs:40-54`). Without it
`SessionGoneIsReal` is false: the planner would believe an answer that serve gives
because it has not yet noticed the loss.

Argument. `PhaseInv` says for each phase of the planner which command is
outstanding and what the deadline, the clock and the path are then; `ServeInv` that
serve parks within its idle timeout of the disconnect; `StandbyInv` that a stale
standby, or a dial that will yield one, meets a jump of the clock the task has not
seen. Each event of the planner has a lemma that it takes an episode to an episode
with a well formed command, or ends it.

### The tty daemon

`TtyDaemonProofs` proves `OutputIsKept`, `ExitAfterOutput` and `InputIsCutOff`, that
is `Spec => []P` for `NothingIsLost`, `ExitComesLast` and `StaleInputIsOneFrame`,
for any set of clients and every size of the channel and of the ring. The inductive
invariant adds to the types: `SlotInv` (the occupant has the current generation and
nobody else has), `StaleInv` (a client whose stale frame got through has lost its
generation for good), `ExitInv` (an Exit is in a channel only once the read loop is
drained or timed out, and the writer that took it resends the ring first),
`WriterInv` (what a writer holds at each of its steps, and that the `missed` flag is
never left behind an empty channel), and `KeptInv`, the case split behind
`NothingIsLost`.

### The reconnect shell

`SessionOrchestratorProofs` proves, for every set of scripts (calls, transports and
loop policies) and every number of inputs, generations and epochs:

* `EdgesAreInOrder`: `Spec => []EdgesWellFormed`
* `ReplacedSessionsAreTold`: `Spec => []ReplacedSessionsEnd`
* `PublicationsAreDelivered`: `Spec => []NothingIsStranded`
* `AppShowsTheReducersState`: `Spec => []ShownStateAgrees`
* `ConnectedSessionIsLive`: `Spec => []ConnectedIsLive`
* `ReducerStateIsWellFormed`: `Spec => [](rs \in ReconnectStates /\ WellFormed(rs))`

The only assumption, `OrchestratorAssumption`, is about types: a script is a set of
calls, a set of transports and a policy, and the three bounds are naturals.

Argument. The reducer comes first. Every event has a lemma on what it emits: at most
four effects that take the edge (the generation it is open for and the one
established last) from the state before to the state after, legally step by step,
and either nothing that ends a program (`Plain`), or a last effect that starts a
loop with a new epoch (`Spawns`) or lets the loop sleep (`Arms`). The shell's
inductive invariant then has these parts:

* `TypeInv`, with `WellFormed` of the reducer's state, which every event needs and
  preserves;
* `ThreadInv`: what a thread may have to do and where in its program. A step that
  ends a program is its last, a delivery is at its head, and a loop is spawned once
  per epoch into a thread that has not run;
* `DrainInv`: `draining` is set exactly while a thread delivers, and one does;
* `StrandInv`: what is in the queue has a drainer or a flush still to come;
* `LedgerInv`: the edges delivered, the one being delivered and those in the queue
  are, in this order, one legal run that ends in the reducer's state. This is what
  makes `EdgesWellFormed` inductive: the order the app sees is the order of the
  critical sections, because staging is in the same one as the transition and at
  most one thread takes from the queue;
* `EdgesWellFormed` and `ReplacedSessionsEnd`.

`OrdinaryStep` covers every step but flush, delivery and spawn: a thread replaces
the head of its program by one that may stand there. `Publications` is recursive;
because no event has more than four effects it is unfolded that many times, so no
induction over data is needed.

The two properties of settled states need an account of every thread on its way
there. `LiveInv` gives it, on top of the invariant above; all but its first part is
for behaviours in which no `connect()` was refused at once, the premise the two
properties have:

* `BuildInv`: a session is built once, for a generation that has begun and has none
  yet, so a session that is there is never overwritten;
* `ShowInv`: what the app was shown, followed by what is being delivered and what is
  queued, ends in a state that agrees with the reducer (`Agree`). Agreement is weaker
  than equality in two places: Connected may outlive the connection while the next
  attempt is under way, and until a loop that has no clock yet announces itself;
* `LinkInv`: while the reducer is Connecting or Connected there is a session of the
  current generation, dialing or up, or a thread that will make one; and a loop
  without a clock has a thread that will spawn its task, or a task that has still to
  start it.

Every event of the reducer has a lemma (`Moves`) that it keeps agreement with what
it publishes and asks for a loop's task when it starts a loop, and `NextLive` has a
lemma per action. When all threads are idle or asleep, the queue is empty and no
dial is outstanding, the pending steps in `ShowInv` and `LinkInv` are gone and the two
properties remain; that the session is also the stored one is `ReplacedSessionsEnd`.
An epoch above `MaxEpoch` has no thread, so `SpawnReconnectLoop` has the bound in its
guard; on the instances it never blocks, which `TypeOK` checks.

### Only model-checked

* `TypeOK` of `SessionOrchestrator`: it says that the instance's `MaxGen` and
  `MaxEpoch` are never exceeded, which is a fact about the instance.
  `ReducerStateIsWellFormed` proves the part that holds for every value of them.
* Liveness under fairness (and with it `ENABLED`), which is out of the prover's
  reach, as is what a recursive definition computes for every input.

## 5. Not modelled, and the plan

Modelled: the server's aggregate and its shell, the byte streams of a session,
the client's resume decisions with the warm standby, the reconnection of the app
core, and the tty daemon. Still to be modelled, in this order:

1. `ConnectRecovery` (`isekai-ssh/src/connect_recovery_fsm.rs`): attempts,
   redeploys and backoffs against their budgets; then the mux reconnect reducer
   and the hand-off of isekai-ssh, with the death of the owner.
2. `PoolIdle` (`pool_idle_fsm.rs`, `pool.rs`), with the documented ABA of its
   generations, and the app core's own side of RESUME (`resume_client.rs`), which
   shares the replay buffer.
3. `PathHealth`, `GenerationCoordinator` and the rebind manager.
4. The attach client of the tty daemon and the lock file of a daemon name.

Left out of the modelled components:

* the idle-lifetime monitor of serve: the process may exit under a HELLO whose
  stream was accepted just then, nothing promises otherwise, and a client that
  loses a connection retries;
* the proofs of possession, frame codecs, argument handling and logging;
* status lines and OS notifications of the resume loop, and the retry while
  another session is busy, which comes before there is a session;
* the forwarding of terminal, clipboard, preview and file-transfer calls through
  the orchestrator.

Not planned: terminal emulation, tmux and file formats, bootstrap and trust
stores, QUIC back ends, user interfaces. They are parsing, rendering and I/O
without concurrent control of their own, and most of the repository's lines are
of this kind.
