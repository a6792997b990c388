# TLA+ verification of Jamming Survival

Jamming Survival is an on-device agent that watches a mesh radio link, works out why it
degraded (one of eight causes) and decides what to do about it. What a model checker can say most
about is not the classifier but what stands around it: the deterministic controller that lets
*any* model, however wrong or slow, act within a budget and give the link up in time; the same
controller written a second time around a live ns-3 simulator in another process; the gate that
decides when there is an anomaly at all; the threads, caches and pools that run it; the scorer
that says how it did; and the scripts that keep what it was trained on apart from what it is
scored on. This directory holds TLA+ models of those parts, TLC configurations that check them on
small instances, and TLAPS proofs of the theorems that matter most for every value of the
constants.

Paths below are relative to the repository root; `capstone/` holds the Python.

## 1. Inventory

| Component | State it keeps | Operations | What makes it correct |
|---|---|---|---|
| **Controller** `capstone/agent/controller.py` | the step, the percept's health history (no-link time, baseline, good run), the ledger `used`, the last scan, the suppressor's memory, the refusal, the recovery hold, the episode log | one iteration per 0.1 s; every 1 s: failsafe, model, suppressor, mask, `_apply`, recovery check | no model can overspend; a clean spectrum is never hopped on; a dead link is given up in time |
| **Bridge server** `capstone/sim/bridge_server.py` | the same, written again, plus the pending scan and the socket | preflight, launch, accept, read a state, answer it, time out, close, wait | lockstep with ns-3; ledger and radio agree; both processes stop whatever the other does |
| **ns-3 end of the bridge** `sim_ns3/jamming-sim.cc` 694-756, 1547-1772 | channel, hop count, socket | connect, send a state, block for an answer, perform it, carry on alone | as above |
| **Percept** `capstone/percept/` | ring buffers, CUSUM, run lengths, baselines, the latched onset, hot-channel history | update at 10 Hz, scan note, anomaly gate | the gate opens on what happened, in time, and on nothing else |
| **Reference simulator** `capstone/sim/refsim.py` | jammers, links, nodes, channel, load, position | step, scan, one method per call | a fault of each family shows in the observation |
| **Agents** `capstone/agent/` | tests bought, the policy file, weights | a decision from the features and the mask | a hop has evidence and goes elsewhere; a jammer is not named lightly; a rule leads only if it earned it |
| **LLM harness** `capstone/harness/loop.py`, `registry.py`, `parser.py` | last answer, holds, call count | decide whether to ask, ask, parse, validate, act | the slow model is asked when it must be, and no more than its cap |
| **Model gateway** `capstone/gateway/provider.py` | a directory of cached answers, counters | probe, complete with retries, stub | an answer returned is one the model gave to that prompt |
| **Batch runner** `capstone/harness/run_llm.py`, `trace.py` | the pool's futures, trace files, the summary | submit, collect, time out, resume | an episode is told once; a batch ends and reports every job |
| **Live demo** `capstone/demo/` | the run flag, subscribers' queues, a run thread and a log drain per run, the page | run, emit, stream, reconnect | a page tells one story; a run ends; its end is shown |
| **Verifier** `capstone/verify/verifier.py` | none | score an episode log | a refusal is not scored, a dropped guess is forgiven, drift is no claim |
| **Training** `capstone/train/`, `capstone/scenario/split.py`, `corpus.py` | scenario directories, row files, students, a report | a dozen scripts | nothing a student is scored on was used to train or tune it |
| **ns-3 world** `sim_ns3/jamming-sim.cc` (rest), `mesh-node-app.cc`; **firmware HAL** `firmware/` | jammers, energy trackers, sequence numbers; counters shared with the WiFi task | timed events, trace callbacks; sense, scan | not modelled: section 9 |
| **Teachers, self-correction, dashboard, adapters, tests, data** | files | batch scripts | not modelled: section 9 |

How they interact. In the reference simulator an episode is one thread: `Controller.run` calls
the simulator, the percept and the model in turn. Over the bridge there are two processes: ns-3
sends one JSON state per 0.1 s of simulated time and blocks until Python answers with one call.
The live demo starts `bridge_server.run` on a thread of its own; the bridge starts another that
drains ns-3's output; both push events to every connected page's queue, and each page is served
by an HTTP thread. The batch runner plays episodes in worker processes that meet in the cache
directory, each in trace files of its own. The training scripts meet only in the files they
leave.

What is hard: order of the failsafe, the mask, the suppressor and recovery inside one iteration;
the phase between the 10 Hz percept and the 1 Hz decisions; a model that never answers; a peer
process that dies between a message and its answer; a line that does not parse; threads that
report on one run through queues that fill; files that exist before they are whole; a batch that
was killed and is resumed; statistics whose baseline moves with what they should detect; scripts
in an order nobody planned. Every such place is listed, at its line, under `hazards` in
`PROJECT.json`.

## 2. The modules

| Module | Models | Extends |
|---|---|---|
| `Contract` | the vocabulary of calls, the thresholds and the judgements the controllers share | |
| `Envelope` | the abstract specification: what the wrapper around any model promises about spending | |
| `Controller` | `agent/controller.py`, with the world and the model as arbitrary environments | `Contract`, instantiates `Envelope` |
| `Bridge` | `sim/bridge_server.py` and the ns-3 end of its socket, two processes | `Contract`, instantiates `Envelope` |
| `HarnessGate` | `harness/loop.py`: when the slow model is asked, the holds between questions | `Contract` |
| `Gateway` | `gateway/provider.py` in several workers that share a cache directory | |
| `RunLlm` | `harness/run_llm.py`, `trace.py`: batches, faults, `--resume`, over the gateway | `Gateway` |
| `DemoServer` | `demo/live_demo.py` and the page | |
| `Ring` | `percept/ring.py`: the circular buffer and the run-length counter | |
| `Percept` | `percept/features.py`: the extractor's memory and the anomaly gate | `Ring` |
| `RefSim` | `sim/refsim.py`: a step, an observation, a scan and every actuation | |
| `Flight` | the loop that joins the two: step, observe, call | `RefSim`, `Percept` |
| `Verifier` | `verify/verifier.py`: `score_episode` as operators on a log | |
| `Scoring` | what the two controllers may write into a log | `Verifier` |
| `Policy` | `harness/policy.py`: how a file of rules matches; what the hybrid trusts | |
| `Agents` | baseline, rule agent, the student's decision rule, hybrid | `Contract`, `Policy` |
| `Pipeline` | which scenarios each file of the training pipeline holds | |
| `EnvelopeProofs`, `ControllerProofs`, `BridgeProofs`, `HarnessGateProofs`, `PipelineProofs`, `FlightProofs` | theorems about the module each is named after | that module, `TLAPS` |
| `RunnerProofs` | theorems about what runs episodes: the batch and the demo | `RunLlm`, `DemoServer`, `TLAPS` |
| `DecisionProofs` | theorems about what is decided and what is scored of it | `Agents`, `Scoring`, `TLAPS` |
| `MC...` | values of the constants that a `.cfg` cannot write | that module |

How state and actions correspond to the code:

* **Controller.** One action is one iteration of the `for i in range(n_steps)` loop of
  `Controller.run`: `Observe` is the part every iteration executes (lines 220-259), and the
  branch that follows is `Watch` (`continue` at 261-269), `FailsafeDeclare` (271-291), `Decide`
  (292-361: the model, the repeat-suppressor, the mask, `_apply`, the recovery check) or `Hang`
  (`agent.decide` does not return). `Close` is lines 363-377. `phase` is `i % decision_every`.
  The history list `pdr_hist` is kept as its last value and `goodFor`, how long it has been
  healthy. Three history variables that the code does not have: `dirty` (some scan showed a
  reason to hop), `goodTicks` and `executed`; no action's guard reads them.
* **Bridge.** ns-3 is `sim`, `tick`, `channel`, `hopsMade`, `movesMade`; the socket holds at most
  one message each way (`state`, `reply`) and whether Python closed it; `py` is where `run()`
  stands: preflight, accept, the read loop, `proc.wait`, gone. ns-3's `decide()` is `Send`, which
  blocks, and `Act` or `RecvFails` when it wakes. A message that Python handles is one of
  `Skip` (does not parse), `OffCadence`, `FailsafeDeclare`, `Gated`, `Decide` and `AgentRaises`;
  each is the whole way from `readline` to the answer. `Die` ends ns-3 at any point, also between
  a message and its answer.
* **HarnessGate.** One action is one `HarnessAgent.decide`: `HoldQuiet`, `HoldStable`, or a
  `Question` that ends `Answered`, `Abstained` or `Malformed` (the exception leaves `decide`).
  `SetEpisode` is `reset`, so a run of the checker covers several episodes of one agent. The
  panel is a function from features to integers; the L-inf distance of the code is below the
  gate exactly when every feature's difference is (`Near`).
* **Gateway.** `complete()` of a worker is a small program: does the file exist, read it, call
  the CLI (with retries), open the file for writing, which empties it, and close it, which fills
  it. Workers interleave between any two. A file holds an answer and its length; two writers of
  different lengths can leave one that does not parse (`Written`).
* **RunLlm.** `Start` is `main()` up to the pool, with or without `--resume`; `Take`, `Probed`,
  `Ask`, `Record`, `Return` are `run_one` of a worker; `Summarise`, `Deadline`, `LeavePool` end
  `main()`. A trace is the list of the runs that wrote its records. Faults: a child that never
  returns (`Stick`), a dead worker that breaks the pool (`PoolBreaks`), a container that is
  reclaimed between any two steps (`Reclaimed`), where only files survive.
* **DemoServer.** Threads: the handler of a tab's POST, which tests `_running` and sets it in two
  steps; the run; the log drain; a stream per tab. `_emit` is a copy of the subscribers and one
  `Put` per queue, and a full queue drops. An event carries the number of its run, which
  the code's events do not; the page is a function of the events it got (`Shown`).
* **Ring, Percept.** A ring is a record; `Push` and `Values` are the code's. An `Update` is one
  `FeatureExtractor.update`: means over the links heard, baselines and CUSUM, shadow counters,
  the five triggers and the latch, fades. Delivery is in percent, noise in dB over the quiet
  floor; baselines are integers whose moving average may round either way.
* **RefSim, Flight.** `Advance` is the first half of `step` (events, motion, reactive jammer) and
  `Measure` the second (links, shadow counters, report); a call of the controller is the method
  of that name. Propagation is a few levels: a jammer's power falls by a step of dB per step
  of distance, leaks into adjacent channels, and kills or does not kill a link. `Flight!Tick` is
  one iteration of the loop.
* **Verifier, Scoring.** `Score(log, truth)` is the record `score_episode` returns, as operators.
  `Scoring` is every log either controller may write for any agent: rows that were made,
  suppressed, masked or forced by the failsafe, which each controller writes its own way.
  Recovery is checked at every tick over a hold, as both controllers do. `said` is a history
  variable: the trace, had each answer of the agent been logged as it was given.
* **Policy, Agents.** One agent flies; `Sense` gives it any features and any mask, then it
  decides. The baseline reads `Cues`, the thresholded comparisons of its branches. The net's
  posterior is any member of a set; its decision rule, abstention, arguments and what the hybrid
  does with rules are the code's. Beliefs are weights compared after scaling by their sum.
* **Pipeline.** One action is one script; what is kept of a file is the set of scenarios its rows
  come from. Scripts run in any order, again and again, each with a `HOLD_OUT_FAMILY` of its own
  environment. `DaggerRound` is one round, and a DAgger run may be overtaken by a rebuild.

Abstractions common to all: times are counted in steps, messages or rows; beliefs are kept as far
as the decision reads them; wording, prompts and layout are left out. In `Controller` and
`Bridge` the world is *any* sequence of link qualities, scans and gate openings (after the
warm-up), and the model is *any* sequence of requests, masked and repeated ones included. What
holds of that model holds of every trained network, rule set, teacher or language model plugged
into this code. `Flight` then says what the gate itself does in the simulated world.

Each module states a `TypeOK` (or `...TypeOK`) for its reader. `Controller`'s is checked by a run
and proved; `Bridge`'s, `DemoServer`'s, `Gateway`'s, `Pipeline`'s and `HarnessGate`'s are proved; the
others document the state.

## 3. How the modules compose

`Controller` and `Bridge` are two programs that promise the same thing: the bridge repeats the
controller's mask, ledger and failsafe in its own words (`bridge_server.py:253` "mirroring
agent/controller.py"). `Envelope` states that promise once. Each module instantiates it with
`alarmed <- onset # None`, its own `declared`, and its own ledger (the bridge has no second
radio, so `lora <- 0`), and `EnvelopeKept == Env!EnvSpec` is checked as a property of both, and
proved of both. A step that charges something must be a `Charge` of the envelope: the
gate open, nothing declared, the counter's budget not used up, the right number of units. All
other steps stutter, open the gate or declare.

`Bridge` is itself a composition of two processes over a channel. `RunLlm` composes the pool with
one `Gateway` per worker over a shared cache. `Flight` composes the simulator with the extractor:
the observation is worked out by one and consumed by the other in one step, as in the loop.
`Scoring` composes what the controllers write with what the verifier reads. `DemoServer` takes
from `Bridge` only that a run ends, which `BothStop` shows. `HarnessGate` and `Agents` are agents:
for `Controller` and `Bridge` they are some of the arbitrary functions those are checked against.
`CallIsFresh` and `HopHasEvidence` are what they add.

## 4. The runs

| Run | Question | Result |
|---|---|---|
| `controller_budget` | can any model overspend, or hop before a scan showed why? | no: `WithinBudget`, `NoHopOnCleanSpectrum`, `EnvelopeKept`; `TypeOK` |
| `controller_timing` | do the failsafe's deadlines, the recovery hold and the refusal agree, whatever the link does? | yes: `DeadLinkDeclared`, `TimeoutDeclared`, `NoRecoveryAfterDeclare`, `RecoveryHeldAtTicks` and, with a model that answers, `DeadManFires` |
| `bridge_lockstep` | do two processes, either of which may fail anywhere, stay in step, agree on what was paid, and stop? | yes: `Lockstep`, `NothingUnpaid`, `SpectrumIsBought`, `DeadLinkGivenUp`, `EnvelopeKept`, `BothStop` |
| `harness_holds` | does the event gate hold, ask and record as it should over several episodes? | yes: `NeverSilentForLong`, `CallIsFresh`, `StalenessBounded`, `OneRecordPerQuestion` |
| `pool` | what can workers on one cache, and a batch that is killed and resumed, do to each other's files? | nothing that changes an answer: `AnswersAreGiven`, `OneStoryPerTrace`, `EveryJobReported`; files settle and the batch ends unless a child is stuck: `CacheSettles`, `HangsOnlyOnStuck` |
| `demo` | does a page tell one story, does every run end, and is its end shown? | yes, with one tab that clicks and the exceptions the properties name: `OneStory`, `RunsEnd`, `EndIsShown` |
| `world` | does the gate open on every collapse and dead peer, on nothing else, and does only a sweep look like one? | yes: `CollapseDetected`, `DeadPeerNoticed`, `GateIsCausal`, `OnlySweepsMove`; the two fade counters agree: `FadesAccounted` |
| `score` | what may change the claim an episode is scored on? | not an abstention, a guess that was dropped, or drift: `AbstentionNeverScored`, `HedgeForgiven`, `DriftIsNoClaim` |
| `agents` | when does an agent hop, accuse, or let a rule lead? | `HopHasEvidence`, `HopGoesElsewhere`, `AccusationIsWarranted`, `UnreliableNeverOverrules` |
| `pipeline` | can any order of the scripts score a student on what it has seen? | not with teacher rows of the `train` split: `EvaluatedClean` |
| `score_claims`, `pipeline_runbook` | does the code do what this sentence of its documentation says? | no; section 7 |

Bounds, and why they are enough:

* **Budgets of one to three units** (`controller_budget`, `bridge_lockstep`). Each budget is
  compared only with its own counter, and the costly total with the sum, so what can go wrong is
  at "one left", "none left" and "one kind used up while another is not". With a costly budget of
  3, two hops, two moves and fallbacks all these orders occur, odd and even totals included.
* **Times** keep the order of the real constants (grace < no-link deadline < recovery timeout,
  scan freshness > scan interval, hold > one decision period), scaled down. The decision period
  is 1 where only the order of calls matters and 2 where the phase between percept and decision
  does. `controller_timing` runs 12 steps: long enough for warm-up, a recovery, its hold, a
  relapse and both deadlines after it; three link levels (dead; alive but not recovered; well).
* **Two channels** for the controllers: the mask compares the channel in use with some other.
  `EdgeScans` holds a difference of exactly 6 dB both ways; `MixedScans` a scan that misses a
  channel. One hypothesis: the suppressor's key is (call, hypothesis), and the properties of
  these runs are about the ledger and the deadlines.
* **Bridge**: messages 2..10 with a decision every second one, which is four decisions after the
  warm-up, all of them able to spend. `FirstTick` is on the cadence, as 1.0 s is in the code.
* **HarnessGate**: heartbeat 3, cap 3, 12 decisions: both holds reach their heartbeat, and the
  cap, more than once per episode; the panels are a staircase whose steps are below the novelty
  gate and whose ends are further apart than it, and one that differs in a single feature. `Ticks`
  bounds the decisions of an episode, which the code bounds by its duration.
* **Pool**: two workers, two episodes that come to the same panel (that is where the cache is
  contended), two replies of different length, two attempts, one question per episode (`MaxAsks`),
  the batch started twice (`MaxRuns`) and one fault (`MaxFaults`): a crash at any step of the
  first run and a complete second one.
* **Demo**: one tab that reads and one wedged from the start, queues of 2 events against runs of
  3 or 4 (`MaxTicks` 1), so queues do fill; two runs (`MaxStarts`), one lost connection or
  reload, one simulator that aborts.
* **World**: eleven scenarios, one or more per family of `scenario/library.py`, three channels,
  two peers. The fault comes at tick 3, the warm-up's last (`WarmTicks` 3), and the episode runs 6
  ticks with at most two calls: enough for a CUSUM threshold of 8, a heartbeat limit of 2, S4'
  after 3 beacons and two scans that differ. The rings have 3 slots and wrap; the fade list has 2
  and forgets.
* **Score**: four rows, which is a claim, its successor, an action and one row after, and also a
  recovery hold (2 ticks, longer than `Within`, 1 tick, as 3 s is than 2 s) with a row after it;
  five kinds of belief cover sure, unsure, decided against the posterior, and abstained.
  `score_claims` takes the student of a bundle without an abstain threshold
  (`data/student_v10`), whose decision differs from argmax only below `act_confidence`.
* **Agents**: every combination of cues for the branches that read them, all rule files of up to
  two rules over two features, the net's posteriors in tenths over two jammers and two natural
  causes with the rows of `cost_matrix.yaml` for them. Section 6 removes these bounds.
* **Pipeline**: a scenario of each bucket and one of the held-out family that hashes into
  `train`; one corpus directory, two DAgger rounds, one `HOLD_OUT_FAMILY`. The theorem of section
  6 removes these bounds.

`CHECK_DEADLOCK FALSE` is used where the system does stop: an episode that is over
(`Controller`, `Bridge`, `Flight`, `Scoring`), a batch and a demo whose bounds on starts are used
up, scripts nobody runs again (`Pipeline`). That they stop only when they should is `DeadManFires`,
`BothStop`, `HangsOnlyOnStuck`, `RunsEnd`. `HarnessGate` and `Agents` are checked for
deadlock.

## 5. Fairness

`Controller!FairSpec` is `WF_vars(Next)`: the loop is a plain `for` on one thread, so it takes
its next iteration whenever it has one. A `Hang` is a state in which it has none. Fairness says
nothing about what the model answers or how the link behaves.

`Bridge!FairSpec` has weak fairness of the connection, of ns-3's steps, of Python's steps and of
the two timeouts, separately. Each process is a running program that moves unless it is blocked
in `recv` or `accept`, and `GiveUp` is a timer: `settimeout` and the one-minute accept loop
expire when they stay armed. Nothing is assumed of failures: `Die` is not fair, so the
simulator may die or not. That a blocked reader is freed therefore rests on the
read timeout, not on luck; dropping that timeout is the mutant that breaks `BothStop`.

`RunLlm!Spec` has weak fairness of `main()` and of each worker: processes that are scheduled. A
worker that is stuck has no step, and neither the deadline nor any fault is fair. The CLI has
a timeout of its own, so a call ends, one way or the other.

`DemoServer!Spec` has weak fairness of the handler that has checked the flag, of each run, each
log drain, and of delivery and reconnection for the tabs that read: daemon threads, and the
browser's `EventSource`, which reconnects by itself. Nobody has to click, and a wedged tab is
never served.

## 6. What is proved

All proofs are checked by TLAPS. What they assume is of two kinds. The named assumptions on the
constants, which TLC evaluates in every run:

* `ControllerAssumption`, `HarnessAssumption`, `BridgeAssumption`: counts and times are naturals,
  periods and deadlines are positive, scans cover channels; in `Envelope`, `BudgetsAreNat`.
* `RefSimAssumption` (with `ScenarioOK`, what a scenario file is: events in order of time, of known
  kinds), `PerceptAssumption`: peers and channels are finite sets, there is a peer, and
  windows, caps and the warm-up are positive.
* `AgentsAssumption`: at least two channels, in `1..n`; a mask offers `no_op` and
  `declare_link_lost`; the cost matrix has a row and a column per cause weighed and a posterior a
  weight for each; a rule needs a positive precision to lead. `ScoringAssumption`: time moves on
  between rows.
* `GatewayAssumption`: sizes and attempts are positive and `None` is no prompt, answer or file;
  `RunAssumption`: the jobs are distinct and the probe is a prompt; `DemoAssumption`: a queue has
  room for one event; `PipelineAssumption`.

And the premises that a few theorems state, because without them they are false:

| Premise | Of | Why it is there, and where it is true |
|---|---|---|
| `Disciplined` | `ScoredOnUnseen` | one `HOLD_OUT_FAMILY`, teacher rows of train or val: not enforced by the scripts (section 7) |
| `MissionsStayNear` | `GateCausal` | a mission can fly to where delivery drops without an event; the runs' scenarios fly no further than the link reaches, of a scenario file it is a matter of metres |
| `OnePartial` | `StillJammersStay` | two alternating jammers on parts of the band look like a sweep; no scenario of `scenario/library.py` or `corpus.py` has two |
| `NoRace`, or `OneClicker` | `StoriesWithoutRace`; `EpisodesInTurn`, `OneStoryTold` | the flag is tested and set in two steps (section 8) |
| `DistinctIds` | `RulesEarnTheLead` | `RuleSet.load` does not check ids; those of the shipped policy are distinct |
| `FadingIsDear`, `None \notin Accused` | `AccusationsWarranted` | a false alarm on fading costs 10 and naming fading at most 4 more than naming the jammer: the matrix of `contract/cost_matrix.yaml` and of every student under `data/`; "no cause" is not a cause |

**`Envelope`, `Controller`.**

* **`EnvelopeSound`**. The envelope keeps every budget, its account adds up, nothing is spent
  before the gate. `EnvInv`, the conjunction with types, is inductive as it stands.
* **`TypeCorrect`**, for `Controller`.
* **`EnvelopeRefined`**: `Spec => Env!EnvSpec`. `ApplyRefines` shows that a call the mask let
  through is a charge, a declaration or nothing; `FilteredAvailable` that what is applied has
  been let through; `ObserveGate` that observing only opens the gate.
* **`BudgetsKept`**: `EnvInv` through the refinement. So the bound of 7 for a budget of 6 in
  section 8 is not exceeded by any model, ever.
* **`CleanNeverHops`**. `NoHopOnCleanSpectrum` is not inductive: a hop looks at the last scan
  only. `WarrantInv` adds that a last scan with a reason to hop has made the episode `dirty`.
* **`FailsafeDeadlines`, `TimeoutKept`**: `DeadLinkDeclared` and `TimeoutDeclared`, for every
  decision period. The deadline is met at the *next* decision tick, so the invariant counts how
  many steps the current phase is since the last tick: a deadline that has been passed for `n` steps
  and is not yet declared has seen no tick in those `n` steps, hence `n` is less than the period.
  The timeout needs more: a recovery suspends the tick, so the invariant is guarded by the
  recovery that is recorded.
* **`RecoveryIsHeld`**: the action property `RecoveryHeldAtTicks`. `HoldInv` says that the age of
  a hold is its number of ticks times the period, plus the steps since the last tick; it holds
  while the model answers, which is when recoveries are recorded.
* **`OutcomesOrdered`**: `NoRecoveryAfterDeclare`, because a recovery is recorded in the present
  and nothing is looked at after a declaration (`OrderInv`).

**`Bridge`.**

* **`BridgeTypeCorrect`, `LockstepKept`**. `Lockstep` needs to know where the other process can be:
  `Phases` says that a message unread, or an answer other than the refusal, keeps Python at its
  socket, and that a closed socket or a declaration means that it has left for good; `Clock` that the
  samples lie in the past. `HeardKeeps` is the part all handlers share.
* **`NothingUnpaidFor`, `SpectrumBoughtOnce`**. Python charges before it answers, so an answer
  that is in flight when ns-3 dies was paid for and is never performed (`ServePays`,
  `SimulatePays`). A scan that is charged is pending until a message is heard, and every message
  that is heard pays it out, whatever becomes of its handler (`HearPays`).
* **`BridgeKeepsEnvelope`, `LiveBudgetsKept`**: the refinement of section 3 and, through it, the
  budgets of a live episode. The bridge suppresses before it masks and masks before it charges, so
  the argument is that of `Controller` in another order (`IssueRefines`).
* **`DeadLinksGivenUp`**. The failsafe's timer adds the gap between samples, and only on the
  cadence. `LinkInv` bounds the messages in a row that showed no link by the timer plus those heard
  since its last sample, which is no older than the cadence (`Timed`). It speaks of the messages
  *answered*: one that does not parse is dropped, and what it showed is bounded but not timed.

**`HarnessGate`.**

* **`GateTypeCorrect`, `NeverForgotten`, `HeldBeliefIsNear`, `AnswersAccounted`,
  `QuestionsRecorded`**. `GateInv` identifies the silence with the quiet run before the first answer
  and with the stable run after it; that is why two heartbeats bound one silence. `StaleInv` carries
  the bound on drift from the question on, one triangle inequality (`OneMoreStep`) per held tick.

**`RunLlm` over `Gateway`, `DemoServer`** (`RunnerProofs`).

* **`AnswersGiven`, `CacheIsFinal`**. `GatewayInv` adds to the property that a file that parses
  holds an answer to the prompt it is named after (`Filed`), and that a worker inside `complete()`
  has its prompt, that the file it reads or writes is there, and that what it writes answers that
  prompt (`Inside`). A file is never removed, so it is there for good; only a worker that is calling
  or storing writes it, and nobody starts to once it exists.
* **`JobsReported`, `StoriesToldOnce`**. A job is *held* while it is submitted or a worker has it.
  `BatchInv` says that a worker has an episode until it hands over its result, and that nothing is
  left or held when `main()` is over (`Occupied`), that what a resumed run holds has no records of
  an earlier run (`Untold`), and that a job without a result is held (`Owed`). At the summary nothing
  is held, hence everything has a result; and a worker appends only to what it holds.
* **`StoriesWithoutRace`, `EpisodesInTurn`, `OneStoryTold`**, for any number of tabs, runs and
  events. While no request races, one run is under way and the flag says so (`OneAtATime`); what a
  thread is sending is of its own run (`Outgoing`); each queue, and the page before it, ascends
  through the runs, each from its start (`InOrder`, `Unheard`); and a start that was queued for a tab
  is shown there or waits in the queue (`Remembered`). A start that a full queue drops was
  not sent: the property allows that run to be shown under the one before.

**`Percept` on `RefSim`** (`FlightProofs`), for every scenario, number of peers and channels,
window, threshold and sequence of calls. All use `WorldInv`: the clocks agree, events before the
cursor are past and those after it are not.

* **`PushSlides`**: what a ring's `values()` returns after a `push` is the window before it, slid by
  one, for every capacity. `PushSlots` says where a push leaves each slot; the three cases are a ring
  that is filling, the push that fills it (after which slots are read from the head) and one that
  wraps. Every windowed statistic of the percept rests on it.
* **`DeadPeersNoticed`**. `DownInv`: a peer whose last event is that it went down, and that is still a
  neighbour, is not alive and its heartbeat is as old as that.
* **`CollapsesDetected`**. The baseline follows the link down, so the drop shrinks while it is being
  summed. `FallInv` says that the detector has counted *every* fall at the end of the window, of
  any length and any of the three depths, against the baseline as it now is (`Counted`); a falling
  baseline only makes that weaker (`DriftDown`).
* **`GateCausal`**. Until the first event the world is as it was, delivery is 98 percent or more, the
  detector is at zero, and at most one beacon in twenty-five due in our own shadow was missed
  (`NominalInv`). The means over the links stay between the bounds of what is averaged
  (`MeanBetween`).
* **`FadesAddUp`**. `Totals`, the property, is inductive, given what a sum of a sequence does when
  one is appended or the head dropped (`SumOfSequence`).
* **`StillJammersStay`**. What the percept remembers of scans are peaks, the channels on which the
  scenario's one uneven jammer loses least (`Peak`, `HotInv`), and there is one such channel. A jammer
  on the whole band raises all channels alike (`ScanRaised`), a band without the other is flat
  (`FlatIsQuiet`), and hopping, moving and power change how loud the peak is, not where.

**`Agents` and `Scoring`** (`DecisionProofs`).

* **`HopsLeave`, `HopsHaveEvidence`**, for any number of channels, scan, mask and cues. The belief of
  the baseline is taken branch by branch: an old scan leaves the flavours of jamming too close to
  act on (`StaleIsUnsure`), and a cause that is not a jammer is never answered with a costly call
  (`RemedyFits`).
* **`RulesEarnTheLead`**: the rule that speaks exists (an order on positions has a first,
  `FirstExists`) and is trusted for its own precision (`TrustsItself`).
* **`AccusationsWarranted`**. Were more than two sevenths on fading, each unit of it would cost 10
  more under the accusation, and each other unit at most 4 more under fading, so fading would be
  cheaper: `CheaperLeavesLittle`, a statement about three sums over the causes.
* **`DriftScoresNothing`, `HedgesForgiven`, `AbstentionsUnscored`**, for any log. `LogInv`: rows and
  actions are in the order of time. The claim scored is that of the last action that anchors one
  (`FinalOf`); rows without an action move no anchor; and two logs that differ only in what an
  abstention leans to (`SameStory`) have the same score.

**`Pipeline`.**

* **`PipelineTypeCorrect`, `ScoredOnUnseen`**. `EvaluatedClean` is not inductive: a report is clean
  because of where the rows came from, several scripts ago. `Inv` says that every row file, DAgger
  round, file list held by a running DAgger and student contains only scenarios that split into train
  or val, and that test directories contain only the others. With two values of `HOLD_OUT_FAMILY` a
  scenario lies in `train` of one build and `test` of another, since the directory is never emptied.

Sums, means, maxima and folds of any length are used without induction: the community modules'
`FoldFunction` is a function chosen so that it satisfies its recursion, `SumExists` shows that
there is one, and a statement that failed of some set would fail of a least one (`LeastNatural`,
`PickByPick`), which the recursion contradicts.

Only model-checked: the liveness properties (`DeadManFires`, `BothStop`, `HangsOnlyOnStuck`,
`RunsEnd`, `EndIsShown`), because liveness under fairness and `ENABLED` are out of this prover's
reach. Every other property of a passing run is stated by a theorem above. What a *recursive* operator
computes could not be proved; none of the models declares one.

## 7. Findings

Each is a run that finds one sentence of the documentation or a comment to be false of the code.

| Run | The text | What the code does |
|---|---|---|
| `pipeline_runbook` | "Raise rather than report a contaminated number. This is a build failure." (`scenario/split.py:54`); "A scenario id appearing on both sides is a **build failure**, checked in CI" (`docs/DESIGN.md:460`) | `assert_no_leak` has no caller. The runbook's own recipe (`docs/RUNBOOK.md:162-163`, `178`) makes teacher rows with `--split any` and trains on them: the student has seen scenarios of the test split it is then scored on. `filter_traces` does not scan that file either (`DEFAULT`, 29-31) |
| `score_claims` | "An agent that separates its posterior from its minimum-expected-cost decision records the decision in `declared`; one that does not leaves it absent and argmax is used. Scoring argmax while advertising a cost rule was AUDIT F4.3" (`verify/verifier.py:71-74`) | the suppressor (`controller.py:309-312`) and the mask (315-318) rebuild the decision they take the call from without `declared`. A student sure of spot hops; then it declares fading while it leans to spot and asks for the hop again, which is suppressed; then it is sure of fading. The rebuilt row reads as spot, so the guess the student dropped counts as kept, and spot is scored instead of fading |

## 8. Noted without a run

Met while modelling; the models do what the code does. Definitions that state the opposite and
that no run checks are kept where named: adding one to the `.cfg` shows the counterexample.

Controllers and bridge:

* A move is masked by `used["moves"]` and "costly left >= 1" but costs 2 (`controller.py:130`,
  45-46, 199), so an episode can spend 7 of 6, against `docs/DESIGN.md:116` and the wording of
  `tests/test_agent_safety.py:71`, whose rogue never moves (`Controller!CostlyBudgetHard` in
  `Controller_budget.cfg`).
* The suppressor remembers a pair before the mask has had its say (`controller.py:314`, against
  the comment at 293): a remedy the mask replaced with `no_op` counts as tried.
* Recovery is sampled at decision ticks, and what the link does between two of them is not looked at
  (`controller.py:353`; `RecoveryHeldAtTicks` is about the ticks); `docs/SYSTEM_EXPLAINED.md:232` says
  "sustained 3 s".
* The failsafe shares a thread with the model (`controller.py:292`); `docs/DESIGN.md:326` says it
  runs "including if inference hangs". `Hang` models that; `DeadManFires` assumes an answer.
* The bridge declares a recovered link lost at `recovery_timeout_s`: it has no stand-down like
  `controller.py:263-266` (`bridge_server.py:371`; `docs/DESIGN.md:338`; `Bridge!RecoveredIsKept`
  in `Bridge_lockstep.cfg`).
* `channel_hop_probe` is charged as a hop by Python (`bridge_server.py:425`) and ignored by ns-3
  (`jamming-sim.cc:1704`). `NothingUnpaid` is therefore an inequality.
* The failsafe's "all channels bad" looks at the channels of the last scan. A scan of one hot
  channel, which the call's arguments allow, is enough (`controller.py:156-161`).
* The bridge adds the whole gap between decision ticks to its no-link time when the *last* of
  them shows no link, and the first gap is counted from time 0 (`bridge_server.py:353`).

Harness, gateway, batch:

* `ToolRegistry.validate` says "Never raises" (`registry.py:78`), but a reply whose `args` is a
  non-empty list, or whose `belief` is one, parses and then raises `AttributeError` out of
  `decide` (`Malformed`). `HARNESS_MAX_CALLS=0` makes the first decision a hold with no belief to
  repeat (`loop.py:338`); `HarnessAssumption` asks for at least one call.
* Past the cap `StalenessBounded` does not apply: the last belief is held for the rest of the
  episode. The comment at `loop.py:228-235` chooses that.
* "an identical prompt must always yield an identical decision" (`provider.py:6-10`) is false of
  two workers that miss the cache together: each acts on its own answer, and the file holds the
  last one. A file two writers have torn, or a kill has emptied, fails every later question of that
  prompt; if it is the probe's, a healthy model is replaced by the stub. A cached probe says
  "available" when the CLI is gone.
* "an existing non-empty file IS the completed work" (`run_llm.py:117-121`) is false of a trace
  that a reclaimed container left half-way: `--resume` skips it. `--resume` with nothing left to
  run overwrites `--out` with an empty summary. One stuck child does cost the record of the
  others (122-124): the pool's exit waits for it.

Demo:

* Two POSTs can both find the flag clear before either sets it (`live_demo.py:300`, 307; each
  request has a thread): two episodes run at once, although line 301 answers the second request
  with "a run is already in progress", and the first to end clears the flag of the other. With a
  second tab in `Clickers`, `DemoServer_stream.cfg` finds `OneStory` false, and `OneEpisode`, which no
  run checks, in five states. Such a race is the only way to two runs at once
  (`StoriesWithoutRace`); a page that is reloaded and clicked again within the window counts as a
  second tab.
* A crash event of the log drain may arrive after the verdict, or in the next run, and is
  exempt from `OneStory`. The import at line 114 is outside the `try`: if it fails, `_running`
  stays set until the server is restarted. The page's stale marker (`demo.html` 276-278)
  is kept from appearing by the server's 15 s ping.

Percept and simulator:

* Scans of three or more chosen channels can fake a moving hot channel when their sets differ, so
  `OnlySweepsMove` is about scans of the whole band. Two jammers on different parts of the band that
  take turns, which no scenario of the library has, would look like a sweep too (`OnePartial`). A
  mission may fly to where delivery drops without an event: the gate then opens before the first
  one (`MissionsStayNear`). With one beacon due `InShadow` rounds to 0
  and S4' is blind. A scan never sees a reactive jammer. A jammer that is on from the first tick
  is part of the baseline, and delivery dips before the warm-up count towards the CUSUM.
* In `refsim.py`: `reroute` never restores a neighbour after `node_up`; `neighbor_probe` refreshes
  a report's time without measuring; TDMA slot, load test and LoRa are never undone; the comment
  at 441 says a TDMA slot "denies a reactive jammer its trigger", and no line does that.
* `features.py` speaks of 48 features where `N_FEATURES` is 56; `RunLength.duty` assumes 10 Hz.

Scoring and agents:

* `false_positive_acted` never counts `channel_hop_probe`, which both controllers log as a test. A
  spurious early recovery of an unrecoverable link counts as survived; a declaration before
  the onset passes the refusal gate (`verifier.py:196-205`).
* A decision rebuilt by the suppressor, the mask or the failsafe loses `abstained` too. No agent
  of the repository asks for a call when it abstains (`student.py:108-113`) and the failsafe has no
  answer to rebuild, so `score_claims` is about the decision alone.
* `RuleSet.load` does not validate; of two rules with one id the later's precision counts for both,
  so an unreliable rule can lead (`UnreliableNeverOverrules` says "some rule that fires for that
  cause", and the runs' files have distinct ids). `RuleAgent`'s hop has no channel in its arguments,
  so the controller hops to the channel it is on; `HopGoesElsewhere` excludes it. Of the rules that
  match the hybrid hears one: an untrusted rule ahead of a trusted one keeps it from leading
  (`hybrid.py:98-107`). `baseline._cheapest_test` has branches that never fire. With the shipped
  cost matrix and an abstain threshold of 0.68 the cost rule never declares anything but the argmax.
  "the model must be far more confident" (`student.py:8-11`) amounts to at most two sevenths of the
  belief on fading when a jammer answered with a hop is named (`AccusationsWarranted`).

Training:

* `filter_traces` exits 0 whatever it found, and `Makefile:31-33` pipes it to `tail`, so gate G4
  cannot fail. `train_mixed` (92-97) adds the rows of a DAgger round that the base no longer has,
  so rows that were filtered out of the base come back with them. `reextract_ns3` reads truncated
  files that `gen_ns3_corpus` rejects. "One function, one definition, no second opinion"
  (`split.py:2`): `corpus.build` has its own copy, which agrees today (`BuiltSplit`).

## 9. Not modelled

* **ns-3's world** (`jamming-sim.cc` beyond the bridge, `mesh-node-app.cc`): C++ callbacks of
  ns-3's event scheduler, whose behaviour is the radio's, which the repository does not contain.
  Its callbacks are a hazard listed without a property: overlapping listening windows (1734), a
  sweeping jammer armed twice (261, 1174).
* **The firmware HAL**: `hal_sense` zeroes counters a WiFi task increments
  (`hal_esp32.c:167-187`); the loop that calls it and the tasks' priorities are not there.
* **OLSR patches**: vendored.
* **Teachers, self-correction harness, prototypes, export**: prompts, statistics over files,
  arithmetic on weights. **Dashboard, adapters, command line**: reading, formatting, arguments.
* **Within modelled parts**: floating-point arithmetic (levels instead), the feature vector
  beyond what the gate and the agents' branches read, parsing and repair of replies (any
  outcome), the arguments of calls except the channel of a hop in `Agents`, the probability
  with which a model errs, the aggregation of scores, and the random generation of scenarios.

## 10. Mutants

Next to some definitions there is one named `XSlip`: `X` with a plausible slip in it, such as a
dropped guard, `>=` for `>`, a reset that forgets a field. No specification uses them. Put in the
place of `X`, each makes the run named in `PROJECT.json` report the property named there, which
shows that the property depends on that piece of the code.

## 11. Plan

Done: all modules of section 2 with their runs, and a theorem for every invariant and every safety
action property that a passing run checks. What is left:

1. **`Controller` and `Agents` together**: that an agent of `Agents` plugged into `Controller` hops
   only where both the agent's evidence and the mask's agree, which today are two separate theorems.
2. **`Percept`**: the features beyond the gate that agents read (`pearson`, slopes), as far as a
   property of them can be stated without floating point.
3. **`Verifier`**: `score_many`'s aggregation, and that no field of a score looks past the end of the
   episode.
