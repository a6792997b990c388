------------------------------- MODULE Bridge -------------------------------
(***************************************************************************)
(* sim/bridge_server.py and the AgentBridge of sim_ns3/jamming-sim.cc: two *)
(* processes in lockstep over a UNIX socket.  ns-3 sends one state message *)
(* per 0.1 s of simulated time and blocks until the answer; Python feeds   *)
(* every message to the percept and, on each decision tick, runs its own   *)
(* copy of the failsafe, the anomaly gate, the mask and the suppressor.    *)
(* Either end may die, and Python gives up waiting after a read timeout.   *)
(* Time is counted in messages (0.1 s).  What a call does to the radio is  *)
(* kept only for the channel and for the number of hops and moves made.    *)
(*                                                                         *)
(* An operator XSlip is X with one plausible slip of the code in it; the   *)
(* specification never uses it (README, "Mutants").                        *)
(***************************************************************************)
EXTENDS Contract, FiniteSets

CONSTANTS
    Channels, Hypotheses, AgentCalls,
    Bands,           \* what the band array of a state message can show
    Pdr,             \* delivery in percent, averaged over the links
    MayGarble,       \* whether a line can fail to parse
    MayDie,          \* whether ns-3 can die, and agent.decide raise
    FirstTick,       \* time of the first message (1.0 s)
    LastTick,        \* time of the last one (dur)
    DecisionEvery,   \* messages per decision (10)
    GateWarmup,      \* GATE_WARMUP_S of the feature extractor, in messages
    WarmUp,          \* WARMUP_S, which is also when the baseline freezes
    MaxCostly, MaxHops, MaxScans, MaxSilent, MaxMoves,
    MinScanInterval, ScanFresh, NoLinkDeclare, RecoveryTimeout, BudgetGrace,
    RecoveryHold

Times == {FirstTick, LastTick, DecisionEvery, GateWarmup, WarmUp, MinScanInterval,
          ScanFresh, NoLinkDeclare, RecoveryTimeout, BudgetGrace, RecoveryHold}

Messages == [t : Nat, pdr : Pdr, channel : Channels, legible : BOOLEAN]

ASSUME BridgeAssumption ==
    /\ Pdr \subseteq Nat
    /\ AgentCalls \subseteq Calls
    /\ \A b \in Bands : DOMAIN b \subseteq Channels /\ \A c \in DOMAIN b : b[c] \in Int
    /\ MayGarble \in BOOLEAN /\ MayDie \in BOOLEAN
    /\ None \notin Nat \cup Messages \cup Calls
    /\ Times \subseteq Nat /\ FirstTick > 0 /\ DecisionEvery > 0 /\ NoLinkDeclare > 0
    /\ FirstTick <= LastTick
    /\ {MaxCostly, MaxHops, MaxScans, MaxSilent, MaxMoves} \subseteq Nat

VARIABLES
    \* ns-3
    sim,          \* "none", "launched", "running", "awaiting" a reply,
                  \*   "alone" (simulating on without the bridge) or "ended"
    tick,         \* Simulator::Now() at the next, or last, decide()
    channel,      \* g_curCh
    hopsMade,     \* g_hops
    movesMade,    \* position changes made
    deadFor,      \* history: messages in a row that showed no usable link
    \* the socket
    state,        \* the state message Python has not read, or None
    reply,        \* the call ns-3 has not read, or None
    closed,       \* Python closed its end
    \* Python
    py,           \* "preflight", "accepting", "reading", "waiting" for ns-3 to
                  \*   exit, "returned" or "failed"
    onset,        \* ex.onset_t; onset_t equals it whenever it is read
    noLinkFor, lastT,
    baseline, holdStart, recoveryT,
    used, tried,
    pendingScan, prevScanT,
    lastScan,     \* last_scan_obj
    noted,        \* history: calls of ex.note_scan
    declared      \* actions holds declare_link_lost

world == <<sim, tick, channel, hopsMade, movesMade, deadFor>>
socket == <<state, reply, closed>>
percept == <<onset, pendingScan, lastScan, noted>>
health == <<noLinkFor, lastT, baseline, holdStart, recoveryT>>
ledger == <<used, tried, prevScanT>>
vars == <<world, socket, py, percept, health, ledger, declared>>

NothingUsed == [hops |-> 0, scans |-> 0, silent |-> 0, moves |-> 0, costly |-> 0]

Env == INSTANCE Envelope WITH
          alarmed <- onset # None,
          used <- [hops |-> used.hops, scans |-> used.scans, silent |-> used.silent,
                   moves |-> used.moves, costly |-> used.costly, lora |-> 0]

-----------------------------------------------------------------------------
(* ns-3: main() and decide() of jamming-sim.cc.                            *)

\* BridgeConnect: Python is listening before it launches ns-3.
Connect ==
    /\ sim = "launched" /\ py = "accepting"
    /\ sim' = "running" /\ py' = "reading"
    /\ UNCHANGED <<tick, channel, hopsMade, movesMade, deadFor, socket, percept,
                   health, ledger, declared>>

\* "could not connect; running offline".
ConnectFails ==
    /\ MayDie
    /\ sim = "launched"
    /\ sim' = "alone"
    /\ UNCHANGED <<tick, channel, hopsMade, movesMade, deadFor, socket, py, percept,
                   health, ledger, declared>>

\* The simulator does not block.
SendSlip(p, legible) ==
    /\ sim = "running"
    /\ state' = [t |-> tick, pdr |-> p, channel |-> channel, legible |-> legible]
    /\ tick < LastTick /\ tick' = tick + 1
    /\ deadFor' = IF p > UsablePdr THEN 0 ELSE deadFor + 1
    /\ UNCHANGED <<sim, channel, hopsMade, movesMade, reply, closed, py, percept,
                   health, ledger, declared>>

\* Assemble the state, send it, and block in BridgeRecv.
Send(p, legible) ==
    /\ sim = "running"
    /\ state' = [t |-> tick, pdr |-> p, channel |-> channel, legible |-> legible]
    /\ sim' = "awaiting"
    /\ deadFor' = IF p > UsablePdr THEN 0 ELSE deadFor + 1
    /\ UNCHANGED <<tick, channel, hopsMade, movesMade, reply, closed, py, percept,
                   health, ledger, declared>>

\* Only hop_channel retunes the radio, only move changes the position: ns-3
\* ignores channel_hop_probe and mobility_test.
Perform(call) ==
    /\ IF call = "hop_channel" THEN channel' \in Channels /\ hopsMade' = hopsMade + 1
                               ELSE UNCHANGED <<channel, hopsMade>>
    /\ movesMade' = IF call = "move" THEN movesMade + 1 ELSE movesMade

\* The next decide() returns at once after a declaration, and is not scheduled
\* after the last tick.
Act ==
    /\ sim = "awaiting" /\ reply # None
    /\ reply' = None
    /\ Perform(reply)
    /\ IF reply = "declare_link_lost" \/ tick = LastTick
       THEN sim' = "alone" /\ UNCHANGED tick
       ELSE sim' = "running" /\ tick' = tick + 1
    /\ UNCHANGED <<deadFor, state, closed, py, percept, health, ledger, declared>>

\* BridgeRecv sees the end of the stream: g_sock = -1.
RecvFails ==
    /\ sim = "awaiting" /\ reply = None /\ closed
    /\ sim' = "alone"
    /\ UNCHANGED <<tick, channel, hopsMade, movesMade, deadFor, socket, py, percept,
                   health, ledger, declared>>

\* The rest of the scenario is simulated without the agent.
Finish ==
    /\ sim = "alone"
    /\ sim' = "ended"
    /\ UNCHANGED <<tick, channel, hopsMade, movesMade, deadFor, socket, py, percept,
                   health, ledger, declared>>

\* A broken build, an assertion, a crash; an unread reply dies with the process.
Die ==
    /\ MayDie
    /\ sim \in {"launched", "running", "awaiting", "alone"}
    /\ sim' = "ended"
    /\ reply' = None
    /\ UNCHANGED <<tick, channel, hopsMade, movesMade, deadFor, state, closed, py,
                   percept, health, ledger, declared>>

-----------------------------------------------------------------------------
(* Python: the way in and the ways out. *)

Launch ==
    /\ py = "preflight"
    /\ py' = "accepting" /\ sim' = "launched"
    /\ UNCHANGED <<tick, channel, hopsMade, movesMade, deadFor, socket, percept,
                   health, ledger, declared>>

\* Lines 155-160: no binary, or one that cannot be executed.
PreflightFails ==
    /\ MayDie
    /\ py = "preflight"
    /\ py' = "failed"
    /\ UNCHANGED <<world, socket, percept, health, ledger, declared>>

\* An exception leaves run(); its socket goes with the frame.
Raise == py' = "failed" /\ closed' = TRUE

Kill == sim' = "ended" /\ reply' = None

\* Lines 203-222: ns-3 has exited, or a minute has passed.
AcceptGivesUp ==
    /\ py = "accepting"
    /\ Kill
    /\ Raise
    /\ UNCHANGED <<tick, channel, hopsMade, movesMade, deadFor, state, percept, health,
                   ledger, declared>>

\* The timeout asks proc.poll() first, as the accept loop does.
ReadTimeoutSlip ==
    /\ py = "reading" /\ state = None /\ sim = "ended"
    /\ Kill
    /\ Raise
    /\ UNCHANGED <<tick, channel, hopsMade, movesMade, deadFor, state, percept, health,
                   ledger, declared>>

\* Lines 264-271: no message for BRIDGE_READ_TIMEOUT_S of wall-clock time.
ReadTimeout ==
    /\ py = "reading" /\ state = None /\ sim # "ended"
    /\ Kill
    /\ Raise
    /\ UNCHANGED <<tick, channel, hopsMade, movesMade, deadFor, state, percept, health,
                   ledger, declared>>

Eof ==
    /\ py = "reading" /\ state = None /\ sim = "ended"
    /\ py' = "waiting" /\ closed' = TRUE
    /\ UNCHANGED <<world, state, reply, percept, health, ledger, declared>>

\* Line 520: proc.wait(timeout=120), then the episode log is returned; or the
\* wait times out and the log is lost with the exception.
WaitEnds ==
    /\ py = "waiting"
    /\ py' = IF sim = "ended" THEN "returned" ELSE "failed"
    /\ UNCHANGED <<world, socket, percept, health, ledger, declared>>

\* Lines 274-277: a line that does not parse is dropped, and not answered.
Skip ==
    /\ py = "reading" /\ state # None /\ ~state.legible
    /\ state' = None
    /\ UNCHANGED <<world, reply, closed, py, percept, health, ledger, declared>>

-----------------------------------------------------------------------------
(* Python: one state message. *)

\* Every message brings its band to the percept.
NoteScanSlip == lastScan' \in Bands /\ noted' = noted + 1

\* The band of the message is the result of the scan that is pending, if any.
NoteScan ==
    IF pendingScan THEN lastScan' \in Bands /\ noted' = noted + 1
                   ELSE UNCHANGED <<lastScan, noted>>

\* Lines 285-291: the message reaches the percept, and the spectrum with it if
\* a scan was paid for.  The anomaly gate may open.
Hear ==
    /\ py = "reading" /\ state # None /\ state.legible
    /\ state' = None
    /\ NoteScan
    /\ \/ onset = None /\ state.t - FirstTick + 1 >= GateWarmup /\ onset' = state.t
       \/ UNCHANGED onset

\* Write the answer and go on; on a socket whose other end is gone, flush raises.
Answer(call, next) ==
    IF sim = "ended"
    THEN Raise /\ UNCHANGED reply
    ELSE /\ reply' = call
         /\ py' = next
         /\ closed' = (next = "waiting")

OnCadence == state.t % DecisionEvery = 0

\* Lines 346-349.
OffCadence ==
    /\ Hear
    /\ ~OnCadence
    /\ pendingScan' = FALSE
    /\ Answer("no_op", "reading")
    /\ UNCHANGED <<world, health, ledger, declared>>

\* Line 353; the first sample counts from the start.
SinceSample == state.t - lastT

\* Lines 351-367: delivery is sampled on decision ticks.
Sample ==
    /\ OnCadence
    /\ lastT' = state.t
    /\ noLinkFor' = IF state.pdr > UsablePdr THEN 0 ELSE noLinkFor + SinceSample
    /\ \/ baseline = None /\ state.t > WarmUp /\ baseline' \in Pdr
       \/ (baseline # None \/ state.t <= WarmUp) /\ UNCHANGED baseline
    /\ IF Healthy(state.pdr, baseline')
       THEN /\ holdStart' = IF holdStart = None THEN state.t ELSE holdStart
            /\ recoveryT' = IF /\ holdStart # None /\ recoveryT = None
                               /\ state.t - holdStart >= RecoveryHold
                            THEN state.t ELSE recoveryT
       ELSE holdStart' = None /\ UNCHANGED recoveryT

NoUsableLink == noLinkFor' >= NoLinkDeclare
TimedOut == onset' # None /\ state.t - onset' >= RecoveryTimeout
BudgetExhausted == used.costly >= MaxCostly /\ noLinkFor' > BudgetGrace

\* The anomaly gate is asked before the failsafe is.
FailsafeDueSlip == onset' # None /\ (NoUsableLink \/ TimedOut \/ BudgetExhausted)

FailsafeDue == NoUsableLink \/ TimedOut \/ BudgetExhausted

\* Lines 375-383: before the anomaly gate, so with or without an onset.
FailsafeDeclare ==
    /\ Hear /\ Sample
    /\ FailsafeDue
    /\ declared' = TRUE
    /\ pendingScan' = FALSE
    /\ Answer("declare_link_lost", "waiting")
    /\ UNCHANGED <<world, ledger>>

GateClosed == state.t < WarmUp \/ onset' = None

\* Lines 386-391.
Gated ==
    /\ Hear /\ Sample
    /\ ~FailsafeDue /\ GateClosed
    /\ pendingScan' = FALSE
    /\ Answer("no_op", "reading")
    /\ UNCHANGED <<world, ledger, declared>>

\* The mask, lines 312-342.  There is no second radio to fall back to.
Fresh == prevScanT # None /\ state.t - prevScanT < ScanFresh
CostlyLeftSlip == used.costly <= MaxCostly
CostlyLeft == used.costly < MaxCostly

Available ==
    Always \cup {"declare_link_lost"}
    \cup {c \in {"spectrum_scan"} :
            /\ used.scans < MaxScans
            /\ prevScanT = None \/ state.t - prevScanT >= MinScanInterval}
    \cup {c \in {"silent_listen"} : used.silent < MaxSilent}
    \cup {c \in Hops : /\ used.hops < MaxHops /\ CostlyLeft /\ Fresh
                       /\ HopPays(lastScan', state.channel)}
    \cup {c \in Moves : used.moves < MaxMoves /\ CostlyLeft}

\* Lines 414-422: the mask first, then the repeat-suppressor.
Filtered(top, call) ==
    IF call \notin Available \/ (call \in Remedies /\ <<top, call>> \in tried)
    THEN "no_op" ELSE call

\* A position change is taken for a free call.
CostSlip(c) ==
    [used EXCEPT !.hops   = @ + (IF c \in Hops THEN 1 ELSE 0),
                 !.scans  = @ + (IF c = "spectrum_scan" THEN 1 ELSE 0),
                 !.silent = @ + (IF c = "silent_listen" THEN 1 ELSE 0),
                 !.costly = @ + (IF c \in Hops THEN 1 ELSE 0)]

\* Lines 425-436: the ledger after a call.
Cost(c) ==
    CASE c \in Hops            -> [used EXCEPT !.hops = @ + 1, !.costly = @ + 1]
      [] c \in Moves           -> [used EXCEPT !.moves = @ + 1, !.costly = @ + 2]
      [] c = "spectrum_scan"   -> [used EXCEPT !.scans = @ + 1]
      [] c = "silent_listen"   -> [used EXCEPT !.silent = @ + 1]
      [] OTHER                 -> used

\* What the decision that ends in call c leaves behind.
Issue(top, c) ==
    /\ tried' = IF c \in Remedies THEN tried \cup {<<top, c>>} ELSE tried
    /\ used' = Cost(c)
    /\ prevScanT' = IF c = "spectrum_scan" THEN state.t ELSE prevScanT
    /\ pendingScan' = (c = "spectrum_scan")
    /\ declared' = (c = "declare_link_lost")
    /\ Answer(c, IF c = "declare_link_lost" THEN "waiting" ELSE "reading")

Decide(top, call) ==
    /\ Hear /\ Sample
    /\ ~FailsafeDue /\ ~GateClosed
    /\ Issue(top, Filtered(top, call))
    /\ UNCHANGED world

\* agent.decide raises: ns-3 stays blocked until it sees the socket closed.
AgentRaises ==
    /\ MayDie
    /\ Hear /\ Sample
    /\ ~FailsafeDue /\ ~GateClosed
    /\ pendingScan' = FALSE
    /\ Raise
    /\ UNCHANGED <<world, reply, ledger, declared>>
-----------------------------------------------------------------------------
Init ==
    /\ sim = "none" /\ tick = FirstTick /\ channel \in Channels
    /\ hopsMade = 0 /\ movesMade = 0 /\ deadFor = 0
    /\ state = None /\ reply = None /\ closed = FALSE
    /\ py = "preflight"
    /\ onset = None /\ noLinkFor = 0 /\ lastT = 0
    /\ baseline = None /\ holdStart = None /\ recoveryT = None
    /\ used = NothingUsed /\ tried = {}
    /\ pendingScan = FALSE /\ prevScanT = None /\ lastScan = NoScan /\ noted = 0
    /\ declared = FALSE

Simulate ==
    \/ ConnectFails
    \/ \E p \in Pdr, legible \in {TRUE, ~MayGarble} : Send(p, legible)
    \/ Act
    \/ RecvFails
    \/ Finish

Handle ==
    \/ Skip
    \/ OffCadence
    \/ FailsafeDeclare
    \/ Gated
    \/ \E top \in Hypotheses, call \in AgentCalls : Decide(top, call)
    \/ AgentRaises

Serve == Launch \/ PreflightFails \/ Handle \/ Eof \/ WaitEnds

GiveUp == AcceptGivesUp \/ ReadTimeout

Next == Connect \/ Simulate \/ Serve \/ GiveUp \/ Die

Spec == Init /\ [][Next]_vars

\* Each process keeps running unless it is blocked, and a timeout that stays
\* armed expires.
FairSpec == Spec /\ WF_vars(Connect) /\ WF_vars(Simulate) /\ WF_vars(Serve)
                 /\ WF_vars(GiveUp)
-----------------------------------------------------------------------------
(* Properties. *)

TypeOK ==
    /\ sim \in {"none", "launched", "running", "awaiting", "alone", "ended"}
    /\ py \in {"preflight", "accepting", "reading", "waiting", "returned", "failed"}
    /\ {tick, hopsMade, movesMade, deadFor, noLinkFor, lastT, noted} \subseteq Nat
    /\ channel \in Channels
    /\ state \in Messages \cup {None}
    /\ reply \in Calls \cup {None}
    /\ {onset, holdStart, recoveryT, prevScanT} \subseteq Nat \cup {None}
    /\ baseline \in Pdr \cup {None}
    /\ used \in [hops : Nat, scans : Nat, silent : Nat, moves : Nat, costly : Nat]
    /\ tried \subseteq Hypotheses \X Remedies
    /\ lastScan \in Bands \cup {NoScan}
    /\ {closed, pendingScan, declared} \subseteq BOOLEAN

\* The bridge keeps the envelope the controller keeps: every charge of the live
\* episode is allowed by it, after the gate and before the refusal.
EnvelopeKept == Env!EnvSpec

\* "One reply per state message" (SYSTEM_EXPLAINED.md 3.2), and simulated time
\* is frozen meanwhile: a message and an answer are never in flight together,
\* and what Python decides on is the present of the simulator.
Lockstep ==
    /\ state # None => /\ reply = None
                       /\ sim \in {"awaiting", "ended"}
                       /\ state.t = tick /\ state.channel = channel
    /\ reply # None => sim = "awaiting"

\* Across the two processes: the simulator makes no hop and no move that the
\* ledger has not been charged for, the one in flight included.
NothingUnpaid ==
    /\ hopsMade + (IF reply = "hop_channel" THEN 1 ELSE 0) <= used.hops
    /\ movesMade + (IF reply = "move" THEN 1 ELSE 0) <= used.moves

\* Line 279 "...free scans it never paid for": the percept hears the spectrum
\* exactly once for every scan paid for.
SpectrumIsBought == noted + (IF pendingScan THEN 1 ELSE 0) = used.scans

\* A link that every message of the last no_link_declare_s and one decision
\* period showed dead is given up, gate or no gate (lines 369-383).
DeadLinkGivenUp ==
    deadFor >= NoLinkDeclare + DecisionEvery /\ state = None => py # "reading"

\* Whatever dies, raises or garbles a line, neither process is left running:
\* a reader that waits for a blocked writer is freed by the read timeout, a
\* simulator blocked on a dead controller by the closed socket.
BothStop == <>[](py \in {"returned", "failed"} /\ sim \in {"none", "ended"})

\* DESIGN.md 8.4 "Restored -> nominal", and lines 253-254 "mirroring
\* agent/controller.py": a link whose recovery is verified and holding is not
\* declared lost.  The bridge never asks for recovery_t.
RecoveredIsKept ==
    [][~declared /\ declared' => recoveryT' = None \/ holdStart' = None]_vars
=============================================================================
