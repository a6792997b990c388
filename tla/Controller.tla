----------------------------- MODULE Controller -----------------------------
(***************************************************************************)
(* agent/controller.py: the deterministic loop around the model.           *)
(*                                                                         *)
(* One action is one iteration of Controller.run: the simulator steps, the *)
(* percept is updated, and then exactly one of these happens: nothing      *)
(* (Watch), the dead-man failsafe declares the link lost (FailsafeDeclare),*)
(* or the model is asked and its call, filtered by the repeat-suppressor   *)
(* and the hard mask, is applied (Decide); every decision tick ends with   *)
(* recovery verification.  Time is counted in simulator steps (sim.dt).    *)
(* The world and the model are arbitrary: link health, the opening of the  *)
(* anomaly gate, scan results and the requested calls are chosen freely.   *)
(*                                                                         *)
(* An operator XSlip is X with one plausible slip of the code in it; the   *)
(* specification never uses it (README, "Mutants").                        *)
(***************************************************************************)
EXTENDS Contract

CONSTANTS
    Channels,        \* the radio channels
    Hypotheses,      \* what `Decision.top` can be
    AgentCalls,      \* the calls the model asks for
    ScanResults,     \* noise in dBm per scanned channel
    Pdr,             \* link health in percent, averaged over the links
    LoraAvailable,   \* scenario.lora_available
    AgentMayHang,    \* whether agent.decide may never return
    Steps,           \* n_steps
    DecisionEvery,   \* decision_every: steps per decision
    GateWarmup,      \* GATE_WARMUP_S of the feature extractor
    BaselineAfter,   \* the 5 s after which the baseline is frozen
    MaxCostly, MaxHops, MaxScans, MaxSilent, MaxMoves,   \* contract budgets
    MinScanInterval, \* budgets.min_scan_interval_s
    ScanFresh,       \* the 10 s a scan stays evidence for a hop
    NoLinkDeclare,   \* thresholds.no_link_declare_s
    RecoveryTimeout, \* budgets.recovery_timeout_s
    BudgetGrace,     \* the 3 s without link before an exhausted budget declares
    EscapeGrace,     \* the 2 s without link before an all-bad scan declares
    RecoveryHold     \* thresholds.recovery_hold_s

MonitorPdr == 60     \* above, once recovered: back to monitoring

Times == {DecisionEvery, GateWarmup, BaselineAfter, MinScanInterval, ScanFresh,
          NoLinkDeclare, RecoveryTimeout, BudgetGrace, EscapeGrace, RecoveryHold}

ASSUME ControllerAssumption ==
    /\ Pdr \subseteq Nat
    /\ AgentCalls \subseteq Calls
    /\ \A s \in ScanResults : DOMAIN s \subseteq Channels
                              /\ \A c \in DOMAIN s : s[c] \in Int
    /\ LoraAvailable \in BOOLEAN /\ AgentMayHang \in BOOLEAN
    /\ None \notin Nat
    /\ Steps \in Nat
    /\ Times \subseteq Nat
    /\ DecisionEvery > 0 /\ NoLinkDeclare > 0 /\ GateWarmup > 1
    /\ {MaxCostly, MaxHops, MaxScans, MaxSilent, MaxMoves} \subseteq Nat

\* The escalation ladder; `rung` records the deepest call made.
Ladder == [no_op |-> 0, set_tx_power |-> 1, change_tdma_slot |-> 2, reroute |-> 3,
           hop_channel |-> 4, move |-> 5, fallback_to_lora |-> 6,
           declare_link_lost |-> 7]

VARIABLES
    step,        \* i of the loop; the iteration starts at s.t = step
    phase,       \* i % decision_every
    pdr,         \* the last sample of pdr_hist
    noLinkFor,   \* no_link_for
    baseline,    \* baseline_pdr
    onset,       \* onset_t
    used,        \* the budget ledger
    tried,       \* keys of the repeat-suppressor, remedies only (see Suppressed)
    lastScan, lastScanT,
    channel,     \* sim.channel
    dirty,       \* history: some scan of the episode showed a reason to hop
    rung,
    declared, declaredLostT, endReason,
    holdStart, recoveryT,
    goodTicks,   \* history: decision ticks in a row, up to the last, at the level
    hung         \* agent.decide was called and has not returned

percept == <<step, phase, pdr, noLinkFor, baseline, onset>>
ledger == <<used, lastScan, lastScanT, channel, dirty>>
refusal == <<declared, declaredLostT, endReason>>
recovery == <<holdStart, recoveryT, goodTicks>>
vars == <<percept, ledger, tried, rung, refusal, recovery, hung>>

Env == INSTANCE Envelope WITH alarmed <- onset # None

-----------------------------------------------------------------------------
(* Lines 220-259: one simulator step and the bookkeeping every step does.  *)

NextPhaseSlip == phase + 1

\* (i + 1) % decision_every, counted instead of divided.
NextPhase == IF phase + 1 = DecisionEvery THEN 0 ELSE phase + 1

Observe(p) ==
    /\ ~hung
    /\ step < Steps
    /\ step' = step + 1
    /\ phase' = NextPhase
    /\ pdr' = p
    /\ noLinkFor' = IF p > UsablePdr THEN 0 ELSE noLinkFor + 1
    /\ \/ baseline = None /\ step > BaselineAfter /\ baseline' \in Pdr
       \/ (baseline # None \/ step <= BaselineAfter) /\ UNCHANGED baseline
    /\ \/ onset = None /\ step + 1 >= GateWarmup /\ onset' = step
       \/ UNCHANGED onset

\* Health is not read at all: once recovered, always recovered.
MonitoringForeverSlip == recoveryT # None

Monitoring == recoveryT # None /\ pdr' > MonitorPdr

DecisionDueSlip == ~Monitoring /\ onset' # None /\ phase = 0

\* Lines 261-269: not declared, not recovered and healthy, gate fired, on the cadence.
DecisionDue == ~declared /\ ~Monitoring /\ onset' # None /\ phase = 0

-----------------------------------------------------------------------------
(* The action mask. *)

Fresh == lastScanT # None /\ step - lastScanT < ScanFresh

\* "At least" for "more than".
HopUsefulSlip ==
    /\ channel \in DOMAIN lastScan
    /\ \E alt \in DOMAIN lastScan \ {channel} :
          lastScan[channel] > JamEnergy \/ lastScan[channel] - lastScan[alt] >= QuieterBy

HopUseful == HopPays(lastScan, channel)

CostlyLeft == used.costly < MaxCostly

HopAllowedSlip == used.hops < MaxHops /\ Fresh /\ HopUseful

HopAllowed == used.hops < MaxHops /\ CostlyLeft /\ Fresh /\ HopUseful

MoveAllowed == used.moves < MaxMoves /\ CostlyLeft

ScanAllowed ==
    /\ used.scans < MaxScans
    /\ lastScanT = None \/ step - lastScanT >= MinScanInterval

Available ==
    Always \cup {"declare_link_lost"}
    \cup {c \in {"spectrum_scan"} : ScanAllowed}
    \cup {c \in {"silent_listen"} : used.silent < MaxSilent}
    \cup {c \in Hops : HopAllowed}
    \cup {c \in Moves : MoveAllowed}
    \cup {c \in {"fallback_to_lora"} : LoraAvailable /\ CostlyLeft}

-----------------------------------------------------------------------------
(* The dead-man failsafe: the first rule that holds names the reason. *)

NoUsableLink == noLinkFor' >= NoLinkDeclare

\* A hold in progress puts the deadline off.
TimedOutSlip == holdStart = None /\ step - onset' >= RecoveryTimeout

TimedOut == step - onset' >= RecoveryTimeout

BudgetExhausted == used.costly >= MaxCostly /\ noLinkFor' > BudgetGrace

NoEscape ==
    /\ lastScan # NoScan
    /\ \A c \in DOMAIN lastScan : lastScan[c] > JamEnergy
    /\ noLinkFor' > EscapeGrace
    /\ ~LoraAvailable \/ used.lora > 0

\* Declaring is taken for one more costly action.
FailsafeDueSlip == CostlyLeft /\ (NoUsableLink \/ TimedOut \/ BudgetExhausted \/ NoEscape)

FailsafeDue == NoUsableLink \/ TimedOut \/ BudgetExhausted \/ NoEscape

FailsafeReason ==
    IF NoUsableLink THEN "no_usable_link_timeout"
    ELSE IF TimedOut THEN "recovery_timeout"
    ELSE IF BudgetExhausted THEN "budget_exhausted"
    ELSE "all_channels_jammed_no_escape"
-----------------------------------------------------------------------------
(* _apply, one operator per kind of call. *)

Raise(c) ==
    rung' = IF c \in DOMAIN Ladder /\ Ladder[c] > rung THEN Ladder[c] ELSE rung

\* no_op, tests and adjustments that cost nothing; they act on the world only.
ApplyFree(c) == c \in Always /\ UNCHANGED <<ledger, refusal>>

\* A scan shows a hot channel, or two channels more than QuieterBy dB apart.
Dirty(s) ==
    \E c \in DOMAIN s : s[c] > JamEnergy \/ \E d \in DOMAIN s : s[c] - s[d] > QuieterBy

ApplyScan(c) ==
    /\ c = "spectrum_scan"
    /\ lastScan' \in ScanResults
    /\ lastScanT' = step
    /\ used' = [used EXCEPT !.scans = @ + 1]
    /\ dirty' = (dirty \/ Dirty(lastScan'))
    /\ UNCHANGED <<channel, refusal>>

ApplySilent(c) ==
    /\ c = "silent_listen"
    /\ used' = [used EXCEPT !.silent = @ + 1]
    /\ UNCHANGED <<lastScan, lastScanT, channel, dirty, refusal>>

\* The simulator clamps the requested channel, so any channel can result.
ApplyHop(c) ==
    /\ c \in Hops
    /\ channel' \in Channels
    /\ used' = [used EXCEPT !.hops = @ + 1, !.costly = @ + 1]
    /\ UNCHANGED <<lastScan, lastScanT, dirty, refusal>>

ApplyMove(c) ==
    /\ c \in Moves
    /\ used' = [used EXCEPT !.moves = @ + 1, !.costly = @ + 2]
    /\ UNCHANGED <<lastScan, lastScanT, channel, dirty, refusal>>

ApplyLora(c) ==
    /\ c = "fallback_to_lora"
    /\ used' = [used EXCEPT !.lora = @ + 1, !.costly = @ + 1]
    /\ UNCHANGED <<lastScan, lastScanT, channel, dirty, refusal>>

DeclareLost(reason) ==
    /\ declared' = TRUE
    /\ declaredLostT' = step
    /\ endReason' = reason
    /\ UNCHANGED ledger

ApplyDeclare(c) == c = "declare_link_lost" /\ DeclareLost("agent_declared")

Apply(c) ==
    /\ Raise(c)
    /\ \/ ApplyFree(c)
       \/ ApplyScan(c)
       \/ ApplySilent(c)
       \/ ApplyHop(c)
       \/ ApplyMove(c)
       \/ ApplyLora(c)
       \/ ApplyDeclare(c)

\* A low tick does not start the hold again.
VerifyRecoverySlip ==
    IF Healthy(pdr', baseline')
    THEN /\ goodTicks' = goodTicks + 1
         /\ holdStart' = IF holdStart = None THEN step ELSE holdStart
         /\ recoveryT' = IF holdStart # None /\ recoveryT = None
                            /\ step - holdStart >= RecoveryHold
                         THEN step ELSE recoveryT
    ELSE goodTicks' = 0 /\ UNCHANGED <<holdStart, recoveryT>>

\* Lines 353-361, at the end of every decision tick.
VerifyRecovery ==
    IF Healthy(pdr', baseline')
    THEN /\ goodTicks' = goodTicks + 1
         /\ holdStart' = IF holdStart = None THEN step ELSE holdStart
         /\ recoveryT' = IF /\ holdStart # None
                            /\ step - holdStart >= RecoveryHold
                            /\ recoveryT = None
                         THEN step ELSE recoveryT
    ELSE holdStart' = None /\ goodTicks' = 0 /\ UNCHANGED recoveryT

-----------------------------------------------------------------------------
(* The branches of an iteration. *)

Watch(p) ==
    /\ Observe(p)
    /\ ~DecisionDue
    /\ UNCHANGED <<ledger, tried, rung, refusal, recovery, hung>>

FailsafeDeclare(p) ==
    /\ Observe(p)
    /\ DecisionDue
    /\ FailsafeDue
    /\ DeclareLost(FailsafeReason)
    /\ Raise("declare_link_lost")
    /\ VerifyRecovery
    /\ UNCHANGED <<tried, hung>>

\* The same (hypothesis, remedy) is asked for once.  The 900 s for which a key
\* is remembered outlast every episode.  Keys of other calls are stored too but
\* never read, so `tried` leaves them out.
Suppressed(top, call) == call \in Remedies /\ <<top, call>> \in tried

\* Lines 304-314: note the request BEFORE the mask is applied to it.
Remember(top, call) ==
    tried' = IF call \in Remedies THEN tried \cup {<<top, call>>} ELSE tried

\* What becomes of a request: the repeat-suppressor, then the hard mask.
Filtered(top, call) ==
    IF Suppressed(top, call) \/ call \notin Available THEN "no_op" ELSE call

Decide(p, top, call) ==
    /\ Observe(p)
    /\ DecisionDue
    /\ ~FailsafeDue
    /\ Remember(top, call)
    /\ Apply(Filtered(top, call))
    /\ VerifyRecovery
    /\ UNCHANGED hung

\* agent.decide runs on the loop's own thread: if it does not return, neither
\* the simulator nor the failsafe takes another step.
Hang(p) ==
    /\ AgentMayHang
    /\ Observe(p)
    /\ DecisionDue
    /\ ~FailsafeDue
    /\ hung' = TRUE
    /\ UNCHANGED <<ledger, tried, rung, refusal, recovery>>

\* Lines 363-377: the loop is over; the log is closed.
Close ==
    /\ step = Steps
    /\ endReason = ""
    /\ endReason' = IF recoveryT # None THEN "recovered" ELSE "episode_end"
    /\ UNCHANGED <<percept, ledger, tried, rung, declared, declaredLostT,
                   recovery, hung>>
-----------------------------------------------------------------------------
Init ==
    /\ step = 0 /\ phase = 0 /\ pdr \in Pdr /\ noLinkFor = 0
    /\ baseline = None /\ onset = None
    /\ used = Env!NothingSpent
    /\ tried = {} 
    /\ lastScan = NoScan /\ lastScanT = None
    /\ channel \in Channels /\ dirty = FALSE
    /\ rung = 0
    /\ declared = FALSE /\ declaredLostT = None /\ endReason = ""
    /\ holdStart = None /\ recoveryT = None /\ goodTicks = 0
    /\ hung = FALSE

Iterate(p) ==
    \/ Watch(p)
    \/ FailsafeDeclare(p)
    \/ \E top \in Hypotheses, call \in AgentCalls : Decide(p, top, call)
    \/ Hang(p)

Next == (\E p \in Pdr : Iterate(p)) \/ Close

Spec == Init /\ [][Next]_vars

\* The loop is a plain `for`: it takes its next iteration unless the model
\* never answers.
FairSpec == Spec /\ WF_vars(Next)
-----------------------------------------------------------------------------
(* Properties. *)

PerceptOK ==
    /\ step \in 0..Steps /\ phase \in 0..(DecisionEvery - 1)
    /\ pdr \in Pdr /\ noLinkFor \in 0..step
    /\ baseline \in Pdr \cup {None}
    /\ onset \in Nat \cup {None}

LedgerOK ==
    /\ used \in Env!Spend
    /\ lastScan \in ScanResults \cup {NoScan}
    /\ lastScanT \in Nat \cup {None}
    /\ channel \in Channels
    /\ dirty \in BOOLEAN

MemoryOK ==
    /\ tried \subseteq Hypotheses \X Remedies
    /\ rung \in 0..7
    /\ hung \in BOOLEAN

RefusalOK ==
    /\ declared \in BOOLEAN
    /\ declaredLostT \in Nat \cup {None}
    /\ endReason \in {"", "agent_declared", "no_usable_link_timeout",
                      "recovery_timeout", "budget_exhausted",
                      "all_channels_jammed_no_escape", "recovered", "episode_end"}

RecoveryOK ==
    /\ holdStart \in Nat \cup {None}
    /\ recoveryT \in Nat \cup {None}
    /\ goodTicks \in Nat

TypeOK == PerceptOK /\ LedgerOK /\ MemoryOK /\ RefusalOK /\ RecoveryOK

\* "A rogue agent cannot hop on fading" (tests/test_rogue_control.py:70): until a
\* scan of the episode has shown a hot channel or a materially quieter one, no
\* model, whatever it asks for and however often it scans, spends a hop or moves
\* the radio off its channel (mask, lines 114-129).
NoHopOnCleanSpectrum == ~dirty => used.hops = 0

\* What the envelope promises of the ledger, of the code's own: each budget, with
\* the one unit of overshoot that a last move can cause, and a costly total that
\* is the sum of its charges (BUDGET_COST, _apply, lines 102-136).
WithinBudget == Env!WithinBudget
Accounted == Env!Accounted

\* A link that has been dead ever since the gate fired is declared lost one
\* decision period after no_link_declare_s at the latest, whatever the model
\* answers on the way: the mask, the suppressor, a recovery recorded earlier
\* and the 1 Hz cadence cannot postpone it (lines 138-141, 261-291).
DeadLinkDeclared ==
    /\ onset # None
    /\ noLinkFor >= NoLinkDeclare + DecisionEvery - 1
    /\ step - onset >= DecisionEvery
    => declared

\* An episode whose link was never verified as recovered is declared lost one
\* decision period after recovery_timeout_s at the latest (line 142).
TimeoutDeclared ==
    /\ onset # None
    /\ step - onset >= RecoveryTimeout + DecisionEvery
    /\ recoveryT = None
    => declared

\* The two outcomes of the log are ordered: a recovery is never recorded after
\* the link was declared lost (lines 261, 348-359).
NoRecoveryAfterDeclare ==
    declared /\ recoveryT # None => recoveryT <= declaredLostT

\* A recovery is recorded only when every decision tick of a whole hold, the
\* last one included, found the level (lines 353-361): one low tick starts the
\* hold again.
RecoveryHeldAtTicks ==
    [][recoveryT = None /\ recoveryT' # None
         => (goodTicks' - 1) * DecisionEvery >= RecoveryHold]_vars

\* The controller refines the envelope: every spend, of any call, is one the
\* envelope allows, after the gate and before the refusal.
EnvelopeKept == Env!EnvSpec

\* With a model that always answers, a link that stays dead once the gate has
\* fired, with the steps left to notice, is declared lost (DESIGN.md 8.3).
DeadManFires ==
    [](/\ onset # None
       /\ step + NoLinkDeclare + DecisionEvery <= Steps
       /\ [](pdr <= UsablePdr)
       => <>declared)

\* agent_contract.json budgets.max_costly_actions, DESIGN.md A10 "hard action
\* budget (6 costly actions)", tests/test_agent_safety.py:71 "rogue agent cannot
\* exceed max_costly_actions": the code admits a move, charged 2, with 1 left.
CostlyBudgetHard == used.costly <= MaxCostly
=============================================================================
