----------------------------- MODULE HarnessGate -----------------------------
(***************************************************************************)
(* harness/loop.py: when the slow language model is asked, and what the    *)
(* agent does on the ticks it is not.                                      *)
(*                                                                         *)
(* One action is one call of HarnessAgent.decide, which the event gate     *)
(* (_should_ask) makes one of: a quiet hold (nothing is wrong yet), a      *)
(* stable hold (nothing changed, or the episode's calls are used up), or a *)
(* question.  An answer is parsed, validated against the mask of the tick, *)
(* recorded in the trace and remembered.  set_episode starts again.        *)
(* Panels, masks, answers and failures of the provider are arbitrary.      *)
(*                                                                         *)
(* An operator XSlip is X with one plausible slip of the code in it; the   *)
(* specification never uses it (README, "Mutants").                        *)
(***************************************************************************)
EXTENDS Contract

CONSTANTS
    Features,    \* the features on the panel
    Panels,      \* what the panel can show: an integer per feature
    Masks,       \* what ctx.available can be
    Requests,    \* the tools an answer names, known to the registry or not
    Novelty,     \* novelty_gate, in the panel's unit
    Heartbeat,   \* heartbeat_ticks
    MaxCalls,    \* max_calls_per_episode
    Ticks        \* bound: decision ticks of an episode

ASSUME HarnessAssumption ==
    /\ Panels \subseteq [Features -> Int]
    /\ None \notin Panels /\ None \notin Calls /\ None \notin Masks
    /\ Novelty \in Nat \ {0}
    /\ Heartbeat \in Nat \ {0}
    /\ MaxCalls \in Nat \ {0}
    /\ Ticks \in Nat

VARIABLES
    step,          \* decide() calls of the episode
    asked,         \* _asked: questions of the episode, the last included
    quietRun,      \* _quiet_run
    stableRun,     \* _stable_run
    lastPanel,     \* _last_panel
    lastAvail,     \* _last_available
    lastDecision,  \* _last_decision: the call in it ("no_op" if it abstains)
    records,       \* trace records of the episode
    raised,        \* an exception left decide(): the episode is over
    \* history
    did,           \* what the last decide() was: "start", "quiet", "stable", "asked"
    issued,        \* the call it returned
    silent,        \* decide() calls in a row without a question
    askedPanel     \* the panel of the last question

runs == <<quietRun, stableRun>>
last == <<lastPanel, lastAvail>>
vars == <<step, asked, runs, last, lastDecision, records, raised, did, issued,
          silent, askedPanel>>

-----------------------------------------------------------------------------
(* The event gate. *)

Abs(n) == IF n < 0 THEN -n ELSE n

\* "At the gate" is taken for "below the gate".
NearSlip(p, q) == \A f \in Features : Abs(p[f] - q[f]) <= Novelty

\* The L-inf distance of two panels is below the gate.
Near(p, q) == \A f \in Features : Abs(p[f] - q[f]) < Novelty

Capped == asked >= MaxCalls

\* Delivery is healthy, the anomaly gate has not fired, the transmit side is
\* fine (`well`), and there is no diagnosis yet.
NothingWrong(well) == well /\ lastDecision = None

NothingNew(p, avail) == lastPanel # None /\ avail = lastAvail /\ Near(p, lastPanel)

\* The quiet hold has no heartbeat.
QuietHoldSlip(well) == ~Capped /\ NothingWrong(well)

QuietHold(well) == ~Capped /\ NothingWrong(well) /\ quietRun + 1 < Heartbeat

StableHold(p, well, avail) ==
    ~Capped /\ ~NothingWrong(well) /\ NothingNew(p, avail) /\ stableRun + 1 < Heartbeat

-----------------------------------------------------------------------------
(* decide() *)

Turn == ~raised /\ step < Ticks /\ step' = step + 1

\* Nothing is spent on a held tick, and the question is not counted.
Hold(kind) ==
    /\ did' = kind
    /\ silent' = silent + 1
    /\ UNCHANGED <<asked, lastDecision, records, raised, askedPanel>>

HoldQuiet(well) ==
    /\ Turn
    /\ QuietHold(well)
    /\ quietRun' = quietRun + 1
    /\ issued' = "no_op"
    /\ Hold("quiet")
    /\ UNCHANGED <<stableRun, last>>

\* The hold repeats the call along with the belief.
HoldStableSlip(p, well, avail) ==
    /\ Turn
    /\ \/ Capped /\ UNCHANGED runs
       \/ StableHold(p, well, avail) /\ quietRun' = 0 /\ stableRun' = stableRun + 1
    /\ lastPanel' = p /\ lastAvail' = avail
    /\ issued' = lastDecision
    /\ Hold("stable")

\* Repeats the last belief, never the last call.  The panel remembered is that
\* of the held tick, so the next drift is measured from it.
HoldStable(p, well, avail) ==
    /\ Turn
    /\ \/ Capped /\ UNCHANGED runs
       \/ StableHold(p, well, avail) /\ quietRun' = 0 /\ stableRun' = stableRun + 1
    /\ lastPanel' = p /\ lastAvail' = avail
    /\ issued' = "no_op"
    /\ Hold("stable")

\* The gate lets the question through: the runs start again (a heartbeat of the
\* quiet hold leaves _stable_run alone), the panel and the mask are remembered.
Question(p, well, avail) ==
    /\ Turn
    /\ ~Capped /\ ~QuietHold(well) /\ ~StableHold(p, well, avail)
    /\ asked' = asked + 1
    /\ quietRun' = 0
    /\ stableRun' = IF NothingWrong(well) THEN stableRun ELSE 0
    /\ lastPanel' = p /\ lastAvail' = avail
    /\ did' = "asked" /\ silent' = 0 /\ askedPanel' = p

\* registry.validate
Validated(call, avail) == IF call \in Calls /\ call \in avail THEN call ELSE "no_op"

\* _emit and _remember.
Conclude(call) ==
    /\ records' = records + 1
    /\ lastDecision' = call
    /\ issued' = call
    /\ UNCHANGED raised

Answered(p, well, avail, call) ==
    Question(p, well, avail) /\ Conclude(Validated(call, avail))

\* A provider error is not recorded.
AbstainedSlip(p, well, avail) ==
    /\ Question(p, well, avail)
    /\ lastDecision' = "no_op" /\ issued' = "no_op"
    /\ UNCHANGED <<records, raised>>

\* A provider error, or a reply that does not parse even repaired.
Abstained(p, well, avail) == Question(p, well, avail) /\ Conclude("no_op")

\* The reply parses but `belief` or `args` is a list: .get, or .items in
\* validate, raises, and the exception leaves decide(), as does any exception of
\* the provider that is not an LlmError.
Malformed(p, well, avail) ==
    /\ Question(p, well, avail)
    /\ raised' = TRUE
    /\ issued' = "no_op"
    /\ UNCHANGED <<records, lastDecision>>

\* set_episode: the same agent, the next episode.
SetEpisode ==
    /\ step' = 0 /\ asked' = 0
    /\ quietRun' = 0 /\ stableRun' = 0
    /\ lastPanel' = None /\ lastAvail' = {} /\ lastDecision' = None
    /\ records' = 0 /\ raised' = FALSE
    /\ did' = "start" /\ issued' = "no_op" /\ silent' = 0 /\ askedPanel' = None

Init ==
    /\ step = 0 /\ asked = 0
    /\ quietRun = 0 /\ stableRun = 0
    /\ lastPanel = None /\ lastAvail = {} /\ lastDecision = None
    /\ records = 0 /\ raised = FALSE
    /\ did = "start" /\ issued = "no_op" /\ silent = 0 /\ askedPanel = None

Decide(p, well, avail) ==
    \/ HoldQuiet(well)
    \/ HoldStable(p, well, avail)
    \/ \E call \in Requests : Answered(p, well, avail, call)
    \/ Abstained(p, well, avail)
    \/ Malformed(p, well, avail)

Next ==
    \/ \E p \in Panels, well \in BOOLEAN, avail \in Masks : Decide(p, well, avail)
    \/ SetEpisode

Spec == Init /\ [][Next]_vars
-----------------------------------------------------------------------------
(* Properties. *)

TypeOK ==
    /\ step \in 0..Ticks /\ asked \in 0..MaxCalls
    /\ quietRun \in 0..(Heartbeat - 1) /\ stableRun \in 0..(Heartbeat - 1)
    /\ silent \in Nat
    /\ lastPanel \in Panels \cup {None} /\ askedPanel \in Panels \cup {None}
    /\ lastAvail \in Masks \cup {{}}
    /\ lastDecision \in Calls \cup {None} /\ issued \in Calls
    /\ records \in Nat /\ raised \in BOOLEAN
    /\ did \in {"start", "quiet", "stable", "asked"}

\* A hold on the last belief has one to repeat: whichever of the cap, the quiet
\* hold and a new episode comes first, the model was asked in this episode
\* before its answer is held on to (lines 338-341, `d.belief`).
HoldHasBelief == did = "stable" => lastDecision # None

\* Lines 297-303, "this bounds the whole class".  Until the cap, the model is
\* never left out for heartbeat_ticks decisions in a row, whatever mix of quiet
\* and stable holds they are.
NeverSilentForLong == asked < MaxCalls => silent < Heartbeat

\* A call other than no_op was asked for on this very tick and is in the mask of
\* this tick: a hold never spends again on an old answer, and an answer never
\* overrides the mask (lines 339-340, registry.validate).
CallIsFresh == issued # "no_op" => did = "asked" /\ issued \in lastAvail

\* The gate measures drift from tick to tick, so a slow drift is held through;
\* the heartbeat bounds how far: until the cap, a held belief is about a panel
\* less than one gate per held tick away (lines 312-319, 336).
StalenessBounded ==
    did = "stable" /\ asked < MaxCalls
        => \A f \in Features :
              Abs(lastPanel[f] - askedPanel[f]) <= stableRun * (Novelty - 1)

\* Every question leaves one record in the trace, failed ones included, but for
\* one that raised: it leaves none and ends the episode (trace.py 1-6, _emit).
OneRecordPerQuestion == asked = records + (IF raised THEN 1 ELSE 0)
=============================================================================
