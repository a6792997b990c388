------------------------------- MODULE Agents -------------------------------
(***************************************************************************)
(* The agents that decide from features: the hand-written baseline         *)
(* (agent/baseline.py), the induced rules alone (agent/rule_agent.py), the *)
(* decision rule of the trained net (agent/student.py; its posterior and   *)
(* its ranking of calls are arbitrary) and the hybrid of rules and net     *)
(* (agent/hybrid.py).                                                      *)
(*                                                                         *)
(* One of them flies.  On each tick the controller senses (any features,   *)
(* any mask, any last scan), the agent decides, and the decision is taken  *)
(* away.  A decision is [by, call, ch, declared, belief]: who led, the     *)
(* call, the channel in its arguments, the cause it commits to (None if it *)
(* names none apart from its belief) and weights in proportion to its      *)
(* belief.  Beliefs are weights that are compared after scaling by their   *)
(* sum (api.py normalise).                                                 *)
(***************************************************************************)
EXTENDS Contract, Policy, FiniteSets, Functions

CONSTANTS
    Channels,       \* 1..n_channels
    Cues,           \* what the baseline reads off the features
    Vectors,        \* what the rules read off them
    Posteriors,     \* the net's output: tenths over the causes of CostOrder
    Contexts,       \* [ch, mask, scan]: ctx.channel, available and last_scan
    Files,          \* policy files
    CostOrder,      \* cost_order, the causes the net weighs
    Cost,           \* cost_matrix: Cost[truth][declared]
    Abstain,        \* abstain_threshold, percent
    LeadPrecision   \* LEAD_PRECISION, percent

\* Comparisons of one or a few features with their thresholds; noise and bad, the
\* share of bad channels, have two thresholds each.
AllCues ==
    [tx : BOOLEAN, fresh : BOOLEAN, moving : BOOLEAN, nopre : BOOLEAN, split : BOOLEAN,
     gone : BOOLEAN, loadcorr : BOOLEAN, loaded : BOOLEAN, retry : BOOLEAN,
     corr : BOOLEAN, poor : BOOLEAN, noise : 0..2, bad : 0..2]

\* A scan of some of the channels, as noise levels.
ScanOK(scan) == DOMAIN scan \subseteq Channels /\ \A c \in DOMAIN scan : scan[c] \in Int

FileOK(file) ==
    /\ DOMAIN file = 1..Len(file) /\ Len(file) \in Nat
    /\ \A n \in DOMAIN file : Len(file[n].clauses) \in Nat /\ file[n].precision \in Int

\* The causes the net weighs.
Weighed == {CostOrder[n] : n \in DOMAIN CostOrder}

ASSUME AgentsAssumption ==
    /\ Cardinality(Channels) \in Nat /\ Cardinality(Channels) > 1
    /\ Channels = 1..Cardinality(Channels)
    /\ \A x \in Contexts : /\ x.ch \in Channels /\ x.mask \subseteq Calls /\ ScanOK(x.scan)
                            /\ {"no_op", "declare_link_lost"} \subseteq x.mask
    /\ Cues \subseteq AllCues
    /\ \A file \in Files : FileOK(file)
    /\ DOMAIN CostOrder = 1..Len(CostOrder) /\ Len(CostOrder) \in Nat \ {0}
    /\ Cost \in [Weighed -> [Weighed -> Int]]
    /\ \A p \in Posteriors : p \in [Weighed -> Nat]
    /\ Abstain \in 0..100 /\ LeadPrecision \in 1..100

CAUSES == <<"barrage", "spot", "reactive", "sweep",
            "fading", "node_loss", "congestion", "hidden_term">>

VARIABLES
    agent,   \* "baseline", "rules", "student" or "hybrid"
    rules,   \* its policy file, << >> if it has none
    done,    \* RuleAgent.done: the tests it has bought
    seen,    \* what the tick shows the agent: a context with cues, f or p; or None
    d        \* the decision on it, or None

vars == <<agent, rules, done, seen, d>>

SumOver(b) == FoldFunction(+, 0, b)
Heaviest(b) == CHOOSE c \in DOMAIN b : \A other \in DOMAIN b : b[other] <= b[c]

-----------------------------------------------------------------------------
(* The baseline.  Of the cues of AllCues, noise is 0 below .15, 1 up to    *)
(* .25 and 2 above; bad is 0, 1 or 2 for no bad channel, some, or most.    *)

\* Every cause starts at .02; b gives those raised above it, in hundredths.
Raised(b) ==
    [c \in {CAUSES[n] : n \in 1..8} |-> IF c \in DOMAIN b THEN b[c] ELSE 2]

One(cause, w) == Raised([c \in {cause} |-> w])

\* A belief of the baseline weighs every cause.
Mass(b) == b["barrage"] + b["spot"] + b["reactive"] + b["sweep"]
           + b["fading"] + b["node_loss"] + b["congestion"] + b["hidden_term"]

Jammed(x) == x.noise = 2 /\ x.nopre

\* Excess energy, and it neither tracks our own transmissions nor moves.
EnergyBelief(x) ==
    CASE x.fresh /\ ~x.split /\ x.bad > 0 -> One("barrage", 85)
      [] x.fresh /\ x.split -> One("spot", 85)
      [] x.fresh /\ ~x.split /\ x.bad = 0 -> Raised([c \in {"barrage", "spot"} |-> 30])
      [] ~x.fresh -> Raised([c \in {"barrage", "spot", "sweep"} |->
                               IF c = "sweep" THEN 15 ELSE 30])

QuietBelief(x) ==
    IF x.gone /\ x.noise = 0 THEN One("node_loss", 80)
    ELSE IF x.loadcorr /\ x.loaded THEN One("congestion", 80)
    ELSE IF x.retry /\ ~x.loaded THEN One("hidden_term", 70)
    ELSE IF x.corr /\ x.noise = 0 THEN One("fading", 85)
    ELSE IF x.poor /\ x.noise = 0
      THEN Raised([c \in {"fading", "node_loss"} |-> IF c = "fading" THEN 75 ELSE 10])
    ELSE Raised([c \in {} |-> 0])

\* A hot channel that moves is a sweep, however old the scan that shows it.
BeliefSlip(x) ==
    CASE x.tx -> One("reactive", 85)
      [] ~x.tx /\ x.moving -> One("sweep", 80)
      [] ~x.tx /\ ~x.moving /\ Jammed(x) -> EnergyBelief(x)
      [] OTHER -> QuietBelief(x)

\* BaselineAgent._belief
Belief(x) ==
    CASE x.tx -> One("reactive", 85)
      [] ~x.tx /\ x.fresh /\ x.moving -> One("sweep", 80)
      [] ~x.tx /\ ~(x.fresh /\ x.moving) /\ Jammed(x) -> EnergyBelief(x)
      [] OTHER -> QuietBelief(x)

Says(b, call, ch) ==
    [by |-> "baseline", call |-> call, ch |-> ch, declared |-> None, belief |-> b]

\* The next channel is off by one: the hop stays.
BestChannelSlip(scan, ch) ==
    LET alts == DOMAIN scan \ {ch} IN
    IF alts # {}
      THEN CHOOSE c \in alts : \A other \in alts : scan[c] <= scan[other]
      ELSE ((ch - 1) % Cardinality(Channels)) + 1

\* The least noisy channel scanned other than ours, or the next one.
BestChannel(scan, ch) ==
    LET alts == DOMAIN scan \ {ch} IN
    IF alts # {}
      THEN CHOOSE c \in alts : \A other \in alts : scan[c] <= scan[other]
      ELSE (ch % Cardinality(Channels)) + 1

\* The tests of _cheapest_test after the scan, in order.
Doubts == <<<<"reactive", "silent_listen">>, <<"node_loss", "neighbor_probe">>,
            <<"congestion", "load_test">>, <<"fading", "mobility_test">>>>

Unsure(b, w) == 10 * w > 2 * Mass(b) /\ 10 * w < 6 * Mass(b)

\* The cheapest test that separates the leading hypotheses, or none: abstain.
CheapestTest(b, s) ==
    LET helpful == {n \in 1..4 : Unsure(b, b[Doubts[n][1]]) /\ Doubts[n][2] \in s.mask}
    IN  IF ~s.cues.fresh /\ "spectrum_scan" \in s.mask THEN "spectrum_scan"
        ELSE IF helpful # {} THEN Doubts[CHOOSE n \in helpful : \A m \in helpful : n <= m][2]
        ELSE "no_op"

\* Barrage: LoRa if every channel is hot, else the least bad channel, else give
\* up if the evidence is strong.
AgainstBarrage(s) ==
    CASE s.cues.bad = 2 /\ "fallback_to_lora" \in s.mask -> "fallback_to_lora"
      [] ~(s.cues.bad = 2 /\ "fallback_to_lora" \in s.mask) /\ "hop_channel" \in s.mask
           -> "hop_channel"
      [] s.cues.bad = 2 /\ s.mask \cap {"fallback_to_lora", "hop_channel"} = {}
           -> "declare_link_lost"
      [] OTHER -> "no_op"

PLAYBOOK(cause) ==
    CASE cause \in {"spot", "sweep"} -> "hop_channel"
      [] cause = "barrage" -> "fallback_to_lora"
      [] cause \in {"reactive", "congestion", "hidden_term"} -> "change_tdma_slot"
      [] cause = "fading" -> "set_tx_power"
      [] cause = "node_loss" -> "reroute"

IfAvailable(call, mask) == IF call \in mask THEN call ELSE "no_op"

Remedy(top, s) ==
    IF top = "barrage" THEN AgainstBarrage(s) ELSE IfAvailable(PLAYBOOK(top), s.mask)

Baseline(s) ==
    LET b == Belief(s.cues)
        top == Heaviest(b)
        sure == 10 * b[top] >= 6 * Mass(b)
        call == IF sure THEN Remedy(top, s) ELSE CheapestTest(b, s)
    IN  Says(b, call, IF call = "hop_channel" THEN BestChannel(s.scan, s.ch) ELSE s.ch)

-----------------------------------------------------------------------------
(* The net's decision rule. *)

ExpectedCost(p, c) == SumOver([truth \in DOMAIN p |-> p[truth] * Cost[truth][c]])

\* argmax, whatever a mistake costs (use_cost_rule off).
DeclareSlip(p) == Heaviest(p)

\* The cause of least expected cost, the first of the order on a tie.
Declare(p) ==
    LET Best(n) == \A m \in DOMAIN CostOrder :
                      \/ ExpectedCost(p, CostOrder[n]) < ExpectedCost(p, CostOrder[m])
                      \/ ExpectedCost(p, CostOrder[n]) = ExpectedCost(p, CostOrder[m]) /\ n <= m
    IN  CostOrder[CHOOSE n \in DOMAIN CostOrder : Best(n)]

Abstains(p) == 10 * p[Declare(p)] < Abstain

\* What the net may decide: no_op and no cause below the threshold; else its
\* cause and the best ranked call that is available, hence any of them.
Student(s) ==
    IF Abstains(s.p)
      THEN {[by |-> "net", call |-> "no_op", ch |-> s.ch, declared |-> None, belief |-> s.p]}
      ELSE {[by |-> "net", call |-> call, declared |-> Declare(s.p), belief |-> s.p,
             ch |-> IF call \in Hops THEN BestChannel(s.scan, s.ch) ELSE s.ch]
              : call \in s.mask}

-----------------------------------------------------------------------------
(* The agents with rules. *)

KnownCauses == {CAUSES[n] : n \in 1..8}

\* The rule that fires, if what it names is a cause.
RuleHit(hit) == IF hit # << >> /\ hit[1].hypothesis \in KnownCauses THEN hit ELSE << >>

\* The rule's own call if it names one; its arguments are empty, so a hop stays.
RuleSays(rule, s) ==
    [by |-> "rule", declared |-> None, ch |-> s.ch, belief |-> One(rule.hypothesis, 90),
     call |-> IfAvailable(IF rule.call # None THEN rule.call ELSE PLAYBOOK(rule.hypothesis),
                          s.mask)]

LADDER == <<"spectrum_scan", "silent_listen", "neighbor_probe", "load_test">>

Rung(s) ==
    LET Unbought(test) == test \in s.mask /\ test \notin done
    IN  SelectSeq(LADDER, Unbought)

\* The net's shape kept, three quarters of the mass moved to the rule's cause.
LedBelief(belief, hyp) ==
    [c \in DOMAIN belief \cup {hyp} |->
       (IF c \in DOMAIN belief THEN belief[c] ELSE 0) + (IF c = hyp THEN 30 ELSE 0)]

\* A rule that earned it leads; below that it only speaks for a net that
\* abstained, with the net's call.
Hybrid(s) ==
    LET hit == RuleHit(MostSpecific(rules, s.f)) IN
    IF hit = << >> THEN Student(s)
    ELSE LET hyp == hit[1].hypothesis
             call == IfAvailable(PLAYBOOK(hyp), s.mask)
         IN IF Trust(rules, hit[1].id) >= LeadPrecision
              THEN {[by |-> "rule", call |-> call, declared |-> hyp,
                     belief |-> LedBelief(s.p, hyp),
                     ch |-> IF call \in Hops THEN BestChannel(s.scan, s.ch) ELSE s.ch]}
              ELSE {IF net.declared = None THEN [net EXCEPT !.by = "tie", !.declared = hyp]
                                           ELSE net : net \in Student(s)}

-----------------------------------------------------------------------------
(* The loop around the agent. *)

\* What an agent of the kind flown does not read is left out.
Shown(x, cues, f, p) ==
    [ch |-> x.ch, mask |-> x.mask, scan |-> x.scan, cues |-> cues, f |-> f, p |-> p]

Sense ==
    /\ seen = None
    /\ \E x \in Contexts :
         \/ agent = "baseline" /\ \E cues \in Cues : seen' = Shown(x, cues, None, None)
         \/ agent = "rules" /\ \E f \in Vectors : seen' = Shown(x, None, f, None)
         \/ agent = "student" /\ \E p \in Posteriors : seen' = Shown(x, None, None, p)
         \/ /\ agent = "hybrid"
            /\ \E f \in Vectors, p \in Posteriors : seen' = Shown(x, None, f, p)
    /\ UNCHANGED <<agent, rules, done, d>>

Asked == seen # None /\ d = None /\ UNCHANGED <<agent, rules, seen>>

BaselineDecides == Asked /\ agent = "baseline" /\ d' = Baseline(seen) /\ UNCHANGED done

StudentDecides == Asked /\ agent = "student" /\ d' \in Student(seen) /\ UNCHANGED done

HybridDecides == Asked /\ agent = "hybrid" /\ d' \in Hybrid(seen) /\ UNCHANGED done

RuleFires ==
    /\ Asked /\ agent = "rules"
    /\ RuleHit(Suggest(rules, seen.f)) # << >>
    /\ d' = RuleSays(RuleHit(Suggest(rules, seen.f))[1], seen)
    /\ UNCHANGED done

Flat == [c \in KnownCauses |-> 1]

\* No rule matched: the cheapest test not bought yet.
BuyTest ==
    /\ Asked /\ agent = "rules"
    /\ RuleHit(Suggest(rules, seen.f)) = << >>
    /\ IF Rung(seen) = << >>
         THEN d' = [by |-> "rule", call |-> "no_op", ch |-> seen.ch, declared |-> None,
                    belief |-> Flat] /\ UNCHANGED done
         ELSE /\ d' = [by |-> "rule", call |-> Head(Rung(seen)), ch |-> seen.ch,
                       declared |-> None, belief |-> Flat]
              /\ done' = done \cup {Head(Rung(seen))}

\* The controller carries the decision out.
Taken == d # None /\ d' = None /\ seen' = None /\ UNCHANGED <<agent, rules, done>>

\* reset(): the next episode.
Reset == seen = None /\ done # {} /\ done' = {} /\ UNCHANGED <<agent, rules, seen, d>>

Init ==
    /\ agent \in {"baseline", "rules", "student", "hybrid"}
    /\ rules \in IF agent \in {"rules", "hybrid"} THEN Files ELSE {<< >>}
    /\ done = {} /\ seen = None /\ d = None

Next == \/ Sense \/ BaselineDecides \/ StudentDecides \/ HybridDecides
        \/ RuleFires \/ BuyTest \/ Taken \/ Reset

Spec == Init /\ [][Next]_vars
-----------------------------------------------------------------------------
(* Properties. *)

\* "THE point of the whole project: do not hop" (baseline.py 159).  The baseline
\* spends on a hop, on LoRa or on giving up only on what a fresh scan showed: a
\* hot channel that moves, or energy with no preamble of ours; never when the
\* noise tracks its own transmissions.
HopHasEvidence ==
    (d # None /\ agent = "baseline"
        /\ d.call \in {"hop_channel", "fallback_to_lora", "declare_link_lost"})
    => /\ seen.cues.fresh /\ ~seen.cues.tx
       /\ seen.cues.moving \/ Jammed(seen.cues)

\* A costly unit buys a move: whoever decides, except the rules alone, never
\* asks for a hop to the channel it is on, whatever the last scan covered
\* (baseline._best_channel, student._args).
HopGoesElsewhere ==
    (d # None /\ agent # "rules" /\ d.call \in Hops) => d.ch # seen.ch /\ d.ch \in Channels

\* "Declaring jamming when the truth is fading costs 10, so the model must be
\* far more confident" (student.py 8-11): whatever the abstain threshold, the net
\* names a jammer that is answered with a hop only with at most two sevenths of its
\* belief on fading (10 for the false alarm against at most 4 for any other truth).
AccusationIsWarranted ==
    (d # None /\ d.by = "net" /\ d.declared \in {"barrage", "spot", "sweep"})
       => 7 * d.belief["fading"] <= 2 * SumOver(d.belief)

\* A rule overrules the net only if some rule of the file that fires for that
\* cause earned it on held-out rows and reads no feature known to be unreliable
\* (hybrid.py 37-40).
UnreliableNeverOverrules ==
    (d # None /\ agent = "hybrid" /\ d.by = "rule") =>
       \E n \in DOMAIN rules :
          /\ Matches(rules[n], seen.f) /\ rules[n].hypothesis = d.declared
          /\ rules[n].precision >= LeadPrecision /\ ~Leans(rules[n])
=============================================================================
