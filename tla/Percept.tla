------------------------------- MODULE Percept -------------------------------
(***************************************************************************)
(* percept/features.py: FeatureExtractor, the part with memory.  One       *)
(* observation per tick moves the baselines, the change detector, the      *)
(* windows, the fade counters and, once warm, latches the anomaly gate.    *)
(* Delivery ratios are percents and noise is dB above the quiet floor; the *)
(* features that only rescale one observation are left out.                *)
(***************************************************************************)
EXTENDS Ring, FiniteSets, Functions, TLC

CONSTANTS
    CusumH,       \* CUSUM_H, percent x ticks
    Window,       \* _CORR_N, samples in a correlation window
    WarmTicks,    \* GATE_WARMUP_S
    ZeroRxTicks,  \* heartbeat age that counts as no reception
    GateMin,      \* beacons due, in and out of our shadow, before S4' counts
    HotCap,       \* hot channels remembered
    FadeCap       \* RunLength's cap

CusumK == 2       \* CUSUM_K, percent
FadePdr == 50     \* FADE_PDR_THRESH
NoiseUpDb == 6
RetryUp == 35
PeakDb == 3       \* HOT_PEAK_MARGIN_DB
ShadowUp == 20    \* percent of loss more in our shadow than outside

ASSUME PerceptAssumption ==
    /\ {Window, WarmTicks, HotCap, FadeCap} \subseteq Nat \ {0}
    /\ {ZeroRxTicks, GateMin, CusumH} \subseteq Nat

Reasons == {"none", "pdr", "noise", "retry", "zero_rx", "tx_shadow"}
NoOnset == -1

VARIABLES
    ticks,
    base, noiseBase,     \* pdr_base, noise_base: Ewma values, -1 before the first
    cusum,               \* cusum.s
    onset, reason,       \* onset_t, _gate_reason
    pdrHist, lossHist,   \* two of the rings that `pearson` pairs
    shadow,              \* _gate_shadow_exp, .. : beacons due and missed
    hot,                 \* hot_channel_hist
    fades,               \* fade_runs
    outage               \* outage_ticks

perceptVars == <<ticks, base, noiseBase, cusum, onset, reason, pdrHist, lossHist,
                 shadow, hot, fades, outage>>

PerceptInit ==
    /\ ticks = 0 /\ base = -1 /\ noiseBase = -1 /\ cusum = 0
    /\ onset = NoOnset /\ reason = "none"
    /\ pdrHist = NewRing(Window) /\ lossHist = NewRing(Window)
    /\ shadow = [exp |-> 0, miss |-> 0, silentExp |-> 0, silentMiss |-> 0]
    /\ hot = <<>> /\ fades = NewRuns /\ outage = 0

Bigger(a, b) == IF a > b THEN a ELSE b

-----------------------------------------------------------------------------
(* What an observation is reduced to: a mean over the links heard, or one  *)
(* perfect link when there is none.                                        *)

NoLinks == [pdr |-> 100, retry |-> 0, hb |-> 0]

Mean(f) == SumFunction(f) \div Cardinality(DOMAIN f)

MeanOf(links, field) ==
    IF links = <<>> THEN NoLinks[field] ELSE Mean([p \in DOMAIN links |-> links[p][field]])

\* hb_now > 3: the quietest link.
ZeroRx(links) == \E p \in DOMAIN links : links[p].hb > ZeroRxTicks

Reduced(o) ==
    [t |-> o.t, pdr |-> MeanOf(o.links, "pdr"), retry |-> MeanOf(o.links, "retry"),
     noise |-> o.noise, zeroRx |-> ZeroRx(o.links),
     shadowExp |-> o.shadowExp, shadowMiss |-> o.shadowMiss,
     silentExp |-> o.silentExp, silentMiss |-> o.silentMiss]

-----------------------------------------------------------------------------
(* The change detectors. *)

\* Ewma.update at the 60 s time constant: the first sample is taken whole; later
\* ones pull by 1/600 of the distance, one unit of this scale at most.
Drifts(v, x) == IF v = -1 THEN {x}
                ELSE IF x > v THEN {v, v + 1} ELSE IF x < v THEN {v, v - 1} ELSE {v}

\* The allowance is added instead of taken off.
CusumUpdateSlip(c, x, b) == Bigger(0, c + (b - x + CusumK))

\* A detector without memory.
CusumForgetSlip(c, x, b) == Bigger(0, b - x - CusumK)

CusumUpdate(c, x, b) == Bigger(0, c + (b - x - CusumK))

\* S4' needs enough beacons on both sides: lost more often right after we transmit.
ShadowGate(k) ==
    /\ k.exp >= GateMin /\ k.silentExp >= GateMin
    /\ (k.miss * k.silentExp - k.silentMiss * k.exp) * 100 > ShadowUp * k.exp * k.silentExp

CountShadow(o) == [exp |-> shadow.exp + o.shadowExp, miss |-> shadow.miss + o.shadowMiss,
                   silentExp |-> shadow.silentExp + o.silentExp,
                   silentMiss |-> shadow.silentMiss + o.silentMiss]

Warm == ticks + 1 >= WarmTicks

\* The triggers of this tick, in the order `_gate_reason` prefers them.
Trigger(o) ==
    IF cusum' > CusumH THEN "pdr"
    ELSE IF noiseBase # -1 /\ o.noise - noiseBase' > NoiseUpDb THEN "noise"
    ELSE IF o.retry > RetryUp THEN "retry"
    ELSE IF o.zeroRx THEN "zero_rx"
    ELSE IF ShadowGate(shadow') THEN "tx_shadow" ELSE "none"

\* Lines 268-283: the gate latches once.
Latch(o) ==
    IF Warm /\ onset = NoOnset /\ Trigger(o) # "none"
    THEN onset' = o.t /\ reason' = Trigger(o)
    ELSE UNCHANGED <<onset, reason>>

\* Lines 197-212: the baselines track nominal conditions only.
Learn(o) ==
    IF onset = NoOnset
    THEN base' \in Drifts(base, o.pdr) /\ noiseBase' \in Drifts(noiseBase, o.noise)
    ELSE UNCHANGED <<base, noiseBase>>

-----------------------------------------------------------------------------
(* Spectral memory. *)

\* sorted(levels)[len // 2]
Median(scan) ==
    CHOOSE m \in Range(scan) :
        /\ Cardinality({c \in DOMAIN scan : scan[c] < m}) <= Cardinality(DOMAIN scan) \div 2
        /\ Cardinality({c \in DOMAIN scan : scan[c] <= m}) > Cardinality(DOMAIN scan) \div 2

Hottest(scan) == CHOOSE c \in DOMAIN scan : \A d \in DOMAIN scan :
                     scan[d] < scan[c] \/ (scan[d] = scan[c] /\ c <= d)

\* A flat band has a hottest channel too.
StandsOutSlip(scan) == TRUE

StandsOut(scan) == scan[Hottest(scan)] - Median(scan) >= PeakDb

\* note_scan: only a channel that stands out of the band is remembered.
NoteScan(scan) ==
    hot' = IF scan = <<>> \/ ~StandsOut(scan) THEN hot
           ELSE IF Len(hot) = HotCap THEN Append(Tail(hot), Hottest(scan))
           ELSE Append(hot, Hottest(scan))

\* scan_periodicity is not zero: the feature that says "sweep".
HotMoved == \E i \in 2 .. Len(hot) : hot[i] # hot[i - 1]

-----------------------------------------------------------------------------
(* FeatureExtractor.update. *)

\* Lines 199 and 288: both in every update, so that a position is one tick in both.
Remember(o) ==
    /\ pdrHist' = Push(pdrHist, o.pdr)
    /\ lossHist' = Push(lossHist, 100 - o.pdr)

CountFades(o) ==
    /\ fades' = RunUpdate(fades, o.pdr < FadePdr, FadeCap)
    /\ outage' = IF o.pdr < FadePdr THEN outage + 1 ELSE outage

Update(obs) ==
    LET o == Reduced(obs) IN
    /\ ticks' = ticks + 1
    /\ cusum' = CusumUpdate(cusum, o.pdr, IF base = -1 THEN o.pdr ELSE base)
    /\ Learn(o)
    /\ Remember(o)
    /\ shadow' = CountShadow(o)
    /\ Latch(o)
    /\ CountFades(o)
    /\ UNCHANGED hot

-----------------------------------------------------------------------------
Percent == 0 .. 100

PerceptTypeOK ==
    /\ ticks \in Nat /\ cusum \in Nat /\ outage \in 0 .. ticks
    /\ {base, noiseBase} \subseteq Int
    /\ onset \in Nat \cup {NoOnset} /\ reason \in Reasons
    /\ pdrHist \in Rings(Window, Percent) /\ lossHist \in Rings(Window, Percent)
    /\ \A k \in DOMAIN shadow : shadow[k] \in Nat
    /\ Len(hot) <= HotCap
    /\ fades.cur \in 0 .. outage /\ Len(fades.runs) <= FadeCap

\* The drop that fires the gate if it lasts: deeper than the allowance, for as long
\* as it takes to exceed CUSUM_H.
LongEnough(d) == (CusumH \div (d - CusumK)) + 1

\* A collapse by `d` percent below the baseline, held for as many ticks as the
\* threshold needs, has opened the gate, although the baseline follows the link down.
CollapseDetected ==
    LET w == Values(pdrHist) IN
    \A d \in {5, 20, 60} :
        (/\ ticks >= WarmTicks /\ Len(w) >= LongEnough(d)
         /\ \A i \in Len(w) - LongEnough(d) + 1 .. Len(w) : base - w[i] >= d)
        => onset # NoOnset

SumSeq(s) == SumFunction(s)

\* Two counters of the same ticks, kept by different code: the runs of RunLength and
\* outage_ticks agree until the oldest runs are forgotten.
FadesAccounted ==
    /\ SumSeq(fades.runs) + fades.cur <= outage
    /\ Len(fades.runs) < FadeCap => SumSeq(fades.runs) + fades.cur = outage
=============================================================================
