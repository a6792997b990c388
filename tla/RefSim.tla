------------------------------- MODULE RefSim -------------------------------
(***************************************************************************)
(* sim/refsim.py: the reference simulator.  A step applies the scenario's  *)
(* events, moves, transmits or not, wakes a reactive jammer, works out the *)
(* state of every link and reports it; the controller's calls change the   *)
(* world between two steps.  Radio arithmetic is reduced to levels: noise  *)
(* in dB above the quiet floor, delivery in percent, distance in steps;    *)
(* random draws are choices.                                               *)
(***************************************************************************)
EXTENDS Integers, Sequences, FiniteSets, Functions, TLC

CONSTANTS
    Peers, Channels,
    Scenarios,    \* what from_dict accepts: see ScenarioOK
    Calls,        \* the calls tried between two steps
    MaxTicks      \* bound on the episode

VARIABLES
    sc,           \* the scenario; never changes
    t, channel, txPower, pos,
    alive, neighbors,
    jammerOn, reactiveUntil,
    faded, load, hidden, lora, slot, lost,
    evI,          \* _ev_i
    hbAge, reports,
    consecFail

world == <<sc, t, channel, txPower, pos, alive, neighbors, jammerOn, reactiveUntil,
           faded, load, hidden, lora, slot, lost, evI, hbAge, reports, consecFail>>

NotYet == -1
NominalLoad == 2       \* load_factor 1.0, in halves
KillDb == 10           \* noise that leaves no SINR
FarAway == 2           \* steps beyond which the link is marginal
StepDb == 6            \* what one step of distance takes off a jammer
AgentPower == 16       \* tx_power_dbm

JammerKinds == {"barrage", "spot", "sweep", "reactive"}
EventKinds == {"jammer_on", "jammer_off", "node_down", "node_up",
               "fade_enter", "fade_exit", "load_spike"}

ScenarioOK(s) ==
    /\ s.channel \in Channels /\ s.fadesTo \subseteq 0 .. 100
    /\ IsFiniteSet(DOMAIN s.jammers)
    /\ \A j \in DOMAIN s.jammers :
           /\ s.jammers[j].kind \in JammerKinds /\ s.jammers[j].channels \subseteq Channels
           /\ s.jammers[j].db \in Nat
    /\ Len(s.events) \in Nat /\ DOMAIN s.events = 1 .. Len(s.events)
    /\ \A i \in DOMAIN s.events :
           /\ s.events[i].t \in Nat /\ s.events[i].kind \in EventKinds
           /\ s.events[i].kind = "load_spike" =>
                  s.events[i].factor \in Nat /\ s.events[i].hidden \in BOOLEAN
    /\ s.mission \in Nat
    /\ \A i, j \in DOMAIN s.events : i <= j => s.events[i].t <= s.events[j].t

ASSUME RefSimAssumption ==
    /\ Channels \subseteq Nat /\ IsFiniteSet(Channels) /\ MaxTicks \in Nat
    /\ Peers # {} /\ IsFiniteSet(Peers)
    /\ \A s \in Scenarios : ScenarioOK(s)

NChannels == Cardinality(Channels)

RefSimInit ==
    /\ sc \in Scenarios
    /\ t = 0 /\ channel = sc.channel /\ txPower = AgentPower /\ pos = 0
    /\ alive = [p \in Peers |-> TRUE] /\ neighbors = Peers
    /\ jammerOn = [j \in DOMAIN sc.jammers |-> FALSE]
    /\ reactiveUntil = NotYet
    /\ faded = FALSE /\ load = NominalLoad /\ hidden = FALSE
    /\ lora = FALSE /\ slot = 0 /\ lost = FALSE /\ evI = 1
    /\ hbAge = [p \in Peers |-> 0] /\ reports = [p \in Peers |-> NotYet]
    /\ consecFail = 0

Larger(a, b) == IF a > b THEN a ELSE b
Smaller(a, b) == IF a < b THEN a ELSE b
Dist(a, b) == IF a > b THEN a - b ELSE b - a
\* round() of n/100
Round(n) == (n + 50) \div 100

-----------------------------------------------------------------------------
(* Jammers. *)

\* ADJ_LEAK_DB, in dB lost per channel of offset.
LeakDb(offset) == IF offset > 5 THEN 50 ELSE <<0, 3, 8, 15, 28, 40>>[offset + 1]

Targets(j) == IF sc.jammers[j].channels = {} THEN Channels ELSE sc.jammers[j].channels

\* The channel a sweep is on: its channels in order, one per step.
SweptAt(j, time) ==
    CHOOSE c \in Targets(j) :
        Cardinality({d \in Targets(j) : d < c}) = time % Cardinality(Targets(j))

\* _jammer_leak_lin: where jammer j radiates now, on a world whose clock says `time`.
Radiates(j, time, until, ch) ==
    CASE sc.jammers[j].kind = "barrage" -> Targets(j)
      [] sc.jammers[j].kind = "spot" -> sc.jammers[j].channels
      [] sc.jammers[j].kind = "sweep" -> {SweptAt(j, time)}
      [] sc.jammers[j].kind = "reactive" ->
             IF time > until THEN {}
             ELSE IF sc.jammers[j].channels = {} THEN {ch} ELSE sc.jammers[j].channels

Highest(S) == CHOOSE x \in S : \A y \in S : y <= x

\* _jammer_power_at_agent: the strongest leak, in dB above the floor; 0 is quiet.
NoiseAt(c, on, time, until, ch, where) ==
    Highest({0} \cup UNION {
        {sc.jammers[j].db - StepDb * where - LeakDb(Dist(c, d)) : d \in Radiates(j, time, until, ch)}
        : j \in {k \in DOMAIN sc.jammers : on[k]}})

-----------------------------------------------------------------------------
(* A step: events, movement, transmission, reaction. *)

\* The events that the clock has reached and no step has applied.
Due == {i \in evI .. Len(sc.events) : sc.events[i].t <= t}

\* The last due event of some kinds (about a target), or NotYet.
LastDue(kinds, target) ==
    Highest({NotYet} \cup {i \in Due : sc.events[i].kind \in kinds /\ sc.events[i].target = target})

\* A switch after the due events: the last of them decides.
Switched(now, target, on, off) ==
    LET i == LastDue({on, off}, target) IN IF i = NotYet THEN now ELSE sc.events[i].kind = on

\* _apply_events
ApplyEvents ==
    LET spike == LastDue({"load_spike"}, "") IN
    /\ jammerOn' = [j \in DOMAIN jammerOn |-> Switched(jammerOn[j], j, "jammer_on", "jammer_off")]
    /\ alive' = [p \in Peers |-> Switched(alive[p], p, "node_up", "node_down")]
    /\ faded' = Switched(faded, "", "fade_enter", "fade_exit")
    /\ load' = IF spike = NotYet THEN load ELSE 2 * sc.events[spike].factor
    /\ hidden' = IF spike = NotYet THEN hidden ELSE sc.events[spike].hidden
    /\ evI' = evI + Cardinality(Due)

\* _move: a waypoint mission is flown one step per tick until its last waypoint.
Move == pos' = IF pos < sc.mission THEN pos + 1 ELSE pos

\* duty, in percent: half of a load factor is 17.5.
Duty == IF hidden' THEN 35 ELSE Smaller(90, (35 * load') \div 2)

\* own_tx_active: a draw at the duty cycle, never 0 nor 1; silent once declared lost.
MayTransmit == ~lost

\* _update_reactive: a reactive jammer that hears us jams to the end of its burst,
\* which is shorter than a tick.
UpdateReactive ==
    \/ /\ MayTransmit
       /\ \E j \in DOMAIN sc.jammers : sc.jammers[j].kind = "reactive" /\ jammerOn'[j]
       /\ reactiveUntil' = Larger(reactiveUntil, t)
    \/ UNCHANGED reactiveUntil

NoiseNow == NoiseAt(channel, jammerOn', t, reactiveUntil', channel, pos')

-----------------------------------------------------------------------------
(* _link_state *)

\* The delivery ratios the SINR of the current channel leaves.
Sinr == IF NoiseNow >= KillDb THEN {0}
        ELSE IF NoiseNow > 0 THEN {60}
        ELSE IF faded' \/ pos' > FarAway THEN sc.fadesTo
        ELSE IF sc.fading THEN {98, 100} ELSE {100}

Collisions == IF load' <= NominalLoad THEN 0
              ELSE IF hidden' THEN Smaller(90, (Smaller(95, 3 * load') * 8) \div 5)
              ELSE Smaller(95, 3 * load')

LoraFloor == IF ~lora THEN 0 ELSE IF sc.loraJammed THEN 2 ELSE 85

Delivered(s) == Larger((s * (100 - Collisions)) \div 100, LoraFloor)

\* Which beacons get through: none below 5 percent, all at 95, else either.
Hears(d) == IF d <= 5 THEN {FALSE} ELSE IF d >= 95 THEN {TRUE} ELSE BOOLEAN

DeadLink(p) == [pdr |-> 0, retry |-> 100, hb |-> hbAge[p] + 1]

LinkStates(p) ==
    IF ~alive'[p] THEN {DeadLink(p)}
    ELSE UNION {{[pdr |-> d,
                  retry |-> Smaller(100, IF Collisions > 0 THEN ((100 - d) * 13) \div 10
                                                           ELSE 100 - d),
                  hb |-> IF got THEN 0 ELSE hbAge[p] + 1] : got \in Hears(d)}
                : d \in {Delivered(s) : s \in Sinr}}

\* The links to the neighbours; each draws its own fading.
Links == LET of == [p \in neighbors |-> LinkStates(p)] IN
         {f \in [neighbors -> UNION Range(of)] : \A p \in neighbors : f[p] \in of[p]}

MeanPdr(links) == SumFunction([p \in DOMAIN links |-> links[p].pdr])
                  \div Cardinality(DOMAIN links)

-----------------------------------------------------------------------------
(* The telemetry of a step. *)

ReactiveOn == \E j \in DOMAIN sc.jammers : sc.jammers[j].kind = "reactive" /\ jammerOn'[j]

\* Beacons due, and of those how many inside the shadow of our own transmissions.
DueBeacons == Cardinality(neighbors)
InShadow == Round(DueBeacons * Smaller(85, Larger(5, Duty)))

\* react_extra is 0.8 p_fire; MC scenarios fire at 0.9.
ReactExtra == IF ReactiveOn THEN 72 ELSE 0

ShadowMiss(mean) == Round(InShadow * Smaller(100, 100 - mean + (ReactExtra * mean) \div 100))
SilentMiss(mean) == Round((DueBeacons - InShadow) * (100 - mean))

\* A dead peer's link is left out.
ObservationSlip(links) ==
    [t |-> t, links |-> [p \in {q \in DOMAIN links : alive'[q]} |-> links[p]],
     noise |-> NoiseNow, shadowExp |-> 0, shadowMiss |-> 0, silentExp |-> 0, silentMiss |-> 0]

Observation(links) ==
    [t |-> t, links |-> links, noise |-> NoiseNow,
     shadowExp |-> InShadow, shadowMiss |-> ShadowMiss(MeanPdr(links)),
     silentExp |-> DueBeacons - InShadow, silentMiss |-> SilentMiss(MeanPdr(links))]

\* One beacon in four, on average, of a live neighbour carries a report.
Report == reports' = [p \in Peers |-> IF p \in neighbors /\ alive'[p] /\ t % 4 = 3
                                      THEN t ELSE reports[p]]

\* Lines 337-342: the world before the links are looked at.
Advance == t < MaxTicks /\ ApplyEvents /\ Move /\ UpdateReactive

\* The rest of step(), with the links it found.
Measure(links) ==
    /\ hbAge' = [p \in Peers |-> IF p \in neighbors THEN links[p].hb ELSE hbAge[p]]
    /\ consecFail' = IF MeanPdr(links) > 50 THEN 0 ELSE consecFail + 1
    /\ Report
    /\ t' = t + 1
    /\ UNCHANGED <<sc, channel, txPower, neighbors, lora, slot, lost>>

-----------------------------------------------------------------------------
(* Actuation, called by the controller between two steps; every call leaves *)
(* all but what it names unchanged.                                         *)

Still(changed) ==
    LET all == [channel |-> channel, txPower |-> txPower, slot |-> slot, load |-> load,
                hidden |-> hidden, lora |-> lora, neighbors |-> neighbors, pos |-> pos,
                reports |-> reports, lost |-> lost]
        new == [x \in DOMAIN all |-> IF x \in DOMAIN changed THEN changed[x] ELSE all[x]] IN
    /\ channel' = new.channel /\ txPower' = new.txPower /\ slot' = new.slot
    /\ load' = new.load /\ hidden' = new.hidden /\ lora' = new.lora
    /\ neighbors' = new.neighbors /\ pos' = new.pos
    /\ reports' = new.reports /\ lost' = new.lost
    /\ UNCHANGED <<sc, t, alive, jammerOn, reactiveUntil, faded, evI, hbAge, consecFail>>

\* The channel is clamped to 1..n.
HopChannel == \E c \in 0 .. NChannels + 1 :
                  Still([channel |-> Larger(1, Smaller(NChannels, c))])

\* At the teacher's 20 dBm, the upper clamp.
SetTxPower == Still([txPower |-> 20])

\* A quarter of the load, and the hidden terminal is gone.
ChangeTdmaSlot == Still([slot |-> 3, load |-> Larger(NominalLoad, load \div 4), hidden |-> FALSE])

LoadTest == Still([load |-> Larger(NominalLoad, load \div 2)])

\* A live peer's report is made younger; nothing is measured.
NeighborProbe == \E P \in {Peers} \cup {{p} : p \in Peers} :
    Still([reports |-> [p \in Peers |-> IF p \in P /\ alive[p] /\ reports[p] # NotYet
                                        THEN t ELSE reports[p]]])

FallbackToLora == Still([lora |-> TRUE])

\* Dead neighbours are dropped, unless all are dead.
Reroute == LET live == {p \in neighbors : alive[p]} IN
           Still([neighbors |-> IF live = {} THEN neighbors ELSE live])

MoveAway == Still([pos |-> pos + 1])

DeclareLinkLost == Still([lost |-> TRUE])

\* scan(): noise per channel, at the time the step left behind.
Scan(chans) == [c \in chans |-> NoiseAt(c, jammerOn, t, reactiveUntil, channel, pos)]

Actuate ==
    \/ "hop_channel" \in Calls /\ HopChannel
    \/ "set_tx_power" \in Calls /\ SetTxPower
    \/ "change_tdma_slot" \in Calls /\ ChangeTdmaSlot
    \/ "load_test" \in Calls /\ LoadTest
    \/ "neighbor_probe" \in Calls /\ NeighborProbe
    \/ "fallback_to_lora" \in Calls /\ FallbackToLora
    \/ "reroute" \in Calls /\ Reroute
    \/ "move" \in Calls /\ MoveAway
    \/ "declare_link_lost" \in Calls /\ DeclareLinkLost
=============================================================================
