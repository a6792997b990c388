------------------------------- MODULE Flight -------------------------------
(***************************************************************************)
(* The simulated world and the feature extractor as the controller's loop  *)
(* drives them (agent/controller.py, lines 219-290 and 165-208): a step,   *)
(* its observation into the extractor, then, once the gate has fired, at   *)
(* most one call of whatever model there is.  The mask and the budgets are *)
(* module Controller's.                                                    *)
(***************************************************************************)
EXTENDS RefSim, Percept

CONSTANT MaxCalls    \* bound on the calls of an episode

VARIABLES
    turn,    \* "world": step next; "agent": the model may call
    made     \* calls made

vars == <<world, perceptVars, turn, made>>

Init == RefSimInit /\ PerceptInit /\ turn = "world" /\ made = 0

\* The observation, worked out by the step, is what the extractor sees.
Tick ==
    /\ turn = "world"
    /\ Advance
    /\ \E links \in Links : /\ Measure(links)
                            /\ \E obs \in {Observation(links)} : Update(obs)
    /\ turn' = IF onset' = NoOnset \/ lost \/ made = MaxCalls THEN "world" ELSE "agent"
    /\ UNCHANGED made

\* A scan changes nothing in the world: the extractor notes it at once.
SpectrumScan ==
    /\ "spectrum_scan" \in Calls
    /\ NoteScan(Scan(Channels))
    /\ UNCHANGED <<world, ticks, base, noiseBase, cusum, onset, reason, pdrHist, lossHist,
                   shadow, fades, outage>>

Call ==
    /\ turn = "agent" /\ turn' = "world"
    /\ \/ UNCHANGED <<world, perceptVars, made>>     \* no_op
       \/ SpectrumScan /\ made' = made + 1
       \/ Actuate /\ made' = made + 1 /\ UNCHANGED perceptVars

Next == Tick \/ Call
Spec == Init /\ [][Next]_vars

-----------------------------------------------------------------------------
TypeOK ==
    /\ PerceptTypeOK
    /\ sc \in Scenarios /\ t \in 0 .. MaxTicks /\ ticks = t
    /\ channel \in Channels /\ txPower \in -4 .. 20 /\ pos \in Nat
    /\ alive \in [Peers -> BOOLEAN]
    /\ neighbors \subseteq Peers /\ neighbors # {}
    /\ jammerOn \in [DOMAIN sc.jammers -> BOOLEAN]
    /\ reactiveUntil \in NotYet .. t
    /\ {faded, hidden, lora, lost} \subseteq BOOLEAN
    /\ load \in Nat /\ slot \in 0 .. 7
    /\ evI \in 1 .. Len(sc.events) + 1
    /\ hbAge \in [Peers -> 0 .. t] /\ reports \in [Peers -> NotYet .. t]
    /\ consecFail \in 0 .. t
    /\ turn \in {"world", "agent"} /\ made \in 0 .. MaxCalls

\* A neighbour that has been dead for longer than the gate tolerates, and that no
\* reroute has dropped, has opened it: one silent link among live ones is enough.
DeadPeerNoticed ==
    \A i \in DOMAIN sc.events :
        (/\ sc.events[i].kind = "node_down" /\ sc.events[i].target \in neighbors
         /\ ~ \E j \in i + 1 .. Len(sc.events) : sc.events[j].kind = "node_up"
         /\ ticks >= WarmTicks /\ t - sc.events[i].t > ZeroRxTicks)
        => onset # NoOnset

\* Nothing opens the gate before something has happened: on a nominal link, with or
\* without mild fading, neither the wobble of delivery nor the start of the episode does.
GateIsCausal == onset # NoOnset => evI > 1

\* A jammer that stands still never looks like a sweep, however the agent hops, moves
\* and scans the band.
OnlySweepsMove ==
    HotMoved => \E j \in DOMAIN sc.jammers : sc.jammers[j].kind = "sweep"
=============================================================================
