------------------------------ MODULE MCAgents ------------------------------
(***************************************************************************)
(* Values of Agents' constants for TLC: three channels, every combination  *)
(* of the baseline's cues, files of up to two rules, and the net's         *)
(* posteriors in tenths over two jammers and two natural causes with the   *)
(* rows of contract/cost_matrix.yaml for them.                             *)
(***************************************************************************)
EXTENDS Agents

\* Energy, motion and echo are tried with one sign of a natural cause only:
\* those are what QuietBelief looks at without them.
SomeCues ==
    {x \in AllCues :
       (x.tx \/ x.moving \/ x.noise = 2) =>
          ~x.loadcorr /\ ~x.loaded /\ ~x.retry /\ ~x.corr /\ ~x.gone}

BinaryVectors == [{"noise_delta_base", "rssi_pdr_corr"} -> {0, 1}]

FourCauses == <<"spot", "reactive", "fading", "node_loss">>

CostMatrix ==
    [spot      |-> [spot |-> 0,  reactive |-> 2, fading |-> 4, node_loss |-> 4],
     reactive  |-> [spot |-> 2,  reactive |-> 0, fading |-> 4, node_loss |-> 4],
     fading    |-> [spot |-> 10, reactive |-> 8, fading |-> 0, node_loss |-> 5],
     node_loss |-> [spot |-> 3,  reactive |-> 3, fading |-> 4, node_loss |-> 0]]

\* Certain, or two causes sharing around the thresholds.
SomeTenths ==
    LET names == {FourCauses[n] : n \in 1..4}
        Share(a, b, k) == [c \in names |-> IF c = a THEN k ELSE IF c = b THEN 10 - k ELSE 0]
    IN  {Share(a, b, k) : a, b \in names, k \in {6, 7, 8, 10}}
          \cap {p \in [names -> 0..10] : SumOver(p) = 10}

\* Everything left; no hop, with a scan of our channel alone; neither hop nor
\* LoRa; no scan left, another channel the quietest.
SomeContexts ==
    LET all == Always \cup {"spectrum_scan", "silent_listen", "hop_channel",
                            "fallback_to_lora", "declare_link_lost"}
    IN  {[ch |-> 3, mask |-> all, scan |-> NoScan],
         [ch |-> 1, mask |-> all \ {"hop_channel"}, scan |-> [c \in {1} |-> -70]],
         [ch |-> 1, mask |-> all \ {"fallback_to_lora"}, scan |-> [c \in {1} |-> -70]],
         [ch |-> 2, mask |-> all \ {"hop_channel", "fallback_to_lora"}, scan |-> NoScan],
         [ch |-> 2, mask |-> all \ {"spectrum_scan", "change_tdma_slot"},
          scan |-> [c \in 1..3 |-> IF c = 2 THEN -90 ELSE -75]]}

SomeClauses ==
    LET noise == <<"noise_delta_base", ">=", 1>>
        corr == <<"rssi_pdr_corr", "<", 1>>
    IN  {<<noise>>, <<corr>>, <<noise, corr>>, << >>}

SomeRules ==
    [clauses : SomeClauses, hypothesis : {"spot"}, call : {None}, precision : {94, 95}]
    \cup {[clauses |-> <<<<"rssi_pdr_corr", "<", 1>>>>, hypothesis |-> h, call |-> None,
           precision |-> 95] : h \in {"fading", "gremlins"}}
    \cup {[clauses |-> <<<<"noise_delta_base", ">=", 1>>>>, hypothesis |-> "fading",
           call |-> c, precision |-> 95] : c \in {None, "spectrum_scan"}}

SomeFiles ==
    {[n \in 1..k |-> [id |-> n, clauses |-> pair[n].clauses, call |-> pair[n].call,
                      hypothesis |-> pair[n].hypothesis, precision |-> pair[n].precision]]
       : k \in 0..2, pair \in [1..2 -> SomeRules]}
=============================================================================
