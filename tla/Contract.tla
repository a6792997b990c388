------------------------------ MODULE Contract ------------------------------
(***************************************************************************)
(* contract/agent_contract.json and agent/api.py: the calls a model may    *)
(* ask for, and the judgements the two controllers (Controller, Bridge)    *)
(* make alike.  Delivery is in percent, noise in dBm.                      *)
(***************************************************************************)
EXTENDS Integers

CONSTANT None        \* Python's None

JamEnergy == -80     \* thresholds.jam_energy_dbm
QuieterBy == 6       \* dB that make another channel materially quieter
UsablePdr == 20      \* at or below: no usable link
RecoveryFrac == 80   \* thresholds.recovery_pdr_frac_of_baseline, percent

Hops == {"hop_channel", "channel_hop_probe"}
Moves == {"move", "mobility_test"}
Diagnose == {"spectrum_scan", "neighbor_probe", "silent_listen", "load_test",
             "channel_hop_probe", "mobility_test"}
Always == {"no_op", "set_tx_power", "reroute", "change_tdma_slot",
           "neighbor_probe", "load_test"}
Calls == Always \cup Diagnose \cup Hops \cup Moves
            \cup {"fallback_to_lora", "declare_link_lost"}

\* The calls the repeat-suppressor covers.
Remedies == Calls \ (Diagnose \cup {"no_op", "declare_link_lost"})

\* A scan maps the channels it covered to their noise.
NoScan == [c \in {} |-> 0]

\* The channel in use is hot, or another one is materially quieter.
HopPays(scan, ch) ==
    /\ ch \in DOMAIN scan
    /\ \E alt \in DOMAIN scan \ {ch} :
          scan[ch] > JamEnergy \/ scan[ch] - scan[alt] > QuieterBy

\* Delivery p is back at the recovery level of baseline b.
Healthy(p, b) == b # None /\ b # 0 /\ 100 * p >= RecoveryFrac * b
=============================================================================
