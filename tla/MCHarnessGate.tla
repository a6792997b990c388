---------------------------- MODULE MCHarnessGate ----------------------------
(***************************************************************************)
(* Values of HarnessGate's constants for TLC: a panel of two features.     *)
(***************************************************************************)
EXTENDS HarnessGate

TwoFeatures == {"noise_delta_base", "retry_rate"}

\* A staircase whose steps are below the gate and whose ends are not, and a
\* panel where only the second feature is far from the first of them.
Stairs == {[f \in TwoFeatures |-> n] : n \in 0..3}
             \cup {[f \in TwoFeatures |-> IF f = "retry_rate" THEN 3 ELSE 0]}

\* With and without a scan left.
TwoMasks == { {"no_op", "declare_link_lost", "spectrum_scan"},
              {"no_op", "declare_link_lost"} }
=============================================================================
