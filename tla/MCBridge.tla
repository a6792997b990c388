------------------------------ MODULE MCBridge ------------------------------
(***************************************************************************)
(* Values of Bridge's constants for TLC: bands of two channels.            *)
(***************************************************************************)
EXTENDS Bridge

Quiet == -95
Hot == -70

\* ns-3 always reports the whole band.
HotBands == { <<Hot, Quiet>>, <<Hot, Hot>> }

DeadOrAlive == {10, 90}
=============================================================================
