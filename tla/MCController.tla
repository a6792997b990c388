---------------------------- MODULE MCController ----------------------------
(***************************************************************************)
(* Values of Controller's constants for TLC: scans of two channels.        *)
(***************************************************************************)
EXTENDS Controller

Quiet == -95
Raised == -85
Hot == -70

\* Scans of both channels: clean, one hot, a raised floor, everything hot; and a
\* scan of one channel only (spectrum_scan takes a list of channels).
MixedScans == { <<Quiet, Quiet>>, <<Hot, Quiet>>, <<Raised, Quiet>>, <<Hot, Hot>>,
                [c \in {1} |-> Hot] }

JammedScans == { <<Hot, Quiet>>, <<Hot, Hot>> }

\* Reasons to hop, and floors that differ by exactly QuieterBy dB: none.
EdgeScans == { <<Hot, Quiet>>, <<Quiet, Quiet + 6>>, <<Quiet + 6, Quiet>> }

LevelsOfPdr == {10, 50, 90}
DeadOrAlive == {10, 90}
=============================================================================
