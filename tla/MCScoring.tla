----------------------------- MODULE MCScoring -----------------------------
(***************************************************************************)
(* Values of Scoring's constants for TLC: two causes, one tick a decision.   *)
(***************************************************************************)
EXTENDS Scoring

B(top, sure, declared, abstained) ==
    [top |-> top, sure |-> sure, declared |-> declared, abstained |-> abstained]

\* Any agent of the Agent protocol: sure of either cause, hesitant, deciding
\* against a sure posterior, declining to name one.
AnyAgent == { B("spot", TRUE, None, FALSE), B("fading", TRUE, "fading", FALSE),
              B("spot", FALSE, "spot", FALSE), B("fading", TRUE, "spot", FALSE),
              B("spot", TRUE, None, TRUE) }

\* The student of a bundle with abstain_threshold 0 (data/student_v10): sure of
\* either cause, or leaning to spot and declaring fading, which with the shipped
\* costs it does only below act_confidence (10 (1 - p) > 4 p).
Student == { B("spot", TRUE, "spot", FALSE), B("fading", TRUE, "fading", FALSE),
             B("spot", FALSE, "fading", FALSE) }
=============================================================================
