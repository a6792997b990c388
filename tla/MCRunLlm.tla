------------------------------- MODULE MCRunLlm -------------------------------
(***************************************************************************)
(* Values of RunLlm's constants for TLC: the probe and one panel that both *)
(* episodes come to show, and two answers that differ in length.           *)
(***************************************************************************)
EXTENDS RunLlm, TLC

TheProbe == <<"", "probe">>
ThePrompts == {TheProbe, <<"lean", "panel">>}

TwoReplies == {"hop", "declare"}
TheSize == "hop" :> 1 @@ "declare" :> 2

TwoJobs == <<"spot_9100", "sweep_9100">>
=============================================================================
