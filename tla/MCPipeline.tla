----------------------------- MODULE MCPipeline -----------------------------
(* Four scenarios: one of each bucket, and one of the held-out family whose  *)
(* name falls into the training bucket.                                      *)
EXTENDS Pipeline

MCNames == {"spot_1", "spot_2", "spot_3", "sweep_1"}
MCFamily == [n \in MCNames |-> IF n = "sweep_1" THEN "sweep" ELSE "spot"]
MCBucket == [n \in MCNames |-> CASE n = "spot_2" -> "val"
                                 [] n = "spot_3" -> "test"
                                 [] OTHER -> "train"]
=============================================================================
