--------------------------- MODULE MCQuotaTracker ---------------------------
(* A small instance of QuotaTracker: a model that publishes a daily request  *)
(* window and a token window, two requests at once.                          *)
EXTENDS QuotaTracker, TLC

SomeLimits == "rpd" :> 3 @@ "tpm" :> 3
Symmetry == Permutations(Slots)
=============================================================================
