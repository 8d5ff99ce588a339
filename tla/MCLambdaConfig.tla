--------------------------- MODULE MCLambdaConfig ---------------------------
(* Small instances of LambdaConfig. *)
EXTENDS LambdaConfig

MCMemories == {128, 512}
MCTimeouts == {30, 900}
MCMaxTimeouts == {900}
MCModels == {"None", "resnet"}
MCRests == {"rest1", "rest2"}
MCOperatorModels == {"unset", "resnet"}
MCBothFaults == {"error", "interrupt"}

(* Memory sizes and contents of the environment are interchangeable names:  *)
(* the function is first deployed with one of each.                         *)
MCInit == Init /\ live.mem = 128 /\ live.rest = "rest2"
MCFairSpec == MCInit /\ [][Next]_vars /\ Fairness
=============================================================================
