---------------------------- MODULE MCFinOpsGateway ----------------------------
(* A small instance of FinOpsGateway: calls of the test environment that   *)
(* repeat a step of the run, and charged calls of another policy that are  *)
(* sensitive and risky.                                                    *)
EXTENDS FinOpsGateway, TLC

CONSTANTS r1, large, small

Trial == [run |-> r1, signature |-> "s", space |-> 1, sensitive |-> FALSE,
          risk |-> "low", prompt |-> 1, model |-> large, test |-> TRUE]
Charged == [run |-> r1, signature |-> None, space |-> 2, sensitive |-> TRUE,
            risk |-> "highest", prompt |-> 1, model |-> small, test |-> FALSE]
MCAsks == {Trial, Charged}
MCDeployments == {[closed |-> FALSE, shared |-> FALSE],
                  [closed |-> TRUE, shared |-> TRUE]}
MCDefaults == [cache |-> TRUE, governance |-> TRUE]
MCPrice == (large :> 2) @@ (small :> 1)
MCCheaper == (large :> small) @@ (small :> small)
MCSafer == (large :> large) @@ (small :> large)
Swaps == Permutations(Requests)
===============================================================================
