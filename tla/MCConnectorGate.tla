---------------------------- MODULE MCConnectorGate ----------------------------
(* Small instances of ConnectorGate for TLC. *)
EXTENDS ConnectorGate, TLC

MCWindows == {"minute", "hour"}
MCCap     == [w \in MCWindows |-> IF w = "minute" THEN 1 ELSE 2]
MCLength  == [w \in MCWindows |-> IF w = "minute" THEN 0 ELSE 3]

MCLooseCap == [w \in MCWindows |-> 4]

CallSymmetry == Permutations(Calls)
Symmetry == Permutations(Calls) \cup Permutations(Requests)
===============================================================================
