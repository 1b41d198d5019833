------------------------------- MODULE MCCanary -------------------------------
(* Small instances of Canary for TLC. *)
EXTENDS Canary, TLC

CONSTANTS d1, c1, s1, s2, e1, p1, r1, w1, w2

MCOne == {d1}
MCWorkers == {w1, w2}
MCOneWorker == {w1}

MCKind == [c \in Calls |->
    CASE c = c1 -> "create"
      [] c \in {s1, s2} -> "start"
      [] c = e1 -> "evaluate"
      [] c = p1 -> "promote"
      [] c = r1 -> "rollback"]

MCTarget == [c \in Calls |-> d1]

MCRaceCalls == {c1, s1, s2, e1}
MCStartCalls == {c1, s1}
MCTwoStartCalls == {c1, s1, s2}
MCRollbackCalls == {c1, s1, e1, p1, r1}

MCAllResults == {"PASS", "WARN", "FAIL"}
MCHardResults == {"PASS", "FAIL"}

\* The two evaluations, and the two start calls, are interchangeable.
MCSymmetry == Permutations({w1, w2}) \cup Permutations({s1, s2})
===============================================================================
