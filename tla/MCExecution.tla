----------------------------- MODULE MCExecution -----------------------------
(* Small instances of Execution for TLC. *)
EXTENDS Execution

CONSTANTS s1, s2, k1, k2

MCOneSession == {s1}
MCTwoSessions == {s1, s2}
MCTwoKills == {k1, k2}
MCOneKill == {k1}

\* Every kill names the first session.
MCTargetTwo == [k \in {k1, k2} |-> s1]
MCTargetOne == [k \in {k1} |-> s1]
===============================================================================
