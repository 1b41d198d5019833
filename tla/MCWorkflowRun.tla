---------------------------- MODULE MCWorkflowRun ----------------------------
(* A small instance of WorkflowRun for TLC: three nodes. *)
EXTENDS WorkflowRun

CONSTANTS a, b, c, unknown

MCOrder == <<a, b, c>>
None == [n \in {a, b, c} |-> {}]

Request(kind, deps, m) == [kind |-> kind, deps |-> deps, mission |-> m]

\* Every graph over the nodes and the unknown id, run with plain tasks.
Graphs == [{a, b, c} -> SUBSET {a, b, c, unknown}]
Tasks == [n \in {a, b, c} |-> "task"]

\* Mixes of kinds on the shapes that differ: declaration order, a fork, a join.
Shapes ==
    {None,
     [None EXCEPT ![b] = {a}, ![c] = {a}],
     [None EXCEPT ![c] = {a, b}]}
KindsOf ==
    {k \in [{a, b, c} -> {"marker", "task", "agent", "human"}] :
        k[a] # "marker" /\ k[b] # "marker" /\ k[c] \in {"marker", "agent"}}

MCFlows ==
    {Request(Tasks, g, FALSE) : g \in Graphs}
      \union {Request(k, g, TRUE) : k \in KindsOf, g \in Shapes}
      \union {Request(k, None, FALSE) : k \in KindsOf}
===============================================================================
