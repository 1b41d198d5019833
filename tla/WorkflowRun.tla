---------------------------- MODULE WorkflowRun ----------------------------
(***************************************************************************)
(* One call of WorkflowRunnerService.run: the execution session, the       *)
(* optional mission, the levels planned from dependsOn, the nodes of a     *)
(* level executed in parallel by WorkflowNodeRouter.execute, the messages  *)
(* they put on the A2A bus, and what the run writes at its end.            *)
(*                                                                         *)
(* Every database access and every publish may throw; which failures are   *)
(* swallowed and which end the run is what the model is about.  Beside the *)
(* run, ExecutionService.kill may cancel the session and the API process   *)
(* may die.  Inputs, outputs and the decision expression are abstracted to *)
(* success or failure.  Nothing in the repository resumes a paused         *)
(* mission, so a run that pauses ends there.                               *)
(***************************************************************************)
EXTENDS Integers, Sequences, FiniteSets

CONSTANTS
    Order,      \* the nodes of the workflow, a sequence in declaration order
    Missing,    \* an id a node may depend on although no node has it
    NoFlow,     \* no request yet
    Flows       \* the requests of the instance: records of type Flow

Nodes == {Order[i] : i \in 1..Len(Order)}

(* "task" stands for connector, adapter, decision and skill nodes, "marker"
   for start and end. *)
Kinds == {"marker", "task", "agent", "human"}

Flow == [kind : [Nodes -> Kinds],
         deps : [Nodes -> SUBSET (Nodes \union {Missing})],
         mission : BOOLEAN]

ASSUME OrderAssumption ==
    /\ Order \in Seq(Nodes) /\ Order # << >>
    /\ \A i, j \in 1..Len(Order) : Order[i] = Order[j] => i = j
ASSUME FlowAssumption == Missing \notin Nodes /\ NoFlow \notin Flow /\ Flows \subseteq Flow

VARIABLES
    flow,       \* the request, NoFlow before the call
    phase,      \* where run stands
    session,    \* ExecutionSession.status
    mission,    \* Mission.status
    bound,      \* the runner holds a missionId
    levels,     \* what planExecutionLevels returned
    node,       \* per node, where its execute call stands
    status,     \* the runner's local status
    rows,       \* nodes with an ExecutionStep row
    log         \* AgentMessage rows of the nodes: <<node, kind>>

vars == <<flow, phase, session, mission, bound, levels, node, status, rows, log>>

Phases == {"idle", "mission", "start", "plan", "level", "final", "complete",
           "over", "rejected", "thrown", "lost"}
Sessions == {"NONE", "RUNNING", "SUCCEEDED", "FAILED", "BLOCKED", "CANCELLED"}
Missions == {"NONE", "PLANNING", "RUNNING", "WAITING_HUMAN", "SUCCEEDED", "FAILED"}
Settled == {"passed", "failed"}
NodeStates == Settled \union {"idle", "active", "called", "answered", "refused",
                              "pausing", "passing", "failing", "thrown"}
Messages == Nodes \X {"REQUEST", "RESPONSE", "SYSTEM", "EVENT"}

Init ==
    /\ flow = NoFlow /\ phase = "idle"
    /\ session = "NONE" /\ mission = "NONE" /\ bound = FALSE
    /\ levels = << >> /\ node = [n \in Nodes |-> "idle"]
    /\ status = "SUCCEEDED" /\ rows = {} /\ log = {}

----------------------------------------------------------------------------
(* planExecutionLevels *)

HasDeps(f) == \E n \in Nodes : f.deps[n] # {}

(* The nodes completed after k rounds: each round takes every remaining node
   whose dependencies are completed. *)
Completed(f) ==
    LET done[k \in 0..Len(Order)] ==
          IF k = 0 THEN {}
          ELSE done[k - 1] \union {n \in Nodes : f.deps[n] \subseteq done[k - 1]}
    IN  done

Unplannable(f) == HasDeps(f) /\ Completed(f)[Len(Order)] # Nodes

\* Mutant: one level as soon as there are dependencies.
PlanUnlayered(f) ==
    IF HasDeps(f) THEN <<Nodes>> ELSE [k \in 1..Len(Order) |-> {Order[k]}]

Plan(f) ==
    IF HasDeps(f)
    THEN LET done == Completed(f)
             rounds == {k \in 1..Len(Order) : done[k] # done[k - 1]}
         IN  [k \in 1..Cardinality(rounds) |-> {n \in Nodes : n \in done[k] \ done[k - 1]}]
    ELSE [k \in 1..Len(Order) |-> {Order[k]}]

----------------------------------------------------------------------------
(* The run up to its first level *)

Run(f) ==
    /\ phase = "idle"
    /\ flow' = f
    /\ session' = "RUNNING"
    /\ phase' = IF f.mission THEN "mission" ELSE "plan"
    /\ UNCHANGED <<mission, bound, levels, node, status, rows, log>>

(* missions.create inserts the row, then publishes; an error of either is
   caught and the run goes on without a missionId, the row may be there. *)
CreateMission ==
    /\ phase = "mission"
    /\ \/ mission' = "PLANNING" /\ bound' = TRUE /\ phase' = "start"
       \/ mission' \in {"NONE", "PLANNING"} /\ bound' = FALSE /\ phase' = "plan"
    /\ UNCHANGED <<flow, session, levels, node, status, rows, log>>

(* missions.start, every error swallowed. *)
StartMission ==
    /\ phase = "start"
    /\ mission' \in {"PLANNING", "RUNNING"}
    /\ phase' = "plan"
    /\ UNCHANGED <<flow, session, bound, levels, node, status, rows, log>>

(* Promise.all over the level: every execute call starts. *)
Enter(level) == node' = [n \in Nodes |-> IF n \in level THEN "active" ELSE node[n]]

(* A cycle or an unknown dependency throws after the session was created. *)
PlanThrows ==
    /\ phase = "plan"
    /\ Unplannable(flow)
    /\ phase' = "rejected"
    /\ UNCHANGED <<flow, session, mission, bound, levels, node, status, rows, log>>

PlanLevels ==
    /\ phase = "plan"
    /\ ~Unplannable(flow)
    /\ levels' = Plan(flow)
    /\ Enter(levels'[1])
    /\ phase' = "level"
    /\ UNCHANGED <<flow, session, mission, bound, status, rows, log>>

----------------------------------------------------------------------------
(* WorkflowNodeRouter.execute.  Each action moves one node of the level; the
   others move in between, also when the run has thrown.  A node of a lost
   process does not move. *)

At(n, s) == phase \in {"level", "thrown"} /\ node[n] = s
Move(n, s) == node' = [node EXCEPT ![n] = s]

(* The event behind the result is published for mission-bound runs only, and
   not for the markers. *)
Succeed(n) == Move(n, IF bound /\ flow.kind[n] # "marker" THEN "passing" ELSE "passed")
Fail(n) == Move(n, IF bound THEN "failing" ELSE "failed")

Begun == {n \in Nodes : node[n] # "idle"}
Current == CHOOSE k \in 1..Len(levels) :
             /\ levels[k] \subseteq Begun
             /\ \A j \in (k + 1)..Len(levels) : levels[j] \intersect Begun = {}

NodeFrame == UNCHANGED <<flow, phase, session, bound, levels, status, rows>>

(* The input mapping is resolved before execute's try, and before any node of
   the level reaches its first await: a mapping that is no string throws, the
   level's Promise.all rejects and the run throws, with the session RUNNING and
   the other nodes under way.  The request is not validated, so any node may
   have such a mapping. *)
MappingThrows(n) ==
    /\ At(n, "active")
    /\ \A m \in levels[Current] : node[m] \in {"active", "thrown"}
    /\ Move(n, "thrown")
    /\ phase' = "thrown"
    /\ UNCHANGED <<flow, session, mission, bound, levels, status, rows, log>>

Mark(n) ==
    /\ At(n, "active") /\ flow.kind[n] = "marker"
    /\ Succeed(n)
    /\ NodeFrame /\ UNCHANGED <<mission, log>>

(* Schema validation, a capability key of another kind, an agent that is
   unknown or unavailable, a human node without a mission: nothing was called. *)
Refuse(n) ==
    /\ At(n, "active") /\ flow.kind[n] # "marker"
    /\ Fail(n)
    /\ NodeFrame /\ UNCHANGED <<mission, log>>

Perform(n) ==
    /\ At(n, "active") /\ flow.kind[n] = "task"
    /\ Succeed(n) \/ Fail(n)
    /\ NodeFrame /\ UNCHANGED <<mission, log>>

(* publish inserts the AgentMessage row, then appends to the stream: it can
   throw with the row in place. *)
Delivered(m) == log' = log \union {m}
Thrown(m) == log' \in {log, log \union {m}}

\* Mutant: the errors of publishing the request are caught.
AskUnrecorded(n) ==
    /\ At(n, "active") /\ flow.kind[n] = "agent"
    /\ IF bound
       THEN Thrown(<<n, "REQUEST">>) /\ Move(n, "called")
       ELSE Move(n, "called") /\ UNCHANGED log
    /\ NodeFrame /\ UNCHANGED mission

(* The dispatcher asks on the bus before it calls the agent's kernel. *)
Ask(n) ==
    /\ At(n, "active") /\ flow.kind[n] = "agent"
    /\ IF bound
       THEN \/ Delivered(<<n, "REQUEST">>) /\ Move(n, "called")
            \/ Thrown(<<n, "REQUEST">>) /\ Fail(n)
       ELSE Move(n, "called") /\ UNCHANGED log
    /\ NodeFrame /\ UNCHANGED mission

KernelReturns(n) ==
    /\ At(n, "called")
    /\ IF bound
       THEN Move(n, "answered") \/ Move(n, "refused")
       ELSE Succeed(n) \/ Fail(n)
    /\ NodeFrame /\ UNCHANGED <<mission, log>>

(* The outcome is published before dispatch returns; if that throws, a call
   that succeeded becomes a failed node. *)
Answer(n) ==
    /\ At(n, "answered")
    /\ \/ Delivered(<<n, "RESPONSE">>) /\ Succeed(n)
       \/ Thrown(<<n, "RESPONSE">>) /\ Fail(n)
    /\ NodeFrame /\ UNCHANGED mission

\* A failed call is reported with kind EVENT.
ReportError(n) ==
    /\ At(n, "refused")
    /\ Thrown(<<n, "EVENT">>)
    /\ Fail(n)
    /\ NodeFrame /\ UNCHANGED mission

(* pauseForHuman: the mission waits, then the message is published. *)
PauseMission(n) ==
    /\ At(n, "active") /\ flow.kind[n] = "human" /\ bound
    /\ mission' = "WAITING_HUMAN"
    /\ Move(n, "pausing")
    /\ NodeFrame /\ UNCHANGED log

PausePublished(n) ==
    /\ At(n, "pausing")
    /\ \/ Delivered(<<n, "SYSTEM">>) /\ Succeed(n)
       \/ Thrown(<<n, "SYSTEM">>) /\ Fail(n)
    /\ NodeFrame /\ UNCHANGED mission

(* The closing event of the node, its errors caught. *)
PublishEvent(n) ==
    /\ \/ At(n, "passing") /\ Move(n, "passed")
       \/ At(n, "failing") /\ Move(n, "failed")
    /\ Thrown(<<n, "EVENT">>)
    /\ NodeFrame /\ UNCHANGED mission

NodeStep(n) ==
    \/ MappingThrows(n)
    \/ Mark(n) \/ Refuse(n) \/ Perform(n)
    \/ Ask(n) \/ KernelReturns(n) \/ Answer(n) \/ ReportError(n)
    \/ PauseMission(n) \/ PausePublished(n) \/ PublishEvent(n)

----------------------------------------------------------------------------
(* After a level, and the end of the run *)

\* Mutant: Promise.race, the level ends with its first result.
LevelSettledRace == phase = "level" /\ \E n \in levels[Current] : node[n] \in Settled

LevelSettled == phase = "level" /\ \A n \in levels[Current] : node[n] \in Settled

\* Mutant: a human node does not stop the run.
EndLevelNoPause ==
    /\ LevelSettled
    /\ \E written \in SUBSET levels[Current] : rows' = rows \union written
    /\ LET failed == \E n \in levels[Current] : node[n] = "failed"
       IN  IF failed \/ Current = Len(levels)
           THEN /\ status' = IF failed THEN "FAILED" ELSE "SUCCEEDED"
                /\ phase' = "final"
                /\ UNCHANGED node
           ELSE /\ Enter(levels[Current + 1])
                /\ UNCHANGED <<status, phase>>
    /\ UNCHANGED <<flow, session, mission, bound, levels, log>>

(* The step rows of the level are written first, errors caught; then the run
   stops at a failure, else at a human node, else it goes on. *)
EndLevel ==
    /\ LevelSettled
    /\ \E written \in SUBSET levels[Current] : rows' = rows \union written
    /\ LET level == levels[Current]
           failed == \E n \in level : node[n] = "failed"
           paused == \E n \in level : flow.kind[n] = "human"
       IN  IF failed \/ paused \/ Current = Len(levels)
           THEN /\ status' = IF failed THEN "FAILED"
                             ELSE IF paused THEN "BLOCKED" ELSE "SUCCEEDED"
                /\ phase' = "final"
                /\ UNCHANGED node
           ELSE /\ Enter(levels[Current + 1])
                /\ UNCHANGED <<status, phase>>
    /\ UNCHANGED <<flow, session, mission, bound, levels, log>>

\* Mutant: a run that paused is left as it is.
FinalizeUnpaused ==
    /\ phase = "final"
    /\ session' = IF status = "BLOCKED" THEN session ELSE status
    /\ phase' = IF bound /\ status # "BLOCKED" THEN "complete" ELSE "over"
    /\ UNCHANGED <<flow, mission, bound, levels, node, status, rows, log>>

\* Mutant: the mission is completed whatever the status, BLOCKED included.
FinalizeCompletes ==
    /\ phase = "final"
    /\ session' = status
    /\ phase' = IF bound THEN "complete" ELSE "over"
    /\ UNCHANGED <<flow, mission, bound, levels, node, status, rows, log>>

(* The final update is unconditional: it also replaces a CANCELLED. *)
Finalize ==
    /\ phase = "final"
    /\ session' = status
    /\ phase' = IF bound /\ status # "BLOCKED" THEN "complete" ELSE "over"
    /\ UNCHANGED <<flow, mission, bound, levels, node, status, rows, log>>

FinalizeThrows ==
    /\ phase = "final"
    /\ phase' = "lost"
    /\ UNCHANGED <<flow, session, mission, bound, levels, node, status, rows, log>>

(* missions.complete has no guard on the mission's status; errors swallowed. *)
CompleteMission ==
    /\ phase = "complete"
    /\ mission' \in {mission, status}
    /\ phase' = "over"
    /\ UNCHANGED <<flow, session, bound, levels, node, status, rows, log>>

(* ExecutionService.kill, a conditional update on the status. *)
Kill ==
    /\ session = "RUNNING"
    /\ session' = "CANCELLED"
    /\ UNCHANGED <<flow, phase, mission, bound, levels, node, status, rows, log>>

(* The API process dies under the run. *)
ProcessDies ==
    /\ phase \notin {"idle", "over", "rejected", "lost"}
    /\ phase' = "lost"
    /\ UNCHANGED <<flow, session, mission, bound, levels, node, status, rows, log>>

RunStep ==
    \/ CreateMission \/ StartMission \/ PlanThrows \/ PlanLevels
    \/ EndLevel \/ Finalize \/ FinalizeThrows \/ CompleteMission

Next ==
    \/ \E f \in Flows : Run(f)
    \/ RunStep
    \/ \E n \in Nodes : NodeStep(n)
    \/ Kill
    \/ ProcessDies

(* The event loop runs every continuation that is ready and each awaited call
   returns or throws (kernel calls carry a timeout).  Nobody has to call run
   or kill. *)
Fairness == WF_vars(RunStep) /\ \A n \in Nodes : WF_vars(NodeStep(n))

Spec == Init /\ [][Next]_vars /\ Fairness

----------------------------------------------------------------------------
(* Every variable holds values of its type; once planned, the levels are sets
   of nodes and a run that is past planning has its request. *)
TypeOK ==
    /\ flow \in Flow \union {NoFlow}
    /\ phase \in Phases /\ session \in Sessions /\ mission \in Missions
    /\ bound \in BOOLEAN
    /\ levels \in Seq(SUBSET Nodes)
    /\ node \in [Nodes -> NodeStates]
    /\ status \in {"SUCCEEDED", "FAILED", "BLOCKED"}
    /\ rows \subseteq Nodes /\ log \subseteq Messages

(* The plan against its meaning (planExecutionLevels): the levels partition
   the nodes, each node runs in the first level after those of its
   dependencies, without dependencies the declaration order is kept; and a
   request is rejected exactly when some set of nodes cannot get started
   because each of them waits for a member of the set or for an unknown id. *)
Stuck(f) ==
    \E R \in (SUBSET Nodes) \ {{}} :
        \A n \in R : f.deps[n] \intersect (R \union {Missing}) # {}

PlanSound ==
    /\ phase = "rejected" => Stuck(flow)
    /\ levels # << >> =>
         /\ ~Stuck(flow)
         /\ \A n \in Nodes :
              \E k \in 1..Len(levels) :
                /\ n \in levels[k]
                /\ \A j \in 1..Len(levels) \ {k} : n \notin levels[j]
                /\ IF HasDeps(flow)
                   THEN /\ \A d \in flow.deps[n] :
                             \E j \in 1..(k - 1) : d \in levels[j]
                        /\ k > 1 => flow.deps[n] \intersect levels[k - 1] # {}
                   ELSE n = Order[k]

(* The audit rule of the bus: in a mission an agent's kernel is called only
   with its REQUEST on record, an answer on record has its request, and a node
   of an agent counts as passed only with its answer on record. *)
CallsOnRecord ==
    \A n \in Begun : flow.kind[n] = "agent" /\ bound =>
        /\ node[n] \in {"called", "answered", "refused", "passing", "passed"} =>
             <<n, "REQUEST">> \in log
        /\ <<n, "RESPONSE">> \in log => <<n, "REQUEST">> \in log
        /\ node[n] \in {"passing", "passed"} => <<n, "RESPONSE">> \in log

(* A node starts only after everything before it succeeded (its dependencies,
   or without any the nodes declared before it) and none of that was a human
   node, whatever the interleaving of the parallel calls and their failures;
   and within a node the messages of the mission are in order too. *)
Before(n) ==
    IF HasDeps(flow) THEN flow.deps[n]
    ELSE {Order[i] : i \in {i \in 1..Len(Order) :
                              \E j \in (i + 1)..Len(Order) : Order[j] = n}}

InOrder ==
    /\ \A n \in Begun : \A d \in Before(n) :
         node[d] = "passed" /\ flow.kind[d] # "human"
    /\ CallsOnRecord

(* What the run reports is what happened: a terminal status is written only
   when no call of the run is under way; SUCCEEDED means every node succeeded
   and no human was asked, FAILED that a node failed, BLOCKED that none failed
   and the mission really waits for its human.  A mission ends SUCCEEDED or
   FAILED only as its session did. *)
VerdictStands ==
    /\ session \in {"SUCCEEDED", "FAILED", "BLOCKED"} =>
         \A n \in Begun : node[n] \in Settled
    /\ session = "SUCCEEDED" =>
         \A n \in Nodes : node[n] = "passed" /\ flow.kind[n] # "human"
    /\ session = "FAILED" => \E n \in Nodes : node[n] = "failed"
    /\ session = "BLOCKED" =>
         /\ \A n \in Begun : node[n] = "passed"
         /\ \E n \in Begun : flow.kind[n] = "human"
         /\ mission = "WAITING_HUMAN"
    /\ mission \in {"SUCCEEDED", "FAILED"} => session = mission

(* A run whose graph could be planned does not leave its session RUNNING for
   ever, unless the process dies, the final update fails or a node's input
   mapping throws: after each of these nothing but a kill ever ends it. *)
RunSettles ==
    phase = "level" ~>
        (session # "RUNNING" /\ phase # "level") \/ phase \in {"thrown", "lost"}

=============================================================================
