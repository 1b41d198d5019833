--------------------------- MODULE Execution_proofs ---------------------------
(***************************************************************************)
(* Proofs about Execution for any number of sessions, kill calls, steps    *)
(* and stalls.                                                             *)
(***************************************************************************)
EXTENDS Execution, FiniteSetTheorems, TLAPS

\* Where a session's request, job, run and row may be relative to each other.
Shape(s) ==
    /\ runner[s] # "idle" => job[s] = "active"
    /\ job[s] = "none" <=> request[s] # "enqueued"
    /\ status[s] = "NONE" <=> request[s] \in {"idle", "admitted", "rejected"}
    /\ runner[s] \notin {"idle", "begin", "throw"} => status[s] \notin {"NONE", "QUEUED"}
    /\ job[s] \in {"none", "waiting", "active"} => stalls[s] <= MaxStalled

\* completedSteps against the position in the loop.
Progress(s) ==
    /\ runner[s] \in {"check", "timeout", "startStep", "inStep"} => done[s] < NumSteps
    /\ runner[s] = "finish" => done[s] = NumSteps
    /\ status[s] = "SUCCEEDED" =>
          /\ done[s] = NumSteps
          /\ runner[s] \in {"idle", "begin", "return", "catch", "markFailed", "throw"}

\* RUNNING step rows against the current run and the crashes before it.
Rows(s) ==
    /\ runner[s] = "inStep" => open[s] >= 1
    /\ open[s] <= stalls[s]
                  + (IF \/ runner[s] \in {"inStep", "catch", "markFailed", "throw"}
                        \/ job[s] = "active" /\ runner[s] = "idle"
                        \/ job[s] = "failed" /\ stalls[s] <= MaxStalled
                     THEN 1 ELSE 0)

\* Before the first delivery nothing but a kill has touched the session.
Untouched(s) ==
    /\ job[s] \in {"none", "waiting"} /\ stalls[s] = 0 =>
          status[s] \in {"NONE", "QUEUED", "CANCELLED"} /\ open[s] = 0
    /\ job[s] = "removed" /\ stalls[s] = 0 =>
          status[s] = "CANCELLED" /\ open[s] = 0

Queued(s) ==
    status[s] = "QUEUED" /\ request[s] = "enqueued" =>
        \/ job[s] = "waiting"
        \/ job[s] = "active" /\ runner[s] \in {"idle", "begin", "throw"}
        \/ job[s] = "failed"

\* Kill calls that have cancelled, and those that have also merged.
Merged(s) == {k \in KillsOf(s) :
                 kill[k].pc \notin {"idle", "cancel", "merge", "refused"}}

KillInv(k) ==
    "_cancellationRequested" \in kill[k].seen => Merged(Target[k]) # {}

Marks(s) ==
    /\ "_cancellationRequested" \in output[s] => Merged(s) # {}
    /\ status[s] = "CANCELLED" => \E k \in KillsOf(s) : Cancelled(k)
    /\ runner[s] = "return" \/ job[s] = "completed" =>
          status[s] = "SUCCEEDED" \/ \E k \in KillsOf(s) : Cancelled(k)

\* Steps of this run whose cancellation was already superseded: strictly fewer
\* than the merges whenever the worker has just seen no cancellation.
Behind(s) == late[s] = 0 \/ late[s] < Cardinality(Merged(s))

Lateness(s) ==
    /\ runner[s] = "startStep" => Behind(s)
    /\ runner[s] \in {"check", "inStep"} /\ ~CancelVisible(s) => Behind(s)
    /\ \/ late[s] <= Cardinality(Merged(s))
       \/ late[s] = 1 /\ \E k \in KillsOf(s) : Cancelled(k)

\* The row, the job and the run, without the kill calls' bookkeeping.
Shapes ==
    /\ \A s \in Sessions :
          Shape(s) /\ Progress(s) /\ Rows(s) /\ Untouched(s) /\ Queued(s)
    /\ \A k \in Kills : Cancelled(k) => status[Target[k]] \notin {"NONE", "QUEUED"}

\* What the kill switch has marked, and how late the runs are.
Marked ==
    /\ \A s \in Sessions : Marks(s) /\ Lateness(s)
    /\ \A k \in Kills : KillInv(k)

\* The inductive invariant.
IInv == TypeOK /\ Shapes /\ Marked

-----------------------------------------------------------------------------
USE DEF sessionVars, queueVars, workerVars

\* The variables keep their types: every handler of ExecutionService.create,
\* of the kill switch, of the worker and of the queue.
LEMMA TypeStep == TypeOK /\ Shapes /\ [Next]_vars => TypeOK'
<1> SUFFICES ASSUME TypeOK, Shapes, [Next]_vars PROVE TypeOK'
  OBVIOUS
<1>a. /\ {"QUEUED", "RUNNING", "SUCCEEDED", "FAILED", "CANCELLED"} \subseteq Statuses
      /\ {"result", "error", "cancelledReason", "_cancellationRequested"} \subseteq OutputKeys
      /\ {"admitted", "created", "enqueued", "lost", "rejected"} \subseteq RequestStates
      /\ {"waiting", "active", "completed", "failed", "removed"} \subseteq JobStates
      /\ {"cancel", "merge", "inspect", "remove", "readFlag", "setFlag",
          "done", "refused"} \subseteq KillStates
  BY DEF Statuses, OutputKeys, RequestStates, JobStates, KillStates
<1>b. {"idle", "begin", "check", "timeout", "startStep", "inStep",
       "finish", "catch", "markFailed", "return", "throw"} \subseteq RunnerStates
  BY DEF RunnerStates
<1> USE <1>a, <1>b, ExecutionAssumption DEF TypeOK, RunnerGoto, KillGoto
<1>1. ASSUME NEW s \in Sessions, CreateStep(s) PROVE TypeOK'
  BY <1>1 DEF CreateStep, Admit, RejectAtCapacity, RejectByPolicy,
              CreateSession, Enqueue, EnqueueFails
<1>2. ASSUME NEW s \in Sessions, WorkerStep(s) PROVE TypeOK'
  <2>1. CASE Deliver(s) \/ CheckStep(s) \/ CatchError(s) \/ EndJob(s)
    BY <2>1 DEF Deliver, CheckStep, CatchError, EndJob
  <2>2. CASE BeginRun(s)
    BY <2>2 DEF BeginRun
  <2>6. CASE TimeoutMark(s)
    BY <2>6 DEF TimeoutMark, SetFailed
  <2>7. CASE FinishRun(s)
    BY <2>7 DEF FinishRun
  <2>8. CASE MarkFailed(s)
    BY <2>8 DEF MarkFailed, SetFailed
  <2>3. CASE StartStep(s)
    BY <2>3 DEF StartStep
  <2>4. CASE StepSucceeds(s)
    BY <2>4 DEF StepSucceeds, Shapes, Progress, Rows
  <2>5. CASE StepFails(s)
    <3>1. done[s] < NumSteps /\ open[s] >= 1
      BY <2>5 DEF StepFails, Shapes, Progress, Rows
    <3>2. done' \in [Sessions -> 0..NumSteps]
      BY <2>5, <3>1 DEF StepFails
    <3>3. open' \in [Sessions -> Nat] /\ runner' \in [Sessions -> RunnerStates]
      BY <2>5, <3>1 DEF StepFails
    <3>4. UNCHANGED <<status, output, request, job, stalls, late, kill>>
      BY <2>5 DEF StepFails
    <3> QED BY <3>2, <3>3, <3>4
  <2> QED BY <1>2, <2>1, <2>2, <2>3, <2>4, <2>5, <2>6, <2>7, <2>8
      DEF WorkerStep
<1>3. ASSUME NEW s \in Sessions, CallFails(s) \/ WorkerCrash(s) \/ JobStalled(s)
      PROVE  TypeOK'
  BY <1>3 DEF CallFails, WorkerCrash, JobStalled, Shapes, Shape
<1>4. ASSUME NEW k \in Kills, KillStep(k) PROVE TypeOK'
  <2> DEFINE KillRecords == [pc : KillStates, seen : SUBSET OutputKeys]
  <2>1. ASSUME NEW pc \in KillStates, KillGoto(k, pc)
        PROVE  kill' \in [Kills -> KillRecords]
    BY <2>1
  <2>2. ASSUME NEW r \in KillRecords, kill' = [kill EXCEPT ![k] = r]
        PROVE  kill' \in [Kills -> KillRecords]
    BY <2>2
  <2>3. Target[k] \in Sessions
    OBVIOUS
  <2>4. kill[k].seen \in SUBSET OutputKeys
    OBVIOUS
  <2> HIDE DEF KillRecords
  <2>5. CASE KillRead(k)
    BY <2>5, <2>2, <2>3 DEF KillRead, KillRecords
  <2>6. CASE KillCancel(k)
    <3>1. kill' \in [Kills -> KillRecords]
      BY <2>6, <2>1 DEF KillCancel
    <3> QED BY <2>6, <2>3, <3>1 DEF KillCancel, KillRecords
  <2>7. CASE KillMerge(k)
    <3>1. kill' \in [Kills -> KillRecords]
      BY <2>7, <2>1 DEF KillMerge
    <3> QED BY <2>7, <2>3, <2>4, <3>1 DEF KillMerge, KillRecords
  <2>8. CASE KillInspect(k)
    <3>1. kill' \in [Kills -> KillRecords]
      BY <2>8, <2>1 DEF KillInspect
    <3> QED BY <2>8, <3>1 DEF KillInspect, KillRecords
  <2>9. CASE KillRemove(k)
    <3>1. kill' \in [Kills -> KillRecords]
      BY <2>9, <2>1 DEF KillRemove
    <3> QED BY <2>9, <2>3, <3>1 DEF KillRemove, KillRecords
  <2>10. CASE KillReadFlag(k)
    BY <2>10, <2>2, <2>3 DEF KillReadFlag, KillRecords
  <2>11. CASE KillSetFlag(k)
    <3>1. kill' \in [Kills -> KillRecords]
      BY <2>11, <2>1 DEF KillSetFlag
    <3> QED BY <2>11, <2>3, <2>4, <3>1 DEF KillSetFlag, KillRecords
  <2> QED BY <1>4, <2>5, <2>6, <2>7, <2>8, <2>9, <2>10, <2>11 DEF KillStep
<1>5. CASE UNCHANGED vars
  BY <1>5 DEF vars
<1> QED BY <1>1, <1>2, <1>3, <1>4, <1>5 DEF Next
-----------------------------------------------------------------------------
\* Shapes is inductive: the part of one session, then the part of one kill.
Local(s) == Shape(s) /\ Progress(s) /\ Rows(s) /\ Untouched(s) /\ Queued(s)

LEMMA CreateShapes ==
  ASSUME TypeOK, Shapes, NEW s \in Sessions, CreateStep(s)
  PROVE  Shapes'
<1> USE ExecutionAssumption DEF TypeOK
<1>1. ASSUME NEW t \in Sessions PROVE Local(t)'
  BY DEF CreateStep, Admit, RejectAtCapacity, RejectByPolicy, CreateSession,
         Enqueue, EnqueueFails, Shapes, Local, Shape, Progress, Rows, Untouched, Queued
<1>2. ASSUME NEW k \in Kills, Cancelled(k)' PROVE (status[Target[k]] \notin {"NONE", "QUEUED"})'
  <2>1. kill' = kill
    BY DEF CreateStep, Admit, RejectAtCapacity, RejectByPolicy, CreateSession,
           Enqueue, EnqueueFails
  <2>2. \/ status' = status
        \/ status' = [status EXCEPT ![s] = "QUEUED"] /\ request[s] = "admitted"
    BY DEF CreateStep, Admit, RejectAtCapacity, RejectByPolicy, CreateSession,
           Enqueue, EnqueueFails
  <2>3. Target[k] \in Sessions /\ Cancelled(k)
    BY <1>2, <2>1 DEF Cancelled
  <2> QED BY <2>2, <2>3 DEF Shapes, Shape
<1> QED BY <1>1, <1>2 DEF Shapes, Local

LEMMA WorkerShapes ==
  ASSUME TypeOK, Shapes, NEW s \in Sessions, WorkerStep(s)
  PROVE  Shapes'
<1> USE ExecutionAssumption DEF TypeOK, RunnerGoto, SetFailed
<1>1. ASSUME NEW t \in Sessions PROVE Local(t)'
  <2> USE DEF Shapes, Local, Shape, Progress, Rows, Untouched, Queued
  <2>1. CASE Deliver(s)
    BY <2>1 DEF Deliver
  <2>2. CASE BeginRun(s)
    BY <2>2 DEF BeginRun
  <2>3. CASE CheckStep(s)
    BY <2>3 DEF CheckStep
  <2>4. CASE TimeoutMark(s)
    BY <2>4 DEF TimeoutMark
  <2>5. CASE StartStep(s)
    <3>1. CASE t # s
      BY <2>5, <3>1 DEF StartStep
    <3>2. CASE t = s
      <4>1. (Shape(s) /\ Untouched(s) /\ Queued(s))'
        BY <2>5 DEF StartStep
      <4>2. Progress(s)'
        BY <2>5 DEF StartStep
      <4>3. Rows(s)'
        BY <2>5 DEF StartStep
      <4> QED BY <3>2, <4>1, <4>2, <4>3
    <3> QED BY <3>1, <3>2
  <2>6. CASE StepSucceeds(s)
    <3>1. CASE t # s
      BY <2>6, <3>1 DEF StepSucceeds
    <3>2. CASE t = s
      <4>1. (Shape(s) /\ Untouched(s) /\ Queued(s))'
        BY <2>6 DEF StepSucceeds
      <4>2. Progress(s)'
        BY <2>6 DEF StepSucceeds
      <4>3. Rows(s)'
        BY <2>6 DEF StepSucceeds
      <4> QED BY <3>2, <4>1, <4>2, <4>3
    <3> QED BY <3>1, <3>2
  <2>7. CASE StepFails(s)
    <3>1. CASE t # s
      BY <2>7, <3>1 DEF StepFails
    <3>2. CASE t = s
      <4>1. (Shape(s) /\ Untouched(s) /\ Queued(s))'
        BY <2>7 DEF StepFails
      <4>2. Progress(s)'
        BY <2>7 DEF StepFails
      <4>3. Rows(s)'
        BY <2>7 DEF StepFails
      <4> QED BY <3>2, <4>1, <4>2, <4>3
    <3> QED BY <3>1, <3>2
  <2>8. CASE FinishRun(s)
    BY <2>8 DEF FinishRun
  <2>9. CASE CatchError(s)
    BY <2>9 DEF CatchError
  <2>10. CASE MarkFailed(s)
    BY <2>10 DEF MarkFailed
  <2>11. CASE EndJob(s)
    BY <2>11 DEF EndJob
  <2> QED BY <2>1, <2>2, <2>3, <2>4, <2>5, <2>6, <2>7, <2>8, <2>9, <2>10, <2>11 DEF WorkerStep
<1>2. ASSUME NEW k \in Kills, Cancelled(k)' PROVE (status[Target[k]] \notin {"NONE", "QUEUED"})'
  <2>1. kill' = kill
    BY DEF WorkerStep, Deliver, BeginRun, CheckStep, TimeoutMark, StartStep,
      StepSucceeds, StepFails, FinishRun, CatchError, MarkFailed, EndJob
  <2>2. \/ status' = status
        \/ \E st \in {"RUNNING", "SUCCEEDED", "FAILED"} :
              status' = [status EXCEPT ![s] = st]
    BY DEF WorkerStep, Deliver, BeginRun, CheckStep, TimeoutMark, StartStep,
      StepSucceeds, StepFails, FinishRun, CatchError, MarkFailed, EndJob
  <2>3. Target[k] \in Sessions /\ Cancelled(k)
    BY <1>2, <2>1 DEF Cancelled
  <2> QED BY <2>2, <2>3 DEF Shapes
<1> QED BY <1>1, <1>2 DEF Shapes, Local

LEMMA FailureShapes ==
  ASSUME TypeOK, Shapes, NEW s \in Sessions,
         CallFails(s) \/ WorkerCrash(s) \/ JobStalled(s)
  PROVE  Shapes'
<1> USE ExecutionAssumption DEF TypeOK, RunnerGoto
<1>1. ASSUME NEW t \in Sessions PROVE Local(t)'
  <2> USE DEF Shapes, Local, Shape, Progress, Rows, Untouched, Queued
  <2>1. CASE CallFails(s)
    BY <2>1 DEF CallFails, InTry, OutOfTry
  <2>2. CASE WorkerCrash(s)
    BY <2>2 DEF WorkerCrash
  <2>3. CASE JobStalled(s)
    BY <2>3 DEF JobStalled
  <2> QED BY <2>1, <2>2, <2>3
<1>2. ASSUME NEW k \in Kills, Cancelled(k)' PROVE (status[Target[k]] \notin {"NONE", "QUEUED"})'
  BY <1>2 DEF CallFails, WorkerCrash, JobStalled, Shapes, Cancelled
<1> QED BY <1>1, <1>2 DEF Shapes, Local

LEMMA KillShapes ==
  ASSUME TypeOK, Shapes, NEW k \in Kills, KillStep(k)
  PROVE  Shapes'
<1> USE ExecutionAssumption DEF TypeOK, KillGoto
<1>1. ASSUME NEW t \in Sessions PROVE Local(t)'
  <2> USE DEF Shapes, Local, Shape, Progress, Rows, Untouched, Queued
  <2>1. CASE KillRead(k)
    BY <2>1 DEF KillRead, Cancelled, Killable
  <2>2. CASE KillCancel(k)
    BY <2>2 DEF KillCancel, Cancelled, Killable
  <2>3. CASE KillMerge(k)
    BY <2>3 DEF KillMerge, Cancelled, Killable
  <2>4. CASE KillInspect(k)
    BY <2>4 DEF KillInspect, Cancelled, Killable
  <2>5. CASE KillRemove(k)
    BY <2>5 DEF KillRemove, Cancelled, Killable
  <2>6. CASE KillReadFlag(k)
    BY <2>6 DEF KillReadFlag, Cancelled, Killable
  <2>7. CASE KillSetFlag(k)
    BY <2>7 DEF KillSetFlag, Cancelled, Killable
  <2> QED BY <2>1, <2>2, <2>3, <2>4, <2>5, <2>6, <2>7 DEF KillStep
<1>2. ASSUME NEW c \in Kills, Cancelled(c)' PROVE (status[Target[c]] \notin {"NONE", "QUEUED"})'
  <2>1. CASE KillRead(k)
    BY <1>2, <2>1 DEF KillRead, Shapes, Cancelled, Killable
  <2>2. CASE KillCancel(k)
    BY <1>2, <2>2 DEF KillCancel, Shapes, Cancelled, Killable
  <2>3. CASE KillMerge(k)
    BY <1>2, <2>3 DEF KillMerge, Shapes, Cancelled, Killable
  <2>4. CASE KillInspect(k)
    BY <1>2, <2>4 DEF KillInspect, Shapes, Cancelled, Killable
  <2>5. CASE KillRemove(k)
    BY <1>2, <2>5 DEF KillRemove, Shapes, Cancelled, Killable
  <2>6. CASE KillReadFlag(k)
    BY <1>2, <2>6 DEF KillReadFlag, Shapes, Cancelled, Killable
  <2>7. CASE KillSetFlag(k)
    BY <1>2, <2>7 DEF KillSetFlag, Shapes, Cancelled, Killable
  <2> QED BY <2>1, <2>2, <2>3, <2>4, <2>5, <2>6, <2>7 DEF KillStep
<1> QED BY <1>1, <1>2 DEF Shapes, Local

LEMMA ShapesStep == TypeOK /\ Shapes /\ [Next]_vars => Shapes'
<1>1. ASSUME TypeOK, Shapes, UNCHANGED vars PROVE Shapes'
  BY <1>1 DEF vars, Shapes, Shape, Progress, Rows, Untouched, Queued, Cancelled
<1> QED BY <1>1, CreateShapes, WorkerShapes, FailureShapes, KillShapes DEF Next

LEMMA InitShapes == Init => TypeOK /\ Shapes
<1> SUFFICES ASSUME Init PROVE TypeOK /\ Shapes
  OBVIOUS
<1> USE ExecutionAssumption DEF Init
<1>1. TypeOK
  BY DEF TypeOK, Statuses, RequestStates, JobStates, RunnerStates, KillStates
<1>2. Shapes
  BY DEF Shapes, Shape, Progress, Rows, Untouched, Queued, Cancelled
<1> QED BY <1>1, <1>2

LEMMA ShapesInvariant == Spec => [](TypeOK /\ Shapes)
<1>1. TypeOK /\ Shapes /\ [Next]_vars => (TypeOK /\ Shapes)'
  BY TypeStep, ShapesStep
<1> QED BY <1>1, InitShapes, PTL DEF Spec

\* The variables of Execution keep their types for every number of sessions,
\* kill calls, steps and stalls.
THEOREM TypeCorrect == Spec => []TypeOK
  BY ShapesInvariant, PTL

\* A job removed by the kill switch before its first delivery leaves its
\* session CANCELLED, idle and without a step row.
THEOREM RemovedIsCancelled == Spec => []RemovedBeforeRun
<1>1. TypeOK /\ Shapes => RemovedBeforeRun
  BY DEF TypeOK, Shapes, Shape, Untouched, RemovedBeforeRun
<1> QED BY <1>1, ShapesInvariant, PTL

\* SUCCEEDED is only ever read with every step of the last run completed.
THEOREM SucceededComplete == Spec => []SucceededMeansAllSteps
<1>1. Shapes => SucceededMeansAllSteps
  BY DEF Shapes, Progress, SucceededMeansAllSteps
<1> QED BY <1>1, ShapesInvariant, PTL

\* Step rows left RUNNING are bounded by the deliveries that died in a step.
THEOREM OpenRowsBounded == Spec => []StepRowsSettle
<1>1. TypeOK /\ Shapes => StepRowsSettle
  BY ExecutionAssumption DEF TypeOK, Shapes, Shape, Rows, StepRowsSettle, Unclosed
<1> QED BY <1>1, ShapesInvariant, PTL

\* An enqueued session never waits in QUEUED without a job that will run or
\* that the queue reports failed.
THEOREM NoLostQueuedSession == Spec => []QueuedHasJob
<1>1. Shapes => QueuedHasJob
  BY DEF Shapes, Queued, QueuedHasJob
<1> QED BY <1>1, ShapesInvariant, PTL
-----------------------------------------------------------------------------
\* Counting the kill calls that have merged.
LEMMA KillSetFacts ==
  ASSUME NEW s \in Sessions, NEW M \in SUBSET KillsOf(s)
  PROVE  /\ IsFiniteSet(M)
         /\ Cardinality(M) \in Nat
         /\ Cardinality(M) <= Cardinality(KillsOf(s))
         /\ Cardinality(KillsOf(s)) \in Nat
         /\ M # {} => Cardinality(M) >= 1
<1>1. IsFiniteSet(KillsOf(s))
  BY ExecutionAssumption, FS_Subset DEF KillsOf
<1>2. IsFiniteSet(M) /\ Cardinality(M) <= Cardinality(KillsOf(s))
  BY <1>1, FS_Subset
<1>3. Cardinality(M) \in Nat /\ Cardinality(KillsOf(s)) \in Nat
  BY <1>1, <1>2, FS_CardinalityType
<1>4. M # {} => Cardinality(M) # 0
  BY <1>2, FS_EmptySet
<1> QED BY <1>2, <1>3, <1>4

\* What the kill switch has marked and how late the run is: one lemma for the
\* steps that leave the kill calls alone, one for the steps of the kill calls.
LEMMA WorkerMarked ==
  ASSUME TypeOK, Shapes, Marked, NEW s \in Sessions, WorkerStep(s)
  PROVE  Marked'
<1> USE DEF TypeOK
<1>1. kill' = kill
  BY DEF WorkerStep, Deliver, BeginRun, CheckStep, TimeoutMark, StartStep,
      StepSucceeds, StepFails, FinishRun, CatchError, MarkFailed, EndJob
<1>2. /\ \A t : Merged(t)' = Merged(t)
      /\ \A k : Cancelled(k)' = Cancelled(k)
  BY <1>1 DEF Merged, Cancelled, KillsOf
<1>3. ASSUME NEW k \in Kills PROVE KillInv(k)'
  BY <1>1, <1>2 DEF Marked, KillInv
<1>4. ASSUME NEW t \in Sessions PROVE Marks(t)' /\ Lateness(t)'
  <2>1. /\ Cardinality(Merged(t))' = Cardinality(Merged(t))
        /\ Cardinality(Merged(t)) \in Nat
        /\ Merged(t) # {} => Cardinality(Merged(t)) >= 1
    <3> Merged(t) \in SUBSET KillsOf(t)
      BY DEF Merged
    <3> QED BY <1>2, KillSetFacts
  <2>2. Merged(t) # {} => \E k \in KillsOf(t) : Cancelled(k)
    BY DEF Merged, Cancelled
  <2>3. Marks(t) /\ Lateness(t) /\ Shape(t) /\ Progress(t)
    BY DEF Marked, Shapes
  <2>4. (\E k \in KillsOf(t) : Cancelled(k))' = (\E k \in KillsOf(t) : Cancelled(k))
    BY <1>2 DEF KillsOf
  <2> USE <1>2, <2>1, <2>2, <2>3, <2>4 DEF RunnerGoto
  <2>5. CASE Deliver(s)
    <3>1. Marks(t)'
      BY <2>5 DEF Deliver, SetFailed, Marks, Shape, CancelVisible
    <3>2. Lateness(t)'
      BY <2>5 DEF Deliver, SetFailed, Marks, Lateness, Behind, CancelVisible, Progress
    <3> QED BY <3>1, <3>2
  <2>6. CASE BeginRun(s)
    <3>1. Marks(t)'
      BY <2>6 DEF BeginRun, SetFailed, Marks, Shape, CancelVisible
    <3>2. Lateness(t)'
      BY <2>6 DEF BeginRun, SetFailed, Marks, Lateness, Behind, CancelVisible, Progress
    <3> QED BY <3>1, <3>2
  <2>7. CASE CheckStep(s)
    <3>1. Marks(t)'
      BY <2>7 DEF CheckStep, SetFailed, Marks, Shape, CancelVisible
    <3>2. Lateness(t)'
      BY <2>7 DEF CheckStep, SetFailed, Marks, Lateness, Behind, CancelVisible, Progress
    <3> QED BY <3>1, <3>2
  <2>8. CASE TimeoutMark(s)
    <3>1. Marks(t)'
      BY <2>8 DEF TimeoutMark, SetFailed, Marks, Shape, CancelVisible
    <3>2. Lateness(t)'
      BY <2>8 DEF TimeoutMark, SetFailed, Marks, Lateness, Behind, CancelVisible, Progress
    <3> QED BY <3>1, <3>2
  <2>9. CASE StartStep(s)
    <3>1. Marks(t)'
      BY <2>9 DEF StartStep, SetFailed, Marks, Shape, CancelVisible
    <3>2. Lateness(t)'
      BY <2>9 DEF StartStep, SetFailed, Marks, Lateness, Behind, CancelVisible, Progress
    <3> QED BY <3>1, <3>2
  <2>10. CASE StepSucceeds(s)
    <3>1. Marks(t)'
      BY <2>10 DEF StepSucceeds, SetFailed, Marks, Shape, CancelVisible
    <3>2. Lateness(t)'
      BY <2>10 DEF StepSucceeds, SetFailed, Marks, Lateness, Behind, CancelVisible, Progress
    <3> QED BY <3>1, <3>2
  <2>11. CASE StepFails(s)
    <3>1. Marks(t)'
      BY <2>11 DEF StepFails, SetFailed, Marks, Shape, CancelVisible
    <3>2. Lateness(t)'
      BY <2>11 DEF StepFails, SetFailed, Marks, Lateness, Behind, CancelVisible, Progress
    <3> QED BY <3>1, <3>2
  <2>12. CASE FinishRun(s)
    <3>1. Marks(t)'
      BY <2>12 DEF FinishRun, SetFailed, Marks, Shape, CancelVisible
    <3>2. Lateness(t)'
      BY <2>12 DEF FinishRun, SetFailed, Marks, Lateness, Behind, CancelVisible, Progress
    <3> QED BY <3>1, <3>2
  <2>13. CASE CatchError(s)
    <3>1. Marks(t)'
      BY <2>13 DEF CatchError, SetFailed, Marks, Shape, CancelVisible
    <3>2. Lateness(t)'
      BY <2>13 DEF CatchError, SetFailed, Marks, Lateness, Behind, CancelVisible, Progress
    <3> QED BY <3>1, <3>2
  <2>14. CASE MarkFailed(s)
    <3>1. Marks(t)'
      BY <2>14 DEF MarkFailed, SetFailed, Marks, Shape, CancelVisible
    <3>2. Lateness(t)'
      BY <2>14 DEF MarkFailed, SetFailed, Marks, Lateness, Behind, CancelVisible, Progress
    <3> QED BY <3>1, <3>2
  <2>15. CASE EndJob(s)
    <3>1. Marks(t)'
      BY <2>15 DEF EndJob, SetFailed, Marks, Shape, CancelVisible
    <3>2. Lateness(t)'
      BY <2>15 DEF EndJob, SetFailed, Marks, Lateness, Behind, CancelVisible, Progress
    <3> QED BY <3>1, <3>2
  <2> QED BY <2>5, <2>6, <2>7, <2>8, <2>9, <2>10, <2>11, <2>12, <2>13, <2>14, <2>15 DEF WorkerStep
<1> QED BY <1>3, <1>4 DEF Marked

LEMMA OtherMarked ==
  ASSUME TypeOK, Shapes, Marked, NEW s \in Sessions,
         CreateStep(s) \/ CallFails(s) \/ WorkerCrash(s) \/ JobStalled(s)
  PROVE  Marked'
<1> USE DEF TypeOK
<1>1. kill' = kill /\ output' = output /\ late' = late
  BY DEF CreateStep, Admit, RejectAtCapacity, RejectByPolicy, CreateSession,
         Enqueue, EnqueueFails, CallFails, WorkerCrash, JobStalled
<1>2. /\ \A t : Merged(t)' = Merged(t)
      /\ \A k : Cancelled(k)' = Cancelled(k)
  BY <1>1 DEF Merged, Cancelled, KillsOf
<1>3. ASSUME NEW k \in Kills PROVE KillInv(k)'
  BY <1>1, <1>2 DEF Marked, KillInv
<1>4. ASSUME NEW t \in Sessions PROVE Marks(t)' /\ Lateness(t)'
  <2>1. Cardinality(Merged(t))' = Cardinality(Merged(t))
    BY <1>2
  <2>2. Marks(t) /\ Lateness(t) /\ Shape(t)
    BY DEF Marked, Shapes
  <2>3. /\ status'[t] = status[t] \/ (status[t] = "NONE" /\ status'[t] = "QUEUED")
        /\ runner'[t] = runner[t] \/ runner'[t] \in {"idle", "catch", "throw"}
        /\ job'[t] = job[t] \/ job'[t] \in {"waiting", "failed"}
    BY DEF CreateStep, Admit, RejectAtCapacity, RejectByPolicy, CreateSession,
           Enqueue, EnqueueFails, CallFails, WorkerCrash, JobStalled, RunnerGoto, Shape,
           Shapes
  <2>4. Marks(t)'
    BY <1>1, <1>2, <2>2, <2>3 DEF Marks, Shape, KillsOf
  <2>5. Lateness(t)'
    BY <1>1, <1>2, <2>1, <2>2, <2>3 DEF Lateness, Behind, CancelVisible, Shape, KillsOf
  <2> QED BY <2>4, <2>5
<1> QED BY <1>3, <1>4 DEF Marked

\* A kill step only adds to the merged calls; the merge adds its own call.
LEMMA KillMerges ==
  ASSUME TypeOK, NEW k \in Kills, KillStep(k), NEW t \in Sessions
  PROVE  /\ Merged(t) \subseteq Merged(t)'
         /\ \A c \in Kills : Cancelled(c) => Cancelled(c)'
         /\ KillMerge(k) /\ Target[k] = t =>
               k \notin Merged(t) /\ k \in Merged(t)'
<1> USE ExecutionAssumption DEF TypeOK, KillGoto
<1>1. \A c \in Kills : c # k => kill'[c] = kill[c]
  BY DEF KillStep, KillRead, KillCancel, KillMerge, KillInspect, KillRemove,
         KillReadFlag, KillSetFlag
<1>2. /\ kill[k].pc \notin {"idle", "cancel", "merge", "refused"} =>
           kill'[k].pc \notin {"idle", "cancel", "merge", "refused"}
      /\ kill[k].pc \notin {"idle", "cancel", "refused"} =>
           kill'[k].pc \notin {"idle", "cancel", "refused"}
      /\ KillMerge(k) => kill[k].pc = "merge" /\ kill'[k].pc = "inspect"
  BY DEF KillStep, KillRead, KillCancel, KillMerge, KillInspect, KillRemove,
         KillReadFlag, KillSetFlag
<1> QED BY <1>1, <1>2 DEF Merged, KillsOf, Cancelled

LEMMA KillMarked ==
  ASSUME TypeOK, Shapes, Marked, NEW k \in Kills, KillStep(k)
  PROVE  Marked'
<1> DEFINE s == Target[k]
           flag == "_cancellationRequested"
<1> USE ExecutionAssumption DEF TypeOK, KillGoto
<1>1. s \in Sessions /\ Marks(s) /\ KillInv(k)
  BY DEF Marked
<1>2. /\ runner' = runner /\ late' = late
      /\ job' = job \/ job' = [job EXCEPT ![s] = "removed"]
      /\ \/ status' = status
         \/ KillCancel(k) /\ status[s] \in Killable
            /\ status' = [status EXCEPT ![s] = "CANCELLED"]
      /\ \/ output' = output
         \/ KillMerge(k)
            /\ output' = [output EXCEPT ![s] = kill[k].seen \cup {"cancelledReason"}]
         \/ KillSetFlag(k)
            /\ output' = [output EXCEPT ![s] = kill[k].seen \cup {flag}]
  BY DEF KillStep, KillRead, KillCancel, KillMerge, KillInspect, KillRemove,
         KillReadFlag, KillSetFlag
<1>3. /\ KillSetFlag(k) => k \in Merged(s)'
      /\ KillCancel(k) /\ status[s] \in Killable => k \in KillsOf(s) /\ Cancelled(k)'
  BY DEF KillSetFlag, KillCancel, Merged, Cancelled, KillsOf
<1>4. ASSUME NEW c \in Kills PROVE KillInv(c)'
  <2>1. flag \in kill'[c].seen =>
          flag \in kill[c].seen \/ (c = k /\ flag \in output[s])
    BY DEF KillStep, KillRead, KillCancel, KillMerge, KillInspect, KillRemove,
           KillReadFlag, KillSetFlag
  <2>2. Merged(Target[c]) \subseteq Merged(Target[c])'
    BY KillMerges
  <2>3. KillInv(c)
    BY DEF Marked
  <2> QED BY <1>1, <2>1, <2>2, <2>3 DEF KillInv, Marks
<1>5. ASSUME NEW t \in Sessions PROVE Marks(t)'
  <2>1. Merged(t) \subseteq Merged(t)' /\ Marks(t)
    BY KillMerges DEF Marked
  <2>2. (\E c \in KillsOf(t) : Cancelled(c)) => (\E c \in KillsOf(t) : Cancelled(c))'
    BY KillMerges DEF KillsOf
  <2>3. flag \in output'[t] => Merged(t)' # {}
    BY <1>1, <1>2, <1>3, <2>1 DEF Marks, KillInv
  <2>4. status'[t] = "CANCELLED" => (\E c \in KillsOf(t) : Cancelled(c))'
    BY <1>1, <1>2, <1>3, <2>1, <2>2 DEF Marks, KillsOf
  <2>5. /\ runner'[t] = "return" \/ job'[t] = "completed" =>
             runner[t] = "return" \/ job[t] = "completed"
        /\ status[t] = "SUCCEEDED" => status'[t] = "SUCCEEDED"
    BY <1>1, <1>2 DEF Killable
  <2> QED BY <2>1, <2>2, <2>3, <2>4, <2>5 DEF Marks
<1>6. ASSUME NEW t \in Sessions PROVE Lateness(t)'
  <2>1. Marks(t) /\ Lateness(t)
    BY DEF Marked
  <2>2. (\E c \in KillsOf(t) : Cancelled(c)) => (\E c \in KillsOf(t) : Cancelled(c))'
    BY KillMerges DEF KillsOf
  <2>3. Merged(t) \in SUBSET KillsOf(t) /\ Merged(t)' \in SUBSET KillsOf(t)
    BY DEF Merged, KillsOf
  <2>4. /\ Cardinality(Merged(t)) \in Nat /\ Cardinality(Merged(t)') \in Nat
        /\ Merged(t) # {} => Cardinality(Merged(t)) >= 1
        /\ IsFiniteSet(Merged(t)')
    BY <2>3, KillSetFacts
  <2>5. Cardinality(Merged(t)) <= Cardinality(Merged(t)')
    BY <2>4, KillMerges, FS_Subset
  <2>6. ASSUME KillMerge(k), Target[k] = t
        PROVE  Cardinality(Merged(t)) # Cardinality(Merged(t)')
    <3>1. Merged(t) \subseteq Merged(t)' /\ Merged(t) # Merged(t)'
      BY <2>6, KillMerges
    <3> QED BY <3>1, <2>4, FS_Subset
  <2>7. CancelVisible(t) /\ ~CancelVisible(t)' =>
           KillMerge(k) /\ s = t /\ flag \in output[t]
    BY <1>1, <1>2 DEF CancelVisible
  <2>8. runner'[t] = runner[t] /\ late'[t] = late[t] /\ late[t] \in Nat
    BY <1>2
  <2> DEFINE m == Cardinality(Merged(t))
             n == Cardinality(Merged(t)')
  <2>9. m \in Nat /\ n \in Nat /\ m <= n
    BY <2>4, <2>5
  <2>10. KillMerge(k) /\ s = t => m < n
    <3> HIDE DEF m, n
    <3>1. KillMerge(k) /\ s = t => m # n
      BY <2>6 DEF m, n
    <3> QED BY <2>9, <3>1
  <2>11. Behind(t) => Behind(t)'
    <3>1. late[t] = 0 \/ late[t] < m => late[t] = 0 \/ late[t] < n
      <4> HIDE DEF m, n
      <4> QED BY <2>8, <2>9
    <3> QED BY <2>8, <3>1 DEF Behind
  <2>12. CancelVisible(t) /\ ~CancelVisible(t)' => Behind(t)'
    <3> SUFFICES ASSUME CancelVisible(t), ~CancelVisible(t)'
                 PROVE  late[t] = 0 \/ late[t] < n
      BY <2>8 DEF Behind
    <3>1. m < n /\ m >= 1
      BY <2>1, <2>4, <2>7, <2>10 DEF Marks
    <3>2. late[t] <= m \/ late[t] = 1
      BY <2>1 DEF Lateness
    <3> HIDE DEF m, n
    <3> QED BY <2>8, <2>9, <3>1, <3>2
  <2>13. late[t] <= m => late[t] <= n
    <3> HIDE DEF m, n
    <3> QED BY <2>8, <2>9
  <2> QED BY <2>1, <2>2, <2>8, <2>11, <2>12, <2>13 DEF Lateness
<1> QED BY <1>4, <1>5, <1>6 DEF Marked

LEMMA MarkedInvariant == Spec => []IInv
<1>1. Init => Marked
  <2> SUFFICES ASSUME Init PROVE Marked
    OBVIOUS
  <2>1. \A s \in Sessions : Lateness(s)
    <3> TAKE s \in Sessions
    <3>1. Merged(s) \in SUBSET KillsOf(s)
      BY DEF Merged
    <3>2. Cardinality(Merged(s)) \in Nat
      BY <3>1, KillSetFacts
    <3> QED BY <3>2 DEF Init, Lateness, Behind
  <2> QED BY <2>1, ExecutionAssumption DEF Init, Marked, Marks, KillInv
<1>2. TypeOK /\ Shapes /\ Marked /\ [Next]_vars => Marked'
  <2>1. ASSUME Marked, UNCHANGED vars PROVE Marked'
    BY <2>1 DEF vars, Marked, Marks, KillInv, Lateness, Behind, Merged, KillsOf,
                Cancelled, CancelVisible
  <2> QED BY <2>1, WorkerMarked, OtherMarked, KillMarked DEF Next
<1>3. Init => IInv
  BY <1>1, InitShapes DEF IInv
<1>4. IInv /\ [Next]_vars => IInv'
  BY <1>2, TypeStep, ShapesStep DEF IInv
<1> QED BY <1>3, <1>4, PTL DEF Spec

\* Each kill call costs a run at most one more step: with kill calls, crashes
\* and redeliveries interleaved in any way, a run starts no more steps under a
\* visible cancellation than there are kill calls for its session.
THEOREM KillStopsTheRun == Spec => []KillStopsRun
<1>1. IInv => KillStopsRun
  <2> SUFFICES ASSUME IInv, NEW s \in Sessions
               PROVE  late[s] <= Cardinality(KillsOf(s))
    BY DEF KillStopsRun
  <2>1. Merged(s) \in SUBSET KillsOf(s) /\ KillsOf(s) \in SUBSET KillsOf(s)
    BY DEF Merged
  <2>2. /\ Cardinality(Merged(s)) \in Nat /\ Cardinality(KillsOf(s)) \in Nat
        /\ Cardinality(Merged(s)) <= Cardinality(KillsOf(s))
        /\ KillsOf(s) # {} => Cardinality(KillsOf(s)) >= 1
    BY <2>1, KillSetFacts
  <2>3. Lateness(s) /\ late[s] \in Nat
    BY DEF IInv, Marked, TypeOK
  <2> QED BY <2>2, <2>3 DEF Lateness
<1> QED BY <1>1, MarkedInvariant, PTL

\* A completed job means SUCCEEDED unless a kill call cancelled the session.
THEOREM CompletedIsSucceeded == Spec => []CompletedUnlessKilled
<1>1. IInv => CompletedUnlessKilled
  BY DEF IInv, Marked, Marks, CompletedUnlessKilled
<1> QED BY <1>1, MarkedInvariant, PTL

\* The queue's record of a job never misleads about its session.
THEOREM QueueAnswersHold == Spec => []QueueAnswers
<1>1. RemovedBeforeRun /\ QueuedHasJob /\ CompletedUnlessKilled <=> QueueAnswers
  BY DEF QueueAnswers
<1> QED BY <1>1, RemovedIsCancelled, NoLostQueuedSession, CompletedIsSucceeded, PTL
-----------------------------------------------------------------------------
(* Execution implements ExecutionPromise: each step is a step of a session *)
(* row there, or leaves what it speaks of alone.                           *)

\* The refinement mapping.
Live == [s \in Sessions |-> runner[s] # "idle"]
Left == [s \in Sessions |-> Deliverable(s)]

LEMMA LiveStays ==
  ASSUME NEW s \in Sessions, \A t \in Sessions \ {s} : runner'[t] = runner[t],
         runner[s] # "idle" <=> runner'[s] # "idle"
  PROVE  Live' = Live
<1>1. \A t \in Sessions : (runner'[t] # "idle") = (runner[t] # "idle")
  OBVIOUS
<1> QED BY <1>1 DEF Live

LEMMA LiveBecomes ==
  ASSUME NEW s \in Sessions, NEW b \in BOOLEAN,
         \A t \in Sessions \ {s} : runner'[t] = runner[t],
         runner'[s] # "idle" <=> b
  PROVE  Live' = [Live EXCEPT ![s] = b]
<1>1. \A t \in Sessions : (runner'[t] # "idle") = IF t = s THEN b ELSE Live[t]
  <2> TAKE t \in Sessions
  <2>1. CASE t = s
    BY <2>1
  <2>2. CASE t # s
    BY <2>2 DEF Live
  <2> QED BY <2>1, <2>2
<1>2. Live' = [t \in Sessions |-> IF t = s THEN b ELSE Live[t]]
  BY <1>1 DEF Live
<1> QED BY <1>2, Zenon DEF Live

LEMMA LeftStays ==
  ASSUME \A t \in Sessions : Deliverable(t)' = Deliverable(t)
  PROVE  Left' = Left
BY DEF Left

LEMMA LeftBecomes ==
  ASSUME NEW s \in Sessions, NEW b,
         \A t \in Sessions \ {s} : Deliverable(t)' = Deliverable(t),
         Deliverable(s)' = b
  PROVE  Left' = [Left EXCEPT ![s] = b]
BY DEF Left

LEMMA DeliverableIs ==
  ASSUME NEW s
  PROVE  /\ job[s] \in {"none", "waiting"} /\ request[s] # "lost" =>
              Deliverable(s) = MaxStalled + 1 - stalls[s]
         /\ job[s] = "none" /\ request[s] = "lost" => Deliverable(s) = 0
         /\ job[s] = "active" => Deliverable(s) = MaxStalled - stalls[s]
         /\ job[s] \in {"completed", "failed", "removed"} => Deliverable(s) = 0
BY DEF Deliverable

LEMMA DeliverableNext ==
  ASSUME NEW s
  PROVE  /\ job'[s] \in {"none", "waiting"} /\ request'[s] # "lost" =>
              Deliverable(s)' = MaxStalled + 1 - stalls'[s]
         /\ job'[s] = "none" /\ request'[s] = "lost" => Deliverable(s)' = 0
         /\ job'[s] = "active" => Deliverable(s)' = MaxStalled - stalls'[s]
         /\ job'[s] \in {"completed", "failed", "removed"} => Deliverable(s)' = 0
BY DEF Deliverable

LEMMA DeliverableSame ==
  ASSUME NEW s, job'[s] = job[s], stalls'[s] = stalls[s],
         request'[s] = "lost" <=> request[s] = "lost"
  PROVE  Deliverable(s)' = Deliverable(s)
BY DEF Deliverable

\* The steps of ExecutionPromise under the mapping.
LEMMA PromiseSteps ==
  ASSUME NEW s \in Sessions,
         \/ UNCHANGED <<status, Live, Left>>
         \/ /\ status[s] = "NONE" /\ status' = [status EXCEPT ![s] = "QUEUED"]
            /\ UNCHANGED <<Live, Left>>
         \/ /\ ~Live[s] /\ Left[s] > 0 /\ status[s] # "NONE"
            /\ Live' = [Live EXCEPT ![s] = TRUE] /\ Left' = [Left EXCEPT ![s] = @ - 1]
            /\ UNCHANGED status
         \/ /\ Live[s]
            /\ \E st \in {"RUNNING", "SUCCEEDED", "FAILED"} :
                  status' = [status EXCEPT ![s] = st]
            /\ UNCHANGED <<Live, Left>>
         \/ /\ status[s] \in {"QUEUED", "RUNNING"}
            /\ status' = [status EXCEPT ![s] = "CANCELLED"]
            /\ UNCHANGED <<Live, Left>>
         \/ /\ Live[s] /\ Live' = [Live EXCEPT ![s] = FALSE]
            /\ UNCHANGED <<status, Left>>
         \/ /\ Live' = [Live EXCEPT ![s] = FALSE] /\ Left' = [Left EXCEPT ![s] = 0]
            /\ UNCHANGED status
  PROVE  [Promise!Next]_(Promise!promiseVars)
BY DEF Promise!Next, Promise!promiseVars, Promise!Create, Promise!Deliver, Promise!Write,
       Promise!Cancel, Promise!Lose, Promise!Settle, Live, Left

\* A step of the request, the queue or a kill call that leaves the runs alone.
LEMMA RunnersStay ==
  ASSUME runner' = runner
  PROVE  Live' = Live
BY DEF Live

LEMMA CreatePromise ==
  ASSUME TypeOK, Shapes, NEW s \in Sessions, CreateStep(s)
  PROVE  [Promise!Next]_(Promise!promiseVars)
<1>0. runner' = runner /\ Live' = Live /\ UNCHANGED stalls
  BY RunnersStay DEF CreateStep, Admit, RejectAtCapacity, RejectByPolicy, CreateSession,
     Enqueue, EnqueueFails
<1>1. Shape(s)
  BY DEF Shapes
<1>2. CASE Admit(s) \/ RejectAtCapacity(s) \/ RejectByPolicy(s)
  <2>1. \A t \in Sessions : Deliverable(t)' = Deliverable(t)
    BY <1>2, DeliverableSame DEF Admit, RejectAtCapacity, RejectByPolicy, TypeOK
  <2>2. UNCHANGED <<status, Live, Left>>
    BY <1>0, <1>2, <2>1, LeftStays DEF Admit, RejectAtCapacity, RejectByPolicy
  <2> QED BY <2>2, PromiseSteps
<1>3. CASE CreateSession(s)
  <2>1. \A t \in Sessions : Deliverable(t)' = Deliverable(t)
    BY <1>3, DeliverableSame DEF CreateSession, TypeOK
  <2>2. status[s] = "NONE"
    BY <1>1, <1>3 DEF CreateSession, Shape
  <2>3. status' = [status EXCEPT ![s] = "QUEUED"] /\ UNCHANGED <<Live, Left>>
    BY <1>0, <1>3, <2>1, LeftStays DEF CreateSession
  <2> QED BY <2>2, <2>3, PromiseSteps
<1>4. CASE Enqueue(s)
  <2>1. job[s] = "none"
    BY <1>1, <1>4 DEF Enqueue, Shape
  <2>2. job'[s] = "waiting" /\ request'[s] = "enqueued" /\ request[s] = "created"
        /\ stalls'[s] = stalls[s]
    BY <1>4 DEF Enqueue, TypeOK
  <2>3. Deliverable(s)' = Deliverable(s)
    BY <2>1, <2>2, DeliverableIs, DeliverableNext
  <2>4. \A t \in Sessions \ {s} : Deliverable(t)' = Deliverable(t)
    BY <1>4, DeliverableSame DEF Enqueue, TypeOK
  <2>5. UNCHANGED <<status, Live, Left>>
    BY <1>0, <1>4, <2>3, <2>4, LeftStays DEF Enqueue
  <2> QED BY <2>5, PromiseSteps
<1>5. CASE EnqueueFails(s)
  <2>1. job'[s] = "none" /\ request'[s] = "lost" /\ runner[s] = "idle"
    BY <1>1, <1>5 DEF EnqueueFails, Shape, TypeOK
  <2>2. Deliverable(s)' = 0
    BY <2>1, DeliverableNext
  <2>3. \A t \in Sessions \ {s} : Deliverable(t)' = Deliverable(t)
    BY <1>5, DeliverableSame DEF EnqueueFails, TypeOK
  <2>4. Left' = [Left EXCEPT ![s] = 0]
    BY <2>2, <2>3, LeftBecomes
  <2>5. Live' = [Live EXCEPT ![s] = FALSE]
    BY <1>0, <2>1, LiveBecomes
  <2> QED BY <1>5, <2>4, <2>5, PromiseSteps DEF EnqueueFails
<1> QED BY <1>2, <1>3, <1>4, <1>5 DEF CreateStep

LEMMA KillPromise ==
  ASSUME TypeOK, Shapes, NEW k \in Kills, KillStep(k)
  PROVE  [Promise!Next]_(Promise!promiseVars)
<1>1. PICK s \in Sessions : s = Target[k]
  BY ExecutionAssumption
<1>2. Shape(s) /\ Live' = Live
  BY RunnersStay DEF Shapes, KillStep, KillRead, KillCancel, KillMerge, KillInspect,
     KillRemove, KillReadFlag, KillSetFlag
<1>3. CASE KillRead(k) \/ KillMerge(k) \/ KillInspect(k) \/ KillReadFlag(k) \/ KillSetFlag(k)
  <2>1. UNCHANGED <<status, job, stalls, request>>
    BY <1>3 DEF KillRead, KillMerge, KillInspect, KillReadFlag, KillSetFlag
  <2>2. UNCHANGED <<status, Live, Left>>
    BY <1>2, <2>1, DeliverableSame, LeftStays
  <2> QED BY <2>2, PromiseSteps
<1>4. CASE KillCancel(k)
  <2>1. UNCHANGED <<job, stalls, request>>
    BY <1>4 DEF KillCancel
  <2>2. UNCHANGED <<Live, Left>>
    BY <1>2, <2>1, DeliverableSame, LeftStays
  <2>3. \/ UNCHANGED status
        \/ /\ status[s] \in {"QUEUED", "RUNNING"}
           /\ status' = [status EXCEPT ![s] = "CANCELLED"]
    BY <1>1, <1>4 DEF KillCancel, Killable
  <2> QED BY <2>2, <2>3, PromiseSteps
<1>5. CASE KillRemove(k)
  <2>1. UNCHANGED <<status, stalls, request, runner>>
    BY <1>5 DEF KillRemove
  <2>2. CASE job[s] = "waiting"
    <3>1. job' = [job EXCEPT ![s] = "removed"]
      BY <1>1, <1>5, <2>2 DEF KillRemove
    <3>2. job'[s] = "removed" /\ runner[s] = "idle" /\ \A t \in Sessions \ {s} : job'[t] = job[t]
      BY <1>2, <2>2, <3>1 DEF Shape, TypeOK
    <3>3. Left' = [Left EXCEPT ![s] = 0]
      BY <2>1, <3>2, DeliverableNext, DeliverableSame, LeftBecomes
    <3>4. Live' = [Live EXCEPT ![s] = FALSE]
      BY <2>1, <3>2, LiveBecomes
    <3> QED BY <2>1, <3>3, <3>4, PromiseSteps
  <2>3. CASE job[s] # "waiting"
    <3>1. job' = job
      BY <1>1, <1>5, <2>3 DEF KillRemove
    <3>2. UNCHANGED <<status, Live, Left>>
      BY <1>2, <2>1, <3>1, DeliverableSame, LeftStays
    <3> QED BY <3>2, PromiseSteps
  <2> QED BY <2>2, <2>3
<1> QED BY <1>3, <1>4, <1>5 DEF KillStep

\* A step inside a run: the delivery stays live and takes nothing from the queue.
LEMMA RunPromise ==
  ASSUME TypeOK, Shapes, NEW s \in Sessions, UNCHANGED <<request, job, stalls>>,
         runner[s] # "idle", runner'[s] # "idle",
         \A t \in Sessions \ {s} : runner'[t] = runner[t],
         \/ UNCHANGED status
         \/ \E st \in {"RUNNING", "SUCCEEDED", "FAILED"} : status' = [status EXCEPT ![s] = st]
  PROVE  [Promise!Next]_(Promise!promiseVars)
<1>1. UNCHANGED <<Live, Left>>
  BY LiveStays, DeliverableSame, LeftStays
<1>2. Live[s]
  BY DEF Live
<1> QED BY <1>1, <1>2, PromiseSteps

LEMMA WorkerPromise ==
  ASSUME TypeOK, Shapes, NEW s \in Sessions,
         WorkerStep(s) \/ CallFails(s) \/ WorkerCrash(s) \/ JobStalled(s)
  PROVE  [Promise!Next]_(Promise!promiseVars)
<1>0. Shape(s) /\ runner \in [Sessions -> RunnerStates] /\ MaxStalled \in Nat
      /\ stalls[s] \in Nat
  BY ExecutionAssumption DEF Shapes, TypeOK
<1>1. CASE Deliver(s)
  <2>1. /\ job[s] = "waiting" /\ job'[s] = "active" /\ request[s] # "lost"
        /\ stalls[s] <= MaxStalled /\ status[s] # "NONE" /\ runner[s] = "idle"
        /\ UNCHANGED <<status, stalls, request>>
    BY <1>0, <1>1 DEF Deliver, Shape, TypeOK
  <2>2. runner'[s] = "begin"
        /\ \A t \in Sessions \ {s} : runner'[t] = runner[t] /\ job'[t] = job[t]
    BY <1>0, <1>1 DEF Deliver, RunnerGoto, TypeOK
  <2>3. Deliverable(s) = MaxStalled + 1 - stalls[s] /\ Deliverable(s)' = MaxStalled - stalls[s]
    BY <2>1, DeliverableIs, DeliverableNext
  <2>4. Left[s] = Deliverable(s) /\ Left[s] > 0 /\ Deliverable(s)' = Left[s] - 1
    BY <1>0, <2>1, <2>3 DEF Left
  <2>5. Left' = [Left EXCEPT ![s] = Left[s] - 1]
    BY <2>1, <2>2, <2>4, DeliverableSame, LeftBecomes
  <2>6. ~Live[s] /\ Live' = [Live EXCEPT ![s] = TRUE]
    <3>1. ~Live[s]
      BY <2>1 DEF Live
    <3> QED BY <2>2, <3>1, LiveBecomes
  <2> QED BY <2>1, <2>4, <2>5, <2>6, PromiseSteps
<1>2. CASE BeginRun(s) \/ TimeoutMark(s) \/ FinishRun(s) \/ MarkFailed(s)
  <2>1. /\ UNCHANGED <<request, job, stalls>> /\ runner[s] # "idle" /\ runner'[s] # "idle"
        /\ \A t \in Sessions \ {s} : runner'[t] = runner[t]
    BY <1>0, <1>2 DEF BeginRun, TimeoutMark, FinishRun, MarkFailed, RunnerGoto
  <2>2. \E st \in {"RUNNING", "SUCCEEDED", "FAILED"} : status' = [status EXCEPT ![s] = st]
    BY <1>2 DEF BeginRun, TimeoutMark, FinishRun, MarkFailed, SetFailed
  <2> QED BY <2>1, <2>2, RunPromise
<1>3. CASE \/ CheckStep(s) \/ StartStep(s) \/ StepSucceeds(s) \/ StepFails(s)
           \/ CatchError(s) \/ CallFails(s)
  <2>1. /\ UNCHANGED <<request, job, stalls, status>> /\ runner[s] # "idle" /\ runner'[s] # "idle"
        /\ \A t \in Sessions \ {s} : runner'[t] = runner[t]
    BY <1>0, <1>3 DEF CheckStep, StartStep, StepSucceeds, StepFails, CatchError, CallFails,
       RunnerGoto, InTry, OutOfTry
  <2> QED BY <2>1, RunPromise
<1>4. CASE EndJob(s)
  <2>1. /\ UNCHANGED <<request, stalls, status>> /\ runner'[s] = "idle"
        /\ job'[s] \in {"completed", "failed"}
        /\ \A t \in Sessions \ {s} : runner'[t] = runner[t] /\ job'[t] = job[t]
    BY <1>0, <1>4 DEF EndJob, RunnerGoto, TypeOK
  <2>2. Left' = [Left EXCEPT ![s] = 0]
    BY <2>1, DeliverableNext, DeliverableSame, LeftBecomes
  <2>3. Live' = [Live EXCEPT ![s] = FALSE]
    BY <2>1, LiveBecomes
  <2> QED BY <2>1, <2>2, <2>3, PromiseSteps
<1>5. CASE WorkerCrash(s)
  <2>1. /\ UNCHANGED <<request, stalls, status, job>> /\ runner[s] # "idle" /\ runner'[s] = "idle"
        /\ \A t \in Sessions \ {s} : runner'[t] = runner[t]
    BY <1>0, <1>5 DEF WorkerCrash, RunnerGoto
  <2>2. Left' = Left
    BY <2>1, DeliverableSame, LeftStays
  <2>3. Live[s] /\ Live' = [Live EXCEPT ![s] = FALSE]
    <3>1. Live[s]
      BY <2>1 DEF Live
    <3> QED BY <2>1, <3>1, LiveBecomes
  <2> QED BY <2>1, <2>2, <2>3, PromiseSteps
<1>6. CASE JobStalled(s)
  <2>1. /\ UNCHANGED <<request, status, runner>> /\ runner[s] = "idle" /\ job[s] = "active"
        /\ stalls'[s] = stalls[s] + 1 /\ request[s] # "lost"
        /\ job'[s] = IF stalls[s] < MaxStalled THEN "waiting" ELSE "failed"
        /\ \A t \in Sessions \ {s} : job'[t] = job[t] /\ stalls'[t] = stalls[t]
    BY <1>0, <1>6 DEF JobStalled, Shape, TypeOK
  <2>2. CASE stalls[s] < MaxStalled
    <3>1. Deliverable(s) = MaxStalled - stalls[s]
          /\ Deliverable(s)' = MaxStalled + 1 - (stalls[s] + 1)
      BY <2>1, <2>2, DeliverableIs, DeliverableNext
    <3>2. Deliverable(s)' = Deliverable(s)
      BY <1>0, <3>1
    <3>3. UNCHANGED <<status, Live, Left>>
      BY <2>1, <3>2, RunnersStay, DeliverableSame, LeftStays
    <3> QED BY <3>3, PromiseSteps
  <2>3. CASE ~(stalls[s] < MaxStalled)
    <3>1. job'[s] = "failed"
      BY <2>1, <2>3
    <3>2. Left' = [Left EXCEPT ![s] = 0]
      BY <2>1, <3>1, DeliverableNext, DeliverableSame, LeftBecomes
    <3>3. Live' = [Live EXCEPT ![s] = FALSE]
      BY <2>1, LiveBecomes
    <3> QED BY <2>1, <3>2, <3>3, PromiseSteps
  <2> QED BY <2>2, <2>3
<1> QED BY <1>1, <1>2, <1>3, <1>4, <1>5, <1>6 DEF WorkerStep

LEMMA StepPromise ==
  TypeOK /\ Shapes /\ [Next]_vars => [Promise!Next]_(Promise!promiseVars)
<1> SUFFICES ASSUME TypeOK, Shapes, [Next]_vars
             PROVE  [Promise!Next]_(Promise!promiseVars)
  OBVIOUS
<1>1. CASE UNCHANGED vars
  <2>1. UNCHANGED <<status, [s \in Sessions |-> runner[s] # "idle"],
                    [s \in Sessions |-> Deliverable(s)]>>
    BY <1>1 DEF vars, Deliverable
  <2> QED BY <2>1 DEF Promise!promiseVars
<1> QED BY <1>1, CreatePromise, WorkerPromise, KillPromise DEF Next

LEMMA InitPromise == Init => Promise!Init
<1> SUFFICES ASSUME Init PROVE Promise!Init
  OBVIOUS
<1>1. \A s \in Sessions : Deliverable(s) = MaxStalled + 1
  BY ExecutionAssumption DEF Init, Deliverable
<1>2. \A s \in Sessions : (runner[s] # "idle") = FALSE
  BY DEF Init
<1> QED BY <1>1, <1>2 DEF Init, Promise!Init

\* Whatever requests, kills, crashes, stalls and timeouts do, a session row
\* keeps the promise of ExecutionPromise: it is created once, written only by
\* a live delivery, cancelled only from QUEUED or RUNNING, and delivered no
\* more often than the queue forgives (execution.service.ts, main.ts).
THEOREM PromiseKept == Spec => ImplementsPromise
<1>1. TypeOK /\ Shapes /\ [Next]_vars => [Promise!Next]_(Promise!promiseVars)
  BY StepPromise
<1> QED BY <1>1, InitPromise, ShapesInvariant, PTL DEF Spec, ImplementsPromise, Promise!Spec

\* What the promise is for: the row of a job that has left the queue for good
\* keeps its terminal status.
SettledStands ==
  \A s \in Sessions : Settled(s) /\ status[s] \in Terminal =>
      Settled(s)' /\ status'[s] = status[s]

LEMMA SettledStep ==
  ASSUME TypeOK, Shapes, [Next]_vars PROVE SettledStands
<1> SUFFICES ASSUME NEW s \in Sessions, Settled(s), status[s] \in Terminal
             PROVE  Settled(s)' /\ status'[s] = status[s]
  BY DEF SettledStands
<1>1. Shape(s) /\ runner[s] = "idle"
  BY DEF Shapes, Shape, Settled
<1>2. Settled(s)'
  <2>1. CASE UNCHANGED vars
    BY <2>1 DEF vars, Settled
  <2>2. ASSUME NEW t \in Sessions, CreateStep(t) PROVE Settled(s)'
    BY <2>2 DEF CreateStep, Admit, RejectAtCapacity, RejectByPolicy, CreateSession,
       Enqueue, EnqueueFails, Settled, Shapes, Shape, TypeOK
  <2>3. ASSUME NEW t \in Sessions, WorkerStep(t) PROVE Settled(s)'
    BY <2>3 DEF WorkerStep, Deliver, BeginRun, CheckStep, TimeoutMark, StartStep,
       StepSucceeds, StepFails, FinishRun, CatchError, MarkFailed, EndJob, Settled, TypeOK
  <2>4. ASSUME NEW t \in Sessions, CallFails(t) \/ WorkerCrash(t) \/ JobStalled(t)
        PROVE  Settled(s)'
    BY <2>4 DEF CallFails, WorkerCrash, JobStalled, Settled, TypeOK
  <2>5. ASSUME NEW k \in Kills, KillStep(k) PROVE Settled(s)'
    BY <2>5 DEF KillStep, KillRead, KillCancel, KillMerge, KillInspect, KillRemove,
       KillReadFlag, KillSetFlag, Settled, TypeOK
  <2> QED BY <2>1, <2>2, <2>3, <2>4, <2>5 DEF Next
<1>3. ~Live[s] /\ status[s] \notin {"NONE", "QUEUED", "RUNNING"}
  BY <1>1 DEF Live, Terminal
<1>4. [Promise!Next]_(Promise!promiseVars)
  BY StepPromise
<1>5. CASE status' = status
  BY <1>2, <1>5
<1>6. CASE status' # status
  <2>1. PICK t \in Sessions :
           \/ status[t] = "NONE" /\ \E st : status' = [status EXCEPT ![t] = st]
           \/ Live[t] /\ \E st : status' = [status EXCEPT ![t] = st]
           \/ status[t] \in {"QUEUED", "RUNNING"}
              /\ \E st : status' = [status EXCEPT ![t] = st]
    BY <1>4, <1>6 DEF Promise!Next, Promise!promiseVars, Promise!Create, Promise!Deliver,
       Promise!Write, Promise!Cancel, Promise!Lose, Promise!Settle, Live
  <2>2. t # s
    BY <1>3, <2>1
  <2>3. status'[s] = status[s]
    BY <2>1, <2>2 DEF TypeOK
  <2> QED BY <1>2, <2>3
<1> QED BY <1>5, <1>6

\* Once the queue has completed, failed or removed a job, nothing overwrites a
\* terminal status of its session, a kill call that is late included.
THEOREM SettledIsFinal == Spec => [][SettledStands]_vars
<1>1. TypeOK /\ Shapes /\ [Next]_vars => [SettledStands]_vars
  BY SettledStep
<1> QED BY <1>1, ShapesInvariant, PTL DEF Spec
===============================================================================
