------------------------------ MODULE Execution ------------------------------
(***************************************************************************)
(* Agent executions: ExecutionService (API process) creates sessions and   *)
(* kills them, a BullMQ queue carries one job per session, and the worker  *)
(* process runs the job in execution-processor.ts.  Every database access  *)
(* that follows an await is a step of its own, so that the two processes   *)
(* interleave exactly where the code lets them.                            *)
(***************************************************************************)
EXTENDS Naturals, FiniteSets

CONSTANTS
    Sessions,        \* create requests, each with the session it would create
    Kills,           \* calls of the kill switch
    Target,          \* the session each kill call names
    NumSteps,        \* steps that resolveSteps returns for a session
    MaxConcurrency,  \* manifest.runtime.maxConcurrency of the installation
    MaxStalled       \* BullMQ maxStalledCount

ASSUME ExecutionAssumption ==
    /\ Target \in [Kills -> Sessions]
    /\ IsFiniteSet(Kills)
    /\ NumSteps \in Nat \ {0}
    /\ MaxConcurrency \in Nat \ {0}
    /\ MaxStalled \in Nat

VARIABLES
    status,   \* ExecutionSession.status; "NONE" before the row exists
    output,   \* the keys present in ExecutionSession.outputJson
    request,  \* where ExecutionService.create is for this session
    job,      \* the BullMQ job exec-<id>
    stalls,   \* BullMQ's stalled counter of the job
    runner,   \* where runExecution is for this session
    done,     \* completedSteps of the current (or last) run
    open,     \* ExecutionStep rows with status RUNNING
    late,     \* history: steps this run started with a cancellation visible
    kill      \* where each kill call is, and the outputJson it last read

sessionVars == <<status, output>>
queueVars   == <<job, stalls>>
workerVars  == <<runner, done, open, late>>
vars == <<status, output, request, job, stalls, runner, done, open, late, kill>>

-----------------------------------------------------------------------------
Statuses == {"NONE", "QUEUED", "RUNNING", "SUCCEEDED", "FAILED", "CANCELLED"}
Terminal == {"SUCCEEDED", "FAILED", "CANCELLED"}
Killable == {"QUEUED", "RUNNING"}

\* Keys of outputJson that some code writes or looks for.
OutputKeys == {"result", "error", "cancelledReason", "_cancellationRequested"}

RequestStates == {"idle", "admitted", "created", "enqueued", "lost", "rejected"}
JobStates == {"none", "waiting", "active", "completed", "failed", "removed"}
RunnerStates == {"idle", "begin", "check", "timeout", "startStep", "inStep",
                 "finish", "catch", "markFailed", "return", "throw"}
KillStates == {"idle", "cancel", "merge", "inspect", "remove",
               "readFlag", "setFlag", "done", "refused"}

Running == {s \in Sessions : status[s] = "RUNNING"}

\* isCancelled: what the processor takes for a cancellation.
CancelVisible(s) ==
    \/ status[s] = "CANCELLED"
    \/ "_cancellationRequested" \in output[s]

\* The queue will not hand this job to a worker again.
Settled(s) == job[s] \in {"completed", "failed", "removed"}

TypeOK ==
    /\ status  \in [Sessions -> Statuses]
    /\ output  \in [Sessions -> SUBSET OutputKeys]
    /\ request \in [Sessions -> RequestStates]
    /\ job     \in [Sessions -> JobStates]
    /\ stalls  \in [Sessions -> 0..MaxStalled + 1]
    /\ runner  \in [Sessions -> RunnerStates]
    /\ done    \in [Sessions -> 0..NumSteps]
    /\ open    \in [Sessions -> Nat]
    /\ late    \in [Sessions -> Nat]
    /\ kill    \in [Kills -> [pc : KillStates, seen : SUBSET OutputKeys]]

Init ==
    /\ status  = [s \in Sessions |-> "NONE"]
    /\ output  = [s \in Sessions |-> {}]
    /\ request = [s \in Sessions |-> "idle"]
    /\ job     = [s \in Sessions |-> "none"]
    /\ stalls  = [s \in Sessions |-> 0]
    /\ runner  = [s \in Sessions |-> "idle"]
    /\ done    = [s \in Sessions |-> 0]
    /\ open    = [s \in Sessions |-> 0]
    /\ late    = [s \in Sessions |-> 0]
    /\ kill    = [k \in Kills |-> [pc |-> "idle", seen |-> {}]]

-----------------------------------------------------------------------------
(* ExecutionService.create: the capacity count, the policy check, the row  *)
(* and the job are four separate calls.                                    *)

\* The RUNNING count is below the manifest's limit; QUEUED is not counted.
Admit(s) ==
    /\ request[s] = "idle"
    /\ Cardinality(Running) < MaxConcurrency
    /\ request' = [request EXCEPT ![s] = "admitted"]
    /\ UNCHANGED <<sessionVars, queueVars, workerVars, kill>>

RejectAtCapacity(s) ==
    /\ request[s] = "idle"
    /\ Cardinality(Running) >= MaxConcurrency
    /\ request' = [request EXCEPT ![s] = "rejected"]
    /\ UNCHANGED <<sessionVars, queueVars, workerVars, kill>>

RejectByPolicy(s) ==
    /\ request[s] = "admitted"
    /\ request' = [request EXCEPT ![s] = "rejected"]
    /\ UNCHANGED <<sessionVars, queueVars, workerVars, kill>>

CreateSession(s) ==
    /\ request[s] = "admitted"
    /\ request' = [request EXCEPT ![s] = "created"]
    /\ status' = [status EXCEPT ![s] = "QUEUED"]
    /\ UNCHANGED <<output, queueVars, workerVars, kill>>

\* Mutant: the caller reports success although queue.add failed.
EnqueueSwallowed(s) ==
    /\ request[s] = "created"
    /\ request' = [request EXCEPT ![s] = "enqueued"]
    /\ UNCHANGED <<sessionVars, queueVars, workerVars, kill>>

Enqueue(s) ==
    /\ request[s] = "created"
    /\ request' = [request EXCEPT ![s] = "enqueued"]
    /\ job' = [job EXCEPT ![s] = "waiting"]
    /\ UNCHANGED <<sessionVars, stalls, workerVars, kill>>

\* queue.add throws, or the API process dies before it: nothing compensates.
EnqueueFails(s) ==
    /\ request[s] = "created"
    /\ request' = [request EXCEPT ![s] = "lost"]
    /\ UNCHANGED <<sessionVars, queueVars, workerVars, kill>>

-----------------------------------------------------------------------------
(* ExecutionService.kill, one action per database or queue call.           *)

KillGoto(k, pc) == kill' = [kill EXCEPT ![k].pc = pc]

\* Reads the session; a session that is not QUEUED or RUNNING is refused.
KillRead(k) ==
    LET s == Target[k] IN
    /\ kill[k].pc = "idle"
    /\ status[s] # "NONE"
    /\ kill' = [kill EXCEPT ![k] =
                  [pc   |-> IF status[s] \in Killable THEN "cancel" ELSE "refused",
                   seen |-> output[s]]]
    /\ UNCHANGED <<sessionVars, request, queueVars, workerVars>>

\* Mutant: the update to CANCELLED has no condition on the status.
KillCancelUnconditional(k) ==
    /\ kill[k].pc = "cancel"
    /\ status' = [status EXCEPT ![Target[k]] = "CANCELLED"]
    /\ KillGoto(k, "merge")
    /\ UNCHANGED <<output, request, queueVars, workerVars>>

\* updateMany ... WHERE status IN (QUEUED, RUNNING); count 0 is an error.
KillCancel(k) ==
    LET s == Target[k] IN
    /\ kill[k].pc = "cancel"
    /\ IF status[s] \in Killable
       THEN /\ status' = [status EXCEPT ![s] = "CANCELLED"]
            /\ KillGoto(k, "merge")
       ELSE /\ UNCHANGED status
            /\ KillGoto(k, "refused")
    /\ UNCHANGED <<output, request, queueVars, workerVars>>

\* outputJson is rewritten from the copy read before the cancellation.
KillMerge(k) ==
    LET s == Target[k] IN
    /\ kill[k].pc = "merge"
    /\ output' = [output EXCEPT ![s] = kill[k].seen \cup {"cancelledReason"}]
    /\ KillGoto(k, "inspect")
    /\ UNCHANGED <<status, request, queueVars, workerVars>>

\* getJob and getState; any other state needs nothing.
KillInspect(k) ==
    LET s == Target[k] IN
    /\ kill[k].pc = "inspect"
    /\ KillGoto(k, CASE job[s] = "waiting" -> "remove"
                     [] job[s] = "active"  -> "readFlag"
                     [] OTHER              -> "done")
    /\ UNCHANGED <<sessionVars, request, queueVars, workerVars>>

\* Mutant: the job is removed although a worker has taken it meanwhile.
KillRemoveLocked(k) ==
    /\ kill[k].pc = "remove"
    /\ job' = [job EXCEPT ![Target[k]] = "removed"]
    /\ KillGoto(k, "done")
    /\ UNCHANGED <<sessionVars, request, stalls, workerVars>>

\* job.remove throws on a job a worker has locked; the error is swallowed.
KillRemove(k) ==
    LET s == Target[k] IN
    /\ kill[k].pc = "remove"
    /\ job' = IF job[s] = "waiting" THEN [job EXCEPT ![s] = "removed"] ELSE job
    /\ KillGoto(k, "done")
    /\ UNCHANGED <<sessionVars, request, stalls, workerVars>>

KillReadFlag(k) ==
    /\ kill[k].pc = "readFlag"
    /\ kill' = [kill EXCEPT ![k] = [pc |-> "setFlag", seen |-> output[Target[k]]]]
    /\ UNCHANGED <<sessionVars, request, queueVars, workerVars>>

KillSetFlag(k) ==
    LET s == Target[k] IN
    /\ kill[k].pc = "setFlag"
    /\ output' = [output EXCEPT ![s] = kill[k].seen \cup {"_cancellationRequested"}]
    /\ KillGoto(k, "done")
    /\ UNCHANGED <<status, request, queueVars, workerVars>>

-----------------------------------------------------------------------------
(* runExecution in the worker.                                             *)

RunnerGoto(s, pc) == runner' = [runner EXCEPT ![s] = pc]

SetFailed(s) ==
    /\ status' = [status EXCEPT ![s] = "FAILED"]
    /\ output' = [output EXCEPT ![s] = {"error"}]

\* BullMQ hands the job to a worker.
Deliver(s) ==
    /\ job[s] = "waiting"
    /\ job' = [job EXCEPT ![s] = "active"]
    /\ RunnerGoto(s, "begin")
    /\ UNCHANGED <<sessionVars, request, stalls, done, open, late, kill>>

\* The RUNNING update is unconditional.  The context load and the step
\* resolution that follow are outside the try block: when one of them throws
\* the job fails and the session keeps RUNNING.
BeginRun(s) ==
    /\ runner[s] = "begin"
    /\ status' = [status EXCEPT ![s] = "RUNNING"]
    /\ done' = [done EXCEPT ![s] = 0]
    /\ late' = [late EXCEPT ![s] = 0]
    /\ \/ RunnerGoto(s, "check")
       \/ RunnerGoto(s, "throw")
    /\ UNCHANGED <<output, request, queueVars, open, kill>>

\* Mutant: the run does not look for a cancellation between its steps.
CheckStepBlind(s) ==
    /\ runner[s] = "check"
    /\ RunnerGoto(s, "startStep") \/ RunnerGoto(s, "timeout")
    /\ UNCHANGED <<sessionVars, request, queueVars, done, open, late, kill>>

\* isCancelled, then the clock: a cancelled run returns without a write.
CheckStep(s) ==
    /\ runner[s] = "check"
    /\ \/ CancelVisible(s) /\ RunnerGoto(s, "return")
       \/ ~CancelVisible(s) /\ RunnerGoto(s, "startStep")
       \/ ~CancelVisible(s) /\ RunnerGoto(s, "timeout")
    /\ UNCHANGED <<sessionVars, request, queueVars, done, open, late, kill>>

TimeoutMark(s) ==
    /\ runner[s] = "timeout"
    /\ SetFailed(s)
    /\ RunnerGoto(s, "catch")
    /\ UNCHANGED <<request, queueVars, done, open, late, kill>>

StartStep(s) ==
    /\ runner[s] = "startStep"
    /\ open' = [open EXCEPT ![s] = @ + 1]
    /\ late' = IF CancelVisible(s) THEN [late EXCEPT ![s] = @ + 1] ELSE late
    /\ RunnerGoto(s, "inStep")
    /\ UNCHANGED <<sessionVars, request, queueVars, done, kill>>

\* Mutants: the row of a step that succeeded is not updated; the loop runs
\* once more than there are steps.
StepSucceedsUnrecorded(s) ==
    /\ runner[s] = "inStep"
    /\ done' = [done EXCEPT ![s] = @ + 1]
    /\ RunnerGoto(s, IF done[s] + 1 = NumSteps THEN "finish" ELSE "check")
    /\ UNCHANGED <<sessionVars, request, queueVars, open, late, kill>>

StepSucceedsOnceMore(s) ==
    /\ runner[s] = "inStep"
    /\ open' = [open EXCEPT ![s] = @ - 1]
    /\ done' = [done EXCEPT ![s] = @ + 1]
    /\ RunnerGoto(s, IF done[s] = NumSteps THEN "finish" ELSE "check")
    /\ UNCHANGED <<sessionVars, request, queueVars, late, kill>>

StepSucceeds(s) ==
    /\ runner[s] = "inStep"
    /\ open' = [open EXCEPT ![s] = @ - 1]
    /\ done' = [done EXCEPT ![s] = @ + 1]
    /\ RunnerGoto(s, IF done[s] + 1 = NumSteps THEN "finish" ELSE "check")
    /\ UNCHANGED <<sessionVars, request, queueVars, late, kill>>

\* Mutant: a failed step ends the loop and not the run.
StepFailsBreaks(s) ==
    /\ runner[s] = "inStep"
    /\ open' = [open EXCEPT ![s] = @ - 1]
    /\ RunnerGoto(s, "finish")
    /\ UNCHANGED <<sessionVars, request, queueVars, done, late, kill>>

\* The handler throws, or the progress report after a counted step does: the
\* row is marked FAILED either way.
StepFails(s) ==
    /\ runner[s] = "inStep"
    /\ open' = [open EXCEPT ![s] = @ - 1]
    /\ UNCHANGED done \/ done' = [done EXCEPT ![s] = @ + 1]
    /\ RunnerGoto(s, "catch")
    /\ UNCHANGED <<sessionVars, request, queueVars, late, kill>>

\* Neither the status nor outputJson is looked at before the last write.  The
\* progress report that follows it may throw, still inside the try block.
FinishRun(s) ==
    /\ runner[s] = "finish"
    /\ status' = [status EXCEPT ![s] = "SUCCEEDED"]
    /\ output' = [output EXCEPT ![s] = {"result"}]
    /\ RunnerGoto(s, "return") \/ RunnerGoto(s, "catch")
    /\ UNCHANGED <<request, queueVars, done, open, late, kill>>

\* The catch block reads the status, and marks FAILED in a second call.
CatchError(s) ==
    /\ runner[s] = "catch"
    /\ RunnerGoto(s, IF status[s] = "CANCELLED" THEN "throw" ELSE "markFailed")
    /\ UNCHANGED <<sessionVars, request, queueVars, done, open, late, kill>>

MarkFailed(s) ==
    /\ runner[s] = "markFailed"
    /\ SetFailed(s)
    /\ RunnerGoto(s, "throw")
    /\ UNCHANGED <<request, queueVars, done, open, late, kill>>

\* Mutant: the handler swallows the error the run threw.
EndJobSwallows(s) ==
    /\ runner[s] \in {"return", "throw"}
    /\ job' = [job EXCEPT ![s] = "completed"]
    /\ RunnerGoto(s, "idle")
    /\ UNCHANGED <<sessionVars, request, stalls, done, open, late, kill>>

\* The worker's handler: the audit row of a finished run may fail to write,
\* which fails the job although the run returned.  attempts is 1: no retry.
EndJob(s) ==
    /\ runner[s] \in {"return", "throw"}
    /\ \E end \in {"completed", "failed"} :
          /\ end = "completed" => runner[s] = "return"
          /\ job' = [job EXCEPT ![s] = end]
    /\ RunnerGoto(s, "idle")
    /\ UNCHANGED <<sessionVars, request, stalls, done, open, late, kill>>

-----------------------------------------------------------------------------
(* Failures of the database and of the worker process, and what BullMQ     *)
(* does about them.                                                        *)

InTry    == {"check", "timeout", "startStep", "inStep", "finish"}
OutOfTry == {"begin", "catch", "markFailed"}

\* A database call of the run throws and writes nothing: inside the try block
\* the catch block takes over, outside it the job fails.  In a step it is the
\* inner catch that throws, and the row of the step keeps RUNNING.
CallFails(s) ==
    /\ \/ runner[s] \in InTry    /\ RunnerGoto(s, "catch")
       \/ runner[s] \in OutOfTry /\ RunnerGoto(s, "throw")
    /\ UNCHANGED <<sessionVars, request, queueVars, done, open, late, kill>>

WorkerCrash(s) ==
    /\ runner[s] # "idle"
    /\ RunnerGoto(s, "idle")
    /\ UNCHANGED <<sessionVars, request, queueVars, done, open, late, kill>>

\* Mutant: a stalled job goes back to the queue without being counted.
JobStalledUncounted(s) ==
    /\ job[s] = "active" /\ runner[s] = "idle"
    /\ job' = [job EXCEPT ![s] = "waiting"]
    /\ UNCHANGED <<sessionVars, request, stalls, workerVars, kill>>

\* The lock of the dead worker expires: the job is delivered again until
\* its stalled counter exceeds the limit, then it fails without a handler.
JobStalled(s) ==
    /\ job[s] = "active" /\ runner[s] = "idle"
    /\ stalls' = [stalls EXCEPT ![s] = @ + 1]
    /\ job' = [job EXCEPT ![s] =
                 IF stalls[s] < MaxStalled THEN "waiting" ELSE "failed"]
    /\ UNCHANGED <<sessionVars, request, workerVars, kill>>

-----------------------------------------------------------------------------
CreateStep(s) ==
    \/ Admit(s) \/ RejectAtCapacity(s) \/ RejectByPolicy(s)
    \/ CreateSession(s) \/ Enqueue(s) \/ EnqueueFails(s)

KillStep(k) ==
    \/ KillRead(k) \/ KillCancel(k) \/ KillMerge(k) \/ KillInspect(k)
    \/ KillRemove(k) \/ KillReadFlag(k) \/ KillSetFlag(k)

WorkerStep(s) ==
    \/ Deliver(s) \/ BeginRun(s) \/ CheckStep(s) \/ TimeoutMark(s)
    \/ StartStep(s) \/ StepSucceeds(s) \/ StepFails(s) \/ FinishRun(s)
    \/ CatchError(s) \/ MarkFailed(s) \/ EndJob(s)

Next ==
    \/ \E s \in Sessions :
          \/ CreateStep(s) \/ WorkerStep(s)
          \/ CallFails(s) \/ WorkerCrash(s) \/ JobStalled(s)
    \/ \E k \in Kills : KillStep(k)

\* The worker and the stalled-job checker keep running; neither the callers
\* of the API nor the API process are obliged to.
Fairness ==
    \A s \in Sessions : WF_vars(WorkerStep(s)) /\ WF_vars(JobStalled(s))

Spec == Init /\ [][Next]_vars /\ Fairness

-----------------------------------------------------------------------------
(* Properties.                                                             *)

\* Each call of the kill switch costs a run at most one more step: the worker
\* checks isCancelled between steps (execution-processor.ts:85), so a step can
\* only start under a visible cancellation that arrived after its check.  Two
\* calls may cost two: the stale merge of one can erase the flag of the other.
KillsOf(s) == {k \in Kills : Target[k] = s}

KillStopsRun == \A s \in Sessions : late[s] <= Cardinality(KillsOf(s))

\* A job the kill switch takes out of the queue before any worker had it
\* leaves a session that is CANCELLED for good and never ran a step.
RemovedBeforeRun ==
    \A s \in Sessions :
        job[s] = "removed" /\ stalls[s] = 0 =>
            status[s] = "CANCELLED" /\ runner[s] = "idle" /\ open[s] = 0

\* A session reads SUCCEEDED only after every resolved step of its last run
\* succeeded, redeliveries after a crash included.
SucceededMeansAllSteps ==
    \A s \in Sessions : status[s] = "SUCCEEDED" => done[s] = NumSteps

\* A step row stays RUNNING only because a delivery died inside that step: one
\* row for each stall, and one for the delivery that is active or that ended
\* by failing (execution-processor.ts:170 closes the row of a failed step).
Unclosed(s) ==
    \/ job[s] = "active"
    \/ job[s] = "failed" /\ stalls[s] <= MaxStalled

StepRowsSettle ==
    \A s \in Sessions : open[s] <= stalls[s] + (IF Unclosed(s) THEN 1 ELSE 0)

\* A session whose job was enqueued never waits in QUEUED without a job: its
\* job will run, or the queue reports it failed; it is never lost in silence,
\* whatever kill calls remove (execution.service.ts:323).
QueuedHasJob ==
    \A s \in Sessions :
        status[s] = "QUEUED" /\ request[s] = "enqueued" =>
            job[s] \in {"waiting", "active", "failed"}

\* A job that BullMQ records as completed left its session SUCCEEDED, or the
\* session was cancelled by a kill call: only a killed session can keep
\* RUNNING (and the installation's capacity) behind a completed job.
Cancelled(k) == kill[k].pc \notin {"idle", "cancel", "refused"}

CompletedUnlessKilled ==
    \A s \in Sessions :
        job[s] = "completed" =>
            status[s] = "SUCCEEDED" \/ \E k \in KillsOf(s) : Cancelled(k)

\* What the queue's record of a job (removed, still there, completed) says of
\* the session row is true, whatever kill calls, crashes and failing calls
\* come between the two writes (execution.service.ts:322, main.ts:111).
QueueAnswers == RemovedBeforeRun /\ QueuedHasJob /\ CompletedUnlessKilled

\* The session row keeps the promise of ExecutionPromise: in particular a
\* terminal status is final once the job has left the queue for good.
Deliverable(s) ==
    CASE job[s] \in {"none", "waiting"} /\ request[s] # "lost" ->
             MaxStalled + 1 - stalls[s]
      [] job[s] = "active" -> MaxStalled - stalls[s]
      [] OTHER -> 0

Promise == INSTANCE ExecutionPromise WITH
    Deliveries <- MaxStalled + 1,
    live <- [s \in Sessions |-> runner[s] # "idle"],
    left <- [s \in Sessions |-> Deliverable(s)]

ImplementsPromise == Promise!Spec

\* Every job that a worker or the stalled-job checker can reach leaves the
\* queue: no interleaving of kills, crashes and timeouts leaves one for ever.
EveryJobSettles ==
    \A s \in Sessions : job[s] = "waiting" ~> Settled(s)

\* The last duty in the header of the processor (execution-processor.ts:10) is
\* to update the final status: a job that ended leaves a terminal session.
FinalStatusWritten ==
    \A s \in Sessions : job[s] = "completed" => status[s] \in Terminal

\* What the comment at execution.service.ts:283 claims for the kill switch:
\* the conditional update to CANCELLED is not raced, so it is final.
CancelledIsFinal ==
    [][\A s \in Sessions : status[s] = "CANCELLED" => status'[s] = "CANCELLED"]_vars
===============================================================================
