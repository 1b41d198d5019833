-------------------------------- MODULE Canary --------------------------------
(***************************************************************************)
(* Canary deployments of one pack.  CanaryService (API process) creates,   *)
(* starts, evaluates, promotes and rolls back a deployment; the evaluator  *)
(* of the worker process runs the delayed evaluation jobs of the queue.    *)
(* Both take gate decisions on a deployment row they read some awaits ago. *)
(*                                                                         *)
(* Abstracted: the metrics (a gate result is any member of Results), gate  *)
(* rows (only the number of PASS rows is kept), currentWindow (written,    *)
(* never read), delays, snapshots and audit rows.                          *)
(***************************************************************************)
EXTENDS Naturals

CONSTANTS
    Deployments,  \* deployment rows that create calls may insert, one pack
    Calls,        \* calls of the canary API
    Kind,         \* what each call does
    Target,       \* the deployment each call creates or names
    Workers,      \* evaluations the canary worker runs at a time
    InitialPct,   \* initialTrafficPct
    StepPct,      \* incrementStepPct
    MaxPct,       \* maxTrafficPct
    AutoRollback, \* autoRollbackEnabled
    Results,      \* what evaluateGateRules can return for the gate's rules
    MaxWindow,    \* bound: windows a canary goes through
    DeferSlots,   \* bound: deferred jobs of one window the queue tells apart
    MaxStalled    \* BullMQ maxStalledCount

Kinds == {"create", "start", "evaluate", "promote", "rollback"}

ASSUME CanaryAssumption ==
    /\ Kind \in [Calls -> Kinds]
    /\ Target \in [Calls -> Deployments]
    /\ \A c, e \in Calls :
          Kind[c] = "create" /\ Kind[e] = "create" /\ Target[c] = Target[e] => c = e
    /\ Calls \cap Workers = {}
    /\ InitialPct \in Nat /\ StepPct \in Nat /\ MaxPct \in Nat
    /\ AutoRollback \in BOOLEAN
    /\ Results \subseteq {"PASS", "WARN", "FAIL"}
    /\ MaxWindow \in Nat \ {0} /\ DeferSlots \in Nat /\ MaxStalled \in Nat

VARIABLES
    status,   \* CanaryDeployment.status; "NONE" before the row exists
    traffic,  \* CanaryDeployment.currentTrafficPct
    passes,   \* number of CanaryGate rows with result PASS
    records,  \* actions of the VersionPromotion rows of the deployment
    jobs,     \* the evaluation jobs of the queue
    stalls,   \* BullMQ's stalled counter of each job
    actor     \* where each call and each evaluation of the worker is

rows  == <<status, traffic, passes, records>>
queue == <<jobs, stalls>>
vars  == <<status, traffic, passes, records, jobs, stalls, actor>>

-----------------------------------------------------------------------------
Statuses  == {"NONE", "PENDING", "ACTIVE", "PAUSED", "PROMOTED", "ROLLED_BACK"}
Unfinished == {"PENDING", "ACTIVE", "PAUSED"}
JobStates == {"none", "waiting", "active", "done", "failed"}

Actors  == Calls \cup Workers
Windows == 1..MaxWindow
Tries   == 0..DeferSlots

\* A job id names the deployment and the window; a deferred evaluation gets a
\* fresh id (a timestamp in the code, a free slot among the tries here).
JobIds == Deployments \X Windows \X Tries

Entry == [create |-> "create", start |-> "start", evaluate |-> "load",
          promote |-> "promote", rollback |-> "rollback"]

Points == {"idle", "create", "insert", "start", "activate", "load", "measure",
           "pause", "advance", "enqueue", "promote", "rollback",
           "recordPromote", "recordRollback", "end", "done", "refused", "lost"}

ActorStates == [pc : Points, dep : Deployments, win : 0..MaxWindow,
                try : Tries, seen : Nat]

TypeOK ==
    /\ status  \in [Deployments -> Statuses]
    /\ traffic \in [Deployments -> Nat]
    /\ passes  \in [Deployments -> Nat]
    /\ records \in [Deployments -> SUBSET {"PROMOTE", "ROLLBACK"}]
    /\ jobs    \in [JobIds -> JobStates]
    /\ stalls  \in [JobIds -> 0..MaxStalled + 1]
    /\ actor   \in [Actors -> ActorStates]

Resting(d) == [pc |-> "idle", dep |-> d, win |-> 0, try |-> 0, seen |-> 0]

\* A call before its first access.  An evaluate call names any window.
Calling(c, w) ==
    [Resting(Target[c]) EXCEPT !.pc = Entry[Kind[c]],
                               !.win = IF Kind[c] = "evaluate" THEN w ELSE 0]

Init ==
    /\ status  = [d \in Deployments |-> "NONE"]
    /\ traffic = [d \in Deployments |-> 0]
    /\ passes  = [d \in Deployments |-> 0]
    /\ records = [d \in Deployments |-> {}]
    /\ jobs    = [j \in JobIds |-> "none"]
    /\ stalls  = [j \in JobIds |-> 0]
    /\ \E d \in Deployments, named \in [Calls -> Windows] :
          actor = [a \in Actors |-> IF a \in Calls THEN Calling(a, named[a])
                                                  ELSE Resting(d)]

-----------------------------------------------------------------------------
At(a, pc)   == actor[a].pc = pc
Goto(a, pc) == actor' = [actor EXCEPT ![a].pc = pc]
Dep(a) == actor[a].dep
Job(a) == <<actor[a].dep, actor[a].win, actor[a].try>>

\* Where an evaluation goes when nothing is left to write.
Exit(a) == IF a \in Workers THEN "end" ELSE "done"

\* Mutant: the id of the job does not deduplicate.
AddedAgain(j) == [jobs EXCEPT ![j] = "waiting"]

\* queue.add: a job id that is already in the queue, finished or not, is kept.
Added(j) == IF jobs[j] = "none" THEN [jobs EXCEPT ![j] = "waiting"] ELSE jobs

(* CanaryService.create and start: read, then write without a condition.   *)

CreateCheck(c) ==
    /\ At(c, "create")
    /\ Goto(c, IF \E d \in Deployments : status[d] \in Unfinished
               THEN "refused" ELSE "insert")
    /\ UNCHANGED <<rows, queue>>

CreateInsert(c) ==
    /\ At(c, "insert")
    /\ status' = [status EXCEPT ![Dep(c)] = "PENDING"]
    /\ Goto(c, "done")
    /\ UNCHANGED <<traffic, passes, records, queue>>

StartRead(c) ==
    /\ At(c, "start")
    /\ Goto(c, IF status[Dep(c)] = "PENDING" THEN "activate" ELSE "refused")
    /\ UNCHANGED <<rows, queue>>

StartActivate(c) ==
    /\ At(c, "activate")
    /\ status' = [status EXCEPT ![Dep(c)] = "ACTIVE"]
    /\ traffic' = [traffic EXCEPT ![Dep(c)] = InitialPct]
    /\ Goto(c, "enqueue")
    /\ UNCHANGED <<passes, records, queue>>

-----------------------------------------------------------------------------
(* An evaluation, by the worker (runCanaryEvaluator) or by a call           *)
(* (evaluateGate): load the row, measure, record the gate, act on it.      *)

Claim(w, j) ==
    /\ At(w, "idle")
    /\ jobs[j] = "waiting"
    /\ jobs' = [jobs EXCEPT ![j] = "active"]
    /\ actor' = [actor EXCEPT ![w] =
                   [pc |-> "load", dep |-> j[1], win |-> j[2], try |-> j[3], seen |-> 0]]
    /\ UNCHANGED <<rows, stalls>>

\* Only an ACTIVE deployment is evaluated: the worker skips, the call refuses.
Load(a) ==
    /\ At(a, "load")
    /\ IF status[Dep(a)] = "ACTIVE"
       THEN actor' = [actor EXCEPT ![a].pc = "measure", ![a].seen = traffic[Dep(a)]]
       ELSE Goto(a, IF a \in Workers THEN "end" ELSE "refused")
    /\ UNCHANGED <<rows, queue>>

FreshTries(w) ==
    {t \in Tries \ {0} : jobs[<<Dep(w), actor[w].win, t>>] = "none"}

\* Mutant: a deferred evaluation is not scheduled again.
DeferDropped(w) ==
    /\ At(w, "measure")
    /\ FreshTries(w) # {}
    /\ Goto(w, "end")
    /\ UNCHANGED <<rows, queue>>

\* Fewer than MIN_EXECUTIONS_FOR_GATE: a PENDING gate and one more job for
\* the same window, without a limit.  Only the worker counts executions.
Defer(w) ==
    /\ At(w, "measure")
    /\ \E t \in FreshTries(w) :
          /\ \A u \in FreshTries(w) : t <= u
          /\ jobs' = Added(<<Dep(w), actor[w].win, t>>)
    /\ Goto(w, "end")
    /\ UNCHANGED <<rows, stalls>>

NextTraffic(a) ==
    IF actor[a].seen + StepPct < MaxPct THEN actor[a].seen + StepPct ELSE MaxPct

\* Mutant: whatever does not fail passes.
VerdictLenient(a, result) ==
    CASE result = "FAIL" -> IF AutoRollback THEN "rollback" ELSE "pause"
      [] OTHER -> IF NextTraffic(a) >= MaxPct THEN "promote" ELSE "advance"

\* What follows a gate result.  On WARN a call schedules the next window and
\* the worker does not.
Verdict(a, result) ==
    CASE result = "FAIL" -> IF AutoRollback THEN "rollback" ELSE "pause"
      [] result = "PASS" -> IF NextTraffic(a) >= MaxPct THEN "promote" ELSE "advance"
      [] result = "WARN" -> IF a \in Workers THEN "end" ELSE "enqueue"

Gate(a) ==
    /\ At(a, "measure")
    /\ \E result \in Results :
          /\ Verdict(a, result) \in {"advance", "enqueue"} => actor[a].win < MaxWindow
          /\ passes' = [passes EXCEPT ![Dep(a)] = @ + (IF result = "PASS" THEN 1 ELSE 0)]
          /\ Goto(a, Verdict(a, result))
    /\ UNCHANGED <<status, traffic, records, queue>>

\* The two updates below have no condition on the status, in either process.
Pause(a) ==
    /\ At(a, "pause")
    /\ status' = [status EXCEPT ![Dep(a)] = "PAUSED"]
    /\ Goto(a, Exit(a))
    /\ UNCHANGED <<traffic, passes, records, queue>>

Advance(a) ==
    /\ At(a, "advance")
    /\ traffic' = [traffic EXCEPT ![Dep(a)] = NextTraffic(a)]
    /\ Goto(a, "enqueue")
    /\ UNCHANGED <<status, passes, records, queue>>

\* The next window's job, the first one's after start.
Enqueue(a) ==
    /\ At(a, "enqueue")
    /\ jobs' = Added(<<Dep(a), actor[a].win + 1, 0>>)
    /\ Goto(a, Exit(a))
    /\ UNCHANGED <<rows, stalls>>

-----------------------------------------------------------------------------
(* Promotion and rollback.  The service updates WHERE status IN (ACTIVE,   *)
(* PAUSED); the worker updates whatever the status has become.             *)

Decidable(a) == a \in Workers \/ status[Dep(a)] \in {"ACTIVE", "PAUSED"}

\* Mutant: a promotion leaves no record.
PromoteUnrecorded(a) ==
    /\ At(a, "promote")
    /\ Decidable(a)
    /\ status' = [status EXCEPT ![Dep(a)] = "PROMOTED"]
    /\ traffic' = [traffic EXCEPT ![Dep(a)] = 100]
    /\ Goto(a, Exit(a))
    /\ UNCHANGED <<passes, records, queue>>

Promote(a) ==
    /\ At(a, "promote")
    /\ Decidable(a)
    /\ status' = [status EXCEPT ![Dep(a)] = "PROMOTED"]
    /\ traffic' = [traffic EXCEPT ![Dep(a)] = 100]
    /\ Goto(a, "recordPromote")
    /\ UNCHANGED <<passes, records, queue>>

RollBack(a) ==
    /\ At(a, "rollback")
    /\ Decidable(a)
    /\ status' = [status EXCEPT ![Dep(a)] = "ROLLED_BACK"]
    /\ traffic' = [traffic EXCEPT ![Dep(a)] = 0]
    /\ Goto(a, "recordRollback")
    /\ UNCHANGED <<passes, records, queue>>

DecisionRefused(a) ==
    /\ At(a, "promote") \/ At(a, "rollback")
    /\ ~Decidable(a)
    /\ Goto(a, "refused")
    /\ UNCHANGED <<rows, queue>>

\* The VersionPromotion row, after the status: a second call.
Record(a) ==
    /\ At(a, "recordPromote") \/ At(a, "recordRollback")
    /\ records' = [records EXCEPT ![Dep(a)] =
                     @ \cup {IF At(a, "recordPromote") THEN "PROMOTE" ELSE "ROLLBACK"}]
    /\ Goto(a, Exit(a))
    /\ UNCHANGED <<status, traffic, passes, queue>>

\* The id of a deferred evaluation is not asked for again: once it completed
\* its slot is free, so a window may be deferred any number of times.
Forgotten(j) == j[3] > 0 /\ stalls[j] = 0

EndJob(w) ==
    /\ At(w, "end")
    /\ jobs' = [jobs EXCEPT ![Job(w)] = IF Forgotten(Job(w)) THEN "none" ELSE "done"]
    /\ actor' = [actor EXCEPT ![w] = Resting(Dep(w))]
    /\ UNCHANGED <<rows, stalls>>

-----------------------------------------------------------------------------
(* Failures: a call dies after its first access, an evaluation dies with   *)
(* its worker, and BullMQ redelivers or gives up a stalled job.            *)

InFlight(c) ==
    actor[c].pc \notin {Entry[Kind[c]], "done", "refused", "lost"}

CallLost(c) ==
    /\ InFlight(c)
    /\ Goto(c, "lost")
    /\ UNCHANGED <<rows, queue>>

WorkerCrash(w) ==
    /\ ~At(w, "idle")
    /\ actor' = [actor EXCEPT ![w] = Resting(Dep(w))]
    /\ UNCHANGED <<rows, queue>>

\* A database or queue call of an evaluation throws; attempts is 1: no retry.
WorkerThrows(w) ==
    /\ ~At(w, "idle")
    /\ jobs' = [jobs EXCEPT ![Job(w)] = "failed"]
    /\ actor' = [actor EXCEPT ![w] = Resting(Dep(w))]
    /\ UNCHANGED <<rows, stalls>>

Held(j) == \E w \in Workers : ~At(w, "idle") /\ Job(w) = j

\* Mutant: a stalled job is redelivered without a limit.
JobStalledUnlimited(j) ==
    /\ jobs[j] = "active" /\ ~Held(j)
    /\ stalls' = [stalls EXCEPT ![j] = @ + 1]
    /\ jobs' = [jobs EXCEPT ![j] = "waiting"]
    /\ UNCHANGED <<rows, actor>>

JobStalled(j) ==
    /\ jobs[j] = "active" /\ ~Held(j)
    /\ stalls' = [stalls EXCEPT ![j] = @ + 1]
    /\ jobs' = [jobs EXCEPT ![j] =
                  IF stalls[j] < MaxStalled THEN "waiting" ELSE "failed"]
    /\ UNCHANGED <<rows, actor>>

-----------------------------------------------------------------------------
EvaluationStep(a) ==
    \/ Load(a) \/ Gate(a) \/ Pause(a) \/ Advance(a) \/ Enqueue(a)
    \/ Promote(a) \/ RollBack(a) \/ Record(a)

CallStep(c) ==
    \/ CreateCheck(c) \/ CreateInsert(c) \/ StartRead(c) \/ StartActivate(c)
    \/ DecisionRefused(c) \/ EvaluationStep(c)

WorkerStep(w) ==
    \/ \E j \in JobIds : Claim(w, j)
    \/ Defer(w) \/ EvaluationStep(w) \/ EndJob(w)

Next ==
    \/ \E c \in Calls : CallStep(c) \/ CallLost(c)
    \/ \E w \in Workers : WorkerStep(w) \/ WorkerThrows(w) \/ WorkerCrash(w)
    \/ \E j \in JobIds : JobStalled(j)

\* The worker and the stalled-job checker keep running, and a call that has
\* begun goes on (or is lost); nobody has to call.
Fairness ==
    /\ \A w \in Workers : WF_vars(WorkerStep(w))
    /\ \A j \in JobIds : WF_vars(JobStalled(j))
    /\ \A c \in Calls : WF_vars(InFlight(c) /\ (CallStep(c) \/ CallLost(c)))

Spec == Init /\ [][Next]_vars /\ Fairness

-----------------------------------------------------------------------------
(* Properties.                                                             *)

\* A call or an evaluation may have died on the deployment's work.
Interrupted(d) ==
    \/ \E c \in Calls : At(c, "lost") /\ Dep(c) = d
    \/ \E j \in JobIds :
          /\ j[1] = d
          /\ jobs[j] = "failed" \/ stalls[j] > 0 \/ (jobs[j] = "active" /\ ~Held(j))

\* The candidate's share of the traffic never exceeds what the gates that
\* passed have earned, whatever stale rows, second starts, redeliveries and
\* manual evaluations do to it (they may lose an increase, never invent one).
Earned(d) == InitialPct + StepPct * passes[d]

TrafficEarned ==
    \A d \in Deployments : status[d] = "ACTIVE" => traffic[d] <= Earned(d)

\* A deployment is promoted, or recorded as promoted, only by a promote call
\* or after enough windows passed their gates to reach maxTrafficPct.
ManuallyPromoted(d) ==
    \E c \in Calls : /\ Kind[c] = "promote" /\ Dep(c) = d
                     /\ actor[c].pc \in {"recordPromote", "done", "lost"}

PromotionEarned ==
    \A d \in Deployments :
        status[d] = "PROMOTED" \/ "PROMOTE" \in records[d] =>
            ManuallyPromoted(d) \/ MaxPct <= Earned(d)

\* A deployment that reads PROMOTED or ROLLED_BACK has its VersionPromotion
\* row, is about to get it, or something died between the two writes.
DecisionRecorded ==
    \A d \in Deployments :
        /\ status[d] = "PROMOTED" =>
              \/ "PROMOTE" \in records[d] \/ Interrupted(d)
              \/ \E a \in Actors : At(a, "recordPromote") /\ Dep(a) = d
        /\ status[d] = "ROLLED_BACK" =>
              \/ "ROLLBACK" \in records[d] \/ Interrupted(d)
              \/ \E a \in Actors : At(a, "recordRollback") /\ Dep(a) = d

\* The jobs of a deployment form one chain: as long as nobody evaluates by
\* hand and no job stalls, at most one evaluation is between its read of the
\* row and its last write, a second start or deferred windows notwithstanding.
Acting(w) == actor[w].pc \notin {"idle", "load", "end"}

OneEvaluation ==
    \A d \in Deployments :
        \/ \E c \in Calls : Kind[c] = "evaluate" /\ ~At(c, "load") /\ ~At(c, "refused")
        \/ Interrupted(d)
        \/ \A v, w \in Workers :
              Acting(v) /\ Acting(w) /\ Dep(v) = d /\ Dep(w) = d => v = w

\* An ACTIVE canary is looked at again: a job is queued or running, or a call
\* is about to add one (canary.service.ts:9 and :322: every window is
\* evaluated, and WARN means re-evaluate).
ActiveHasEvaluation ==
    \A d \in Deployments :
        status[d] = "ACTIVE" =>
            \/ \E j \in JobIds : j[1] = d /\ jobs[j] \in {"waiting", "active"}
            \/ \E c \in Calls : At(c, "enqueue") /\ Dep(c) = d
            \/ Interrupted(d)

\* With hard gates only, a canary that has started is decided (or paused for
\* an operator), unless
\*   - a call or a worker dies on its work,
\*   - two start calls both went through: the second one sets ACTIVE whatever
\*     the evaluations have decided meanwhile, and its job id is taken, or
\*   - its windows have too few executions again and again: the code defers
\*     such a window without a limit, so a canary without traffic stays ACTIVE
\*     and is looked at for ever.
\* Nothing else keeps a canary undecided.
StartedTwice(d) ==
    \E c, e \in Calls :
        /\ c # e /\ Dep(c) = d /\ Dep(e) = d
        /\ Kind[c] = "start" /\ actor[c].pc \in {"enqueue", "done"}
        /\ Kind[e] = "start" /\ actor[e].pc \in {"enqueue", "done"}

DeferredForEver(d) ==
    []<>(\E j \in JobIds : j[1] = d /\ j[3] > 0 /\ jobs[j] = "waiting")

HardGatesDecide ==
    \A d \in Deployments :
        \/ status[d] = "ACTIVE" ~>
               status[d] # "ACTIVE" \/ Interrupted(d) \/ StartedTwice(d)
        \/ DeferredForEver(d)

\* What canary.service.ts:13 calls critical: a failed gate rolls back to
\* prevent regressions, so nothing may promote the candidate afterwards.
RollbackIsFinal ==
    [][\A d \in Deployments :
          status[d] = "ROLLED_BACK" => status'[d] # "PROMOTED"]_vars
===============================================================================
