# TLA+ models of Metis.AI

Metis.AI runs agent packs for tenants. An API process (NestJS, `apps/api`) serves requests, a worker process
(`apps/worker`) runs long jobs, and the two meet in a PostgreSQL database (Prisma) and in BullMQ queues on Redis. Beside
them stands the FinOps platform (`finops-platform`): a gateway that every metered model call goes through, and a control
plane that limits and charges it. Almost every defect this code can have lies between two awaits: a row is read,
something happens elsewhere, and the row is written on the strength of what was read. The models therefore have one
action per database, queue or service call, and the properties speak about what survives every interleaving of those
calls, of crashes and of redeliveries.

## Inventory

| Part | State it keeps | Operations | Interacts with | Hard behaviour | Status |
|---|---|---|---|---|---|
| Agent executions: `execution.service.ts`, `execution-processor.ts` | `ExecutionSession`, `ExecutionStep`, job `exec-<id>` | create, kill, run a job | queue `execution`, policies | kill against run, overwritten cancellation, redelivery after a crash, timeout, leaked capacity | modelled |
| Canary releases: `canary.service.ts`, `canary-evaluator.ts` | `CanaryDeployment`, `CanaryGate`, `VersionPromotion`, delayed jobs | create, start, evaluate, promote, roll back | queue `canary`, evaluator scores | two processes decide on stale rows, chains of delayed jobs, deferral, two writes per decision | modelled |
| Pack lifecycle: `pack-domain.ts`, `pack.service.ts`, `certification.service.ts`, `pack-import-pipeline.ts` | `Pack`, `PackVersion`, `Certification`, `PackInstallation`, jobs with 3 attempts | import, transition, certify, revoke, install, uninstall | queue `pack-import` | stages that lose against their timer run on, retries of half-done imports, revocation against publication | modelled |
| Workflow runner: `workflow-runner.service.ts`, `node-router.service.ts` | `ExecutionSession`, `ExecutionStep`, results of nodes | run a graph by levels | missions, dispatcher, bus | parallel nodes that fail, pause and publish; swallowed errors; unplannable graphs | modelled |
| Agent kernel: `mission`, `bus`, `handoff`, `dispatcher` | `Mission`, `AgentMessage`, a Redis stream per tenant | mission calls, publish, subscribe | Redis, workflow runner | batches acknowledged one by one, failed handlers, unguarded transitions | partly |
| Governance and ORB review: `orb-review-machine.service.ts`, `immutable-version-promotion.service.ts`, `governance-fingerprint.service.ts` | reviews, fingerprints | register to promote and activate, drift check, patches | workflow persistence | a definition compared and read again, drift found while a call is under way | partly |
| Workflow persistence: `workflow-persistence.service.ts` | `Workflow`, nodes, `WorkflowVersion` | save, publish, restore | governance | optimistic lock, numbering of versions | partly |
| Connector runtime: `connector.service.ts`, `connector-runtime.ts` | `Connector`, in-memory limiter and breaker | invoke, start, stop, restart, health check, delete | external systems | lazy windows, outcomes recorded out of order, memory lost at restart | partly |
| FinOps gateway and control plane: `gateway/app.py`, `control_plane/app.py` | `runs`, `calls`, `agents`, `governance_policy`, cache | a metered call, precheck, ingest, kill, end of a run | providers, Redis | limits read before and charged after the call, fail-open, totals and ledger in two statements | partly |
| Worker process: `main.ts` | none of its own | handlers of six queues, shutdown | all queues | process exit under running jobs | partly |
| Gate rules, output diff, risk classification | none | pure functions | canary, replay, shadow | boundaries | not modelled |
| Replay and shadow | `ReplayRun`, `ReplayCase`, `ShadowPair` | create, run, cancel | queues `replay`, `shadow` | cancellation polled every ten cases | not modelled |
| Autonomous operations | `AutoAction` | approve, execute, verify | queue `auto-actions` | unconditional writes | not modelled |
| Ingest, metrics, events, notification, dashboard, email, health | rows and sockets | CRUD, fan-out | - | I/O | not modelled |
| Auth, tenants, capability registry, sandbox, database package | rows | CRUD, tenant filter | - | data | not modelled |
| Evaluator, builder, FDS, AP agent, knowledge, token optimizer | rows | scoring, generation, rules | LLM calls | data | not modelled |
| Web application, SDKs, infrastructure | - | - | - | outside the protocols | not modelled |

What makes the modelled parts correct:

- *Executions.* A killed session stops soon; what the queue says of a job (removed, there, completed) is true of its
  session; SUCCEEDED means every step of the last run succeeded; a step row is closed unless its delivery died; a job
  always settles; and a terminal status is final once the queue has settled the job.
- *Canary.* Traffic and promotion are earned by passed gates; every decision is recorded; one evaluation at a time acts
  on a deployment; an active canary that gets its executions is decided with hard gates.
- *Packs.* One run owns a version; a completed import published it; a block stands once those who read before are gone.
- *Workflows.* Levels respect the graph; nothing starts behind a failed or human node; the verdict is what happened;
  a planned run that does not throw settles.
- *Agent kernel.* An entry is acknowledged or pending once; every entry is tried; an ended mission stays ended.
- *Reviews.* What is published has the hash of its review, but for a save in the window between comparison and snapshot; the history tells the status; versions are immutable.
- *Connectors.* Burst and windows are bounded; a streak of failures opens the circuit; it closes only when earned.
- *FinOps.* Limits are passed by no more than the calls under way; a killed run is not served; totals and ledger agree;
  the cache gives out nothing governance objected to.

## Modules

Each component `C` has a module `C`, small instances of it in `MCC`, and where something is proved `C_proofs`.
`ExecutionPromise` is the abstract specification of an `ExecutionSession` row; `Execution` is shown to implement it.

### Execution

`status` and `output` are the columns `status` and `outputJson` (as the set of keys present) of the session row.
`request`, `runner` and `kill` are program counters: of `ExecutionService.create` for the session, of `runExecution`
for its job, and of each kill call together with the copy of `outputJson` it read. `job` and `stalls` are what BullMQ
knows of the job. `done` is `completedSteps`, `open` counts `ExecutionStep` rows with status RUNNING, and `late` is a
history variable: steps the current run started although a cancellation was visible.

Each action is one call and what the process does until its next call. `BeginRun` has two outcomes because the context
load and `resolveSteps` are outside the try block: when they throw, the session stays RUNNING. `CallFails` is a
database call that throws and writes nothing, at any point of the run. `StepFails` covers the handler's exception and
the progress report after a counted step. `WorkerCrash` is the process exit (`main.ts:325-355`); `JobStalled` is
BullMQ's rule, an external one: the job of a dead worker is delivered again until its stalled counter exceeds
`maxStalledCount`. A kill call may stop for ever at any point: no fairness is assumed of it, which covers an API
process that dies or a call that throws in the middle. Left out: contents of inputs, outputs, traces and audit rows,
costs, tenants, and the validation that precedes the capacity check.

### Canary

`status`, `traffic`, `passes` and `records` are the deployment row, its PASS gates and its `VersionPromotion` rows;
`jobs` and `stalls` are the delayed jobs by their id (deployment, window, try). `actor` holds, for every API call and
for every evaluation slot of the worker (concurrency 2), where it is, and the traffic it read. An evaluation by the
worker and one by `evaluateGate` share their actions; they differ in three places, and the model keeps each: only the
worker defers, only the service decides under a condition on the status (`Decidable`), and on WARN only the service
schedules the next window (`Verdict`). A finished job keeps its id in the queue (no `removeOnComplete`), so adding it
again does nothing (`Added`). A deferral is without a limit: the retry's id holds the time, so that nobody asks for it
again, and its slot is free once it has completed (`Forgotten`); `DeferSlots` bounds how many deferred jobs of one window
the queue tells apart at a time, not how often a window is deferred. Left out: the metrics (any result in `Results`), `currentWindow` (written, never read),
delays, snapshots and audit rows. The window of a manual evaluation is any window.

### PackLifecycle

One version of a pack. `pack`, `status`, `published`, `certs` and `installed` are its rows; `jobs`, `tries` and
`stalls` the import jobs that name it; `run` the pipeline runs that are alive, `call` the API calls. A stage that loses
against its timer (`Timeout`) is not cancelled: the run becomes an `orphan`, which finishes its stage and stops, while
the job is retried. The transition table is `Targets` with `RolesFor`; every write of a status is unconditional, as in
the code, and each call keeps the status it read. Fetch and parse keep no row and end in `Claim` or `Throws`; the
install stage is skipped, because `importPack` never sets `autoInstall` or `stopAt`.

### WorkflowRun

One call of `run`. `flow` is the request (kinds of the nodes, `dependsOn`, with a mission or not), `phase` where the
run stands, `levels` what `planExecutionLevels` returned, `node` where each `execute` is, `status` the runner's local
verdict; `session`, `mission`, `rows` and `log` are the rows others see. `Completed` computes the rounds of the
planner as a function. Each failure is where the code has it: those of mission calls are swallowed, one of the final
update leaves the session RUNNING (`FinalizeThrows`), one of a publish after the agent's work fails the node. An input
mapping is resolved outside the try of `execute`, before the first await of any node of the level: one that is no string
makes the run throw while the others go on (`MappingThrows`), with the session RUNNING. `Kill`
and `ProcessDies` may come at any time. Nothing in the repository resumes a paused mission.

### AgentKernel

One mission with its tenant's stream. A call reads and tests (`Read`, `Refused`), writes without a condition
(`Write`), stores the message and appends it (`StoreMessage`, `AppendEntry`). `group`, `pending` and `acked` are what
Redis knows of the consumer group; `consumer` is the loop of `subscribe`, with what is left of its batch. Failing
accesses and crashes are bounded by `MaxFaults`. `late`, `handled`, `lost` and `tries` are history variables.

### OrbReview

One workflow: its definition `def`, the snapshots `versions`, `prints` and `approvals` of the fingerprint registry, and the review rows (`status`, `last` entry of the history, `printOf`, `promoted`). `call` holds the step of
each API call and what it has read; every route reads, asserts against `Transitions` and updates in separate accesses.
`approvals` holds <<a, b>> when b was approved after a, which is what ordering by `approvedAt` tells; `Newest` is the
row `findApproved` returns.
`PromoteCompare` compares the definition with the hash of the review and `PromoteSnapshot` reads it again. `edits` counts
the saves of what the hash covers: a save of nodes, of edges alone, a restored version, a sub-agent added or deleted.
`rows` counts those that replace the node rows, whose ids the injection of patches uses. Definitions with the same hash are
one body: what the hash leaves out (patches in `config.governance`, the name and launch URL of a sub-agent) decides
nothing in these routes, so an injection changes no variable but its call, and `updateSubAgent`, which writes nothing
else, is no action.
`Workflow.version` is no variable: a save compares it before its transaction and nothing tests it again. The policy version is fixed and the score is any score.

### ConnectorGate

`row` is the connector's status; `bucket` and `circuit` are the limiter's and breaker's maps in memory (`None` after a
restart of the API, since nothing configures stored connectors at startup); `call` and `request` are the invocations
and management requests under way. Time is `now`, and tokens are counted in parts (`Unit`) because a refill adds
fractions. `Checked` refills and counts the windows anew, as `check` does even for calls it refuses. `sent`, `streak`
and `phase` are history variables.

### FinOpsGateway

`request` is `process_request` of each call in the gateway's thread pool, `check` the control plane's `precheck` of it
and `ingest` its report, so that a handler outlives a gateway that stopped waiting (`StopsWaiting`,
`ReportAbandoned`). `runs`, `ledger` and `spent` are the run rows, the sums of the `calls` rows by run and by day;
`cache` is what the backend holds, in memory or in Redis (`deployed.shared`), and `deployed.closed` is
`METIS_FAIL_CLOSED`. Every statement others can see is an action: `ReadRun` reads once, `WriteLoop`, `KillRun` and
`ReadBudget` act on that copy; `InsertCall` and `UpdateRun` are the two statements of `ingest`. A 500 of the control
plane has no JSON body, so it ends the call whether the gateway fails open or closed (`GetsError`, `ReportFails`). A
downgrade is any of the outcomes of ratio, budget, complexity, quality gate and share; a text of the same scope may be
similar enough or not. `open`, `late`, `watched` and `doomed` are history variables.

## Runs

| Run | Instance | What it shows |
|---|---|---|
| `execution` | 1 session, 3 steps, 2 kill calls, 1 forgiven stall | kills stop the run, success and step rows are true, refinement of `ExecutionPromise`, every job settles |
| `execution_admission` | 2 sessions for one slot, 1 step, 1 kill call | what the queue says of a job is true of its session |
| `execution_final_status` | 1 session, 1 kill call | violated: a job completes and leaves its session RUNNING |
| `canary` | 1 deployment, two start calls, a manual evaluation, 2 slots of the worker, 1 forgiven stall, all gate results | earned traffic and promotion, recorded decisions, one evaluation at a time |
| `canary_hard_gates` | create, two start calls, 1 slot, any number of deferrals, PASS and FAIL only | a decision in the end |
| `canary_rollback` | a manual evaluation beside two slots of the worker | violated: a rollback is overwritten by a promotion |
| `pack_lifecycle` | 2 jobs, 2 runs alive, 2 calls, 2 attempts, 1 forgiven stall | one owner of a version, completed means published, a settled block stands |
| `workflow_run` | 3 nodes: all graphs of tasks, all mixes of kinds on three shapes | sound plans, order, verdict, and that a planned run settles unless it throws |
| `orb_review` | 1 review, 2 calls of any kind, 1 save, 2 versions, enforced governance | promotion and history are true, drift stands, versions stand |
| `connector_gate` | 3 calls, 2 requests, ticks 0 to 4, threshold 2, 1 restart | burst and windows, opening and closing of the circuit |
| `agent_kernel` | 2 calls after create, 2 consumers, batch 2, 1 fault | entries accounted for and tried, ended missions stand |
| `finops_gateway` | 3 calls of two kinds, 2 threads, limits of 1, 2 events, two deployments | limits, kills, totals, cache |

Why these bounds.

- *Execution.* Three steps separate a first, a middle and a last one; two kill calls are the least for which one stale
  merge erases the flag of the other; one forgiven stall gives two deliveries, the second stall the job's end. Two
  sessions for one slot are the least with contention.
- *Canary.* Traffic goes 5, 15, 20, so that one window advances and the next promotes, and `MaxWindow` leaves one beyond
  for evaluations that come late; two starts and two evaluations are the least that race. Two deferred jobs of a window
  are enough for each to schedule the next for ever; the liveness run has one slot and no manual evaluation, since those
  add interleavings and no way out. Promote and rollback calls take the steps that evaluations take, here in the violated
  run and for all calls in the theorems.
- *Packs.* Two jobs race for one version and each may be retried once (the code's three attempts add another retry of the
  same kind); two runs alive are an orphan and its retry, or two imports.
- *Workflow.* Three nodes have chains, forks, joins, cycles, self-loops and missing dependencies: all 4096 graphs.
- *Orb.* Two calls interleave at every access; one save, of any kind, before, in or after the window of a promotion, and
  two versions are what the races need.
- *Gate.* The hour window (2 calls, 3 ticks) outlasts the minute (1 call, the tick itself); a third of a token per tick
  makes refills fractional. A burst of two lets each limit refuse what the others admit: after a call at tick 0 another
  one is stopped by the minute alone, after calls at 0 and 1 one at tick 3 by the hour alone, after calls at 2 and 3 one
  at tick 4 by the tokens alone. Threshold 2 separates a failure from a streak.
- *Kernel.* Three entries and batches of two give a full batch, a rest in a batch and an entry behind it.
- *FinOps.* Three calls on two threads leave one to be checked when the first two are charged; limits of 1 with a price
  of 2 are passed by one call; two events give a fail-open call or an abandoned report and something after it.

Symmetry is used only where no liveness is checked. Deadlock is not checked, since a finished instance stops.

The two listed violations are behaviours of the code: `FinalStatusWritten` (after a cancellation that the RUNNING update
overwrote, the flag makes the run return without a status; the session stays RUNNING for ever and takes a slot of
`maxConcurrency`) and `RollbackIsFinal` (the worker promotes by id, `canary-evaluator.ts:226`, after a failed gate
rolled back elsewhere).

### Claims that do not hold

Five further configurations, run by hand, each refute one claim:

| Configuration | Claim | What the code does |
|---|---|---|
| `MCExecutionCancelFinal.cfg` | `CancelledIsFinal` (`execution.service.ts:283`) | the worker's status updates are unconditional |
| `MCCanaryWarn.cfg` | `ActiveHasEvaluation` with soft gates | the worker's WARN branch is empty (`canary-evaluator.ts:292`), the service's re-evaluates |
| `MCOrbReviewApproved.cfg` | `PromotedIsApproved` (`governance-fingerprint.service.ts:9`) | a review approved by its score alone is promoted without an approved fingerprint |
| `MCConnectorGateHalfOpen.cfg` | `HalfOpenLimited` (`connector-runtime.ts:698`) | the counter of half-open attempts is never incremented |
| `MCAgentKernelRedelivery.cfg` | `Redelivered` (`bus.service.ts:240`) | the loop reads new entries only; nothing claims pending ones |

Found while modelling, and kept in the models or left to the reader:

- A save compares `expectedVersion` before its transaction (`workflow-persistence.service.ts:322`): two editors with the
  same version both succeed.
- A save between a promotion's comparison and its snapshot is published unseen
  (`immutable-version-promotion.service.ts:55`): of nodes, of edges alone, of a restored version, or a sub-agent added or
  deleted, which tests and raises no version. `updateSubAgent` writes back the config it read and can drop a patch
  (`workflow-persistence.service.ts:979`). Patches are outside the fingerprint (`node-governance-profiler.service.ts:133`); a direct publish under
  enforcement accepts any approved review of the workflow, whatever definition it was about; a score written back late can leave an approval on a newer fingerprint.
- A canary window with too few executions is deferred without a limit (`canary-evaluator.ts:85`): a canary without traffic
  stays ACTIVE. A second start that read PENDING early sets a canary ACTIVE again that was already decided; the id of its
  first window is taken, so nothing evaluates it (`canary.service.ts:128`).
- An input mapping that is no string makes a workflow run throw outside the try of its node (`node-router.service.ts:81`);
  the session stays RUNNING, and nothing validates the request.
- The windows of the limiter are fixed, not sliding: the end of one and the start of the next together let twice the cap
  through (`connector-runtime.ts:571`).
- `pauseForHuman` and `complete` test nothing: a pause re-opens a mission it finds ended (`mission.service.ts`).
- After a restart of the API connectors are neither limited nor broken until they are started (`connector.service.ts:404`);
  a health check writes the status it read before its probe and can reactivate a stopped connector (`:234`).
- Two creations of an execution pass the capacity count together (`execution.service.ts:96`), two of a canary the check for
  an unfinished one (`canary.service.ts:64`).
- One failure of `ensureGroup` ends a consumer for good while its handle stays registered (`bus.service.ts:202`); a message
  whose row is stored but not appended is never seen (`:110`).
- `workflow-runner.service.ts:11` speaks of a linear path; the code plans levels and runs them in parallel.
- A control plane that answers 500 ends the gateway's call by an exception: `METIS_FAIL_CLOSED` decides nothing there.

## Fairness

`Execution`: weak fairness of the worker's own steps for each session and of the stalled-job check, since the worker's
loop and BullMQ's timer run as long as the process group is restarted. `Canary`: the same for each evaluation slot and
job, and a call that has begun goes on or is lost. `WorkflowRun`: weak fairness of the run and of each node, since the
event loop runs what is ready and an awaited call returns or throws. `AgentKernel`: weak fairness of each consumer's
loop, for the same reason. Nobody is obliged to call the API, to crash or to let a call fail. `PackLifecycle`,
`OrbReview`, `ConnectorGate` and `FinOpsGateway` promise nothing that must happen, and state no fairness.
`EveryJobSettles` holds because crashes are bounded by the stalled counter; `HardGatesDecide` excludes deployments whose
evaluation or call died (`Interrupted`), those started twice (`StartedTwice`) and behaviours that defer a window for ever
(`DeferredForEver`), `RunSettles` a run whose process died, whose mapping threw or whose last update failed,
`EveryEntryTried` an entry whose reader died or stopped.

## Proofs

Eight proof modules, one per component, are checked by tlapm, for all values of the constants that satisfy the named
assumptions of each module. Every invariant that a passing run checks is a theorem, and so is every action property and
the refinement. Each invariant proof follows one pattern: an inductive `IInv`, checked by TLC first, one lemma per
action, and temporal steps by PTL.

*Execution.* `IInv == TypeOK /\ Shapes /\ Marked`. `Shapes` relates row, job, run and request of each session: a run
exists only under an active job, QUEUED only before the RUNNING update, `done` matches the position in the loop, and
open rows are bounded by the deliveries. It gives `TypeCorrect`, `SucceededComplete`, `OpenRowsBounded` and two parts of
`QueueAnswersHold`. `KillStopsRun` needs more: with two kill calls, a stale merge can make a visible cancellation
invisible, and the worker starts another step. `Marked` pays for each such step with a kill call that has merged:
`Lateness` says that whenever the worker has just seen no cancellation, the late steps are strictly fewer than the merges.
`PromiseKept` is the refinement: the mapping is that of `ImplementsPromise` (live deliveries, deliveries left), one lemma
per group of steps shows a step of the promise or a stutter, with `Shapes` to tell that a write comes from a live
delivery and that a cancellation meets an open row. `SettledIsFinal` draws from it what the reader of a row wants to
know: once the queue is done with a job, a terminal status stays.

*Canary.* `TrafficEarned` is not inductive: the writes come from actors with an old copy of the row. `Backed(a)` says
what a copy and an intention are worth: a copy is covered by the gates that have passed, and a promotion that is about
to be written or recorded is covered or was asked for. PASS gates are only ever added, so `Backed` survives the steps
of others (`EarningsKeep`). `StallBound` closes the type. `DecisionRecorded` and `OneEvaluation` rest on the queue:
`QInv` says that an active job has one holder, so that every death leaves a trace, and that the jobs of a deployment form
one chain of windows with at most one open link, whatever is started twice or deferred.

*PackLifecycle.* Two runs that both own the version's row are excluded because owning implies that the row exists
(`OwnersRow`) and the queue gives a job to one live run (`Holding`, with the counters in `Budget`). `BlockStands` is an
action property of the same invariant: with the block settled nobody is past a check, and no check lets BLOCKED through.

*WorkflowRun.* The planner is a recursive function of the round, and induction over data is not available; a least
counterexample is (`Least`, from the well-foundedness of the naturals): the first round at which a claim fails follows
one at which it holds. So the function exists (`RoundsExist`), its rounds grow (`RoundsGrow`), and each one before the
last completes another node, so that as many rounds as there are nodes suffice (`RoundsCount`, by cardinality). A set of
nodes that cannot start is what is left at the end. For the run, `Reached` fixes the level a run is at: levels before it
have passed, levels after it have not begun; `Told` ties each node's point to the messages of the mission, `Ended`
the verdict to the nodes.

*OrbReview.* The properties speak of rows; inductive is what a call still knows of what it read before others wrote:
`Asserted` (the status it compared with the table), `Window` (the fingerprint it compared, as long as nobody has saved
the definition since) and `Numbered` (a version it computed or published). Rows only grow and versions are only added
(`Kept`), so every other call keeps what it knows; `VersionsStand` follows for two calls that computed one number.

*ConnectorGate.* The bounds speak of calls, the code keeps counters. `Metered`: the tokens left and those spent since
any call never exceed the burst and the refill since. `Counted`: the calls a window has not counted are older than its
start; that bounds the window that runs, not any stretch of its length. `Tripped`: the circuit's counters bound the outcomes recorded.

*AgentKernel.* `Accounted` looks at the group, each step is of one consumer. `Owned` and `Holding` tie a batch to what is
pending for that consumer alone and not tried before; `StreamBound` counts entries by ended calls; `Reopeners` says who
may still re-open an ended mission: any pause, and calls that read it before.

*FinOpsGateway.* A limit is read by a call and charged by the same call much later. `Metered` counts the calls in
between (`Flight`, `Spenders`) as charged already: a total and the calls in flight towards it stay below the limit plus
what the threads, and the calls excused, can add (`Covered`). A request past a limit adds to the flight only while it
holds a thread; one that is abandoned is excused in the same step. `Stage` says where a request can be in gateway,
precheck and ingest at once, `Stopped` that a doomed request gets nowhere, `Sound` and `Judged` what may be cached and
given out. For `LedgerAgrees` the costs of the reports between their two statements have to be summed; instead of a fold,
`Booked` states that there is an additive function on sets of requests which has the difference of the two totals as its
value at those reports (`Sums`). A step that moves one report changes one weight (`Reweighed`), which needs no induction
over sets.

Only model-checked: liveness under fairness (`EveryJobSettles`, `HardGatesDecide`, `RunSettles`, `EveryEntryTried`),
which rests on ENABLED and is out of the prover's reach. The two violations are TLC's as well.

## Not modelled

- Two fifths of the implementation is user interface, which calls the API and keeps no state of the protocols, and much
  of the rest computes over data (scores, prompts, prices, rules) or is I/O; so the models cover a small share of its
  lines, and what they cover is where processes meet.
- Gate rules, output diff, risk, policy checker, evaluator, builder, FDS, AP agent, token optimizer: computations over
  data; the models take any outcome.
- Replay and shadow poll for a cancellation every ten cases; the race is that of `FinishRun` in `Execution`. Autonomous
  operations write by id without any condition, so there is no promise to check. Promotion by hand writes one row.
- Ingest upserts by key in one statement. Auth, tenants, notification, events: I/O and single-row CRUD.
- Of the agent kernel, handoffs (rows that publish like a pause, no caller); of the connectors, the MCP client with its
  lifecycle manager, update and schema discovery; of FinOps, alerts, savings, recommendations, dashboards, the quality
  guard; of the ORB, evidence packs and runtime governance.

## Plan

1. Done: the eight components above, and the proofs of all their safety properties.
2. Proofs next: which of these strengthenings say something a run could check as a property of its own, and the safety
   half of the liveness properties (what can no longer happen once a job, a run or an entry is given up).
3. Then `AgentKernel` composed with `WorkflowRun` over a shared mission, and a canary whose gate rules are operators checked
   against a reference definition.
