----------------------------- MODULE FinOpsGateway -----------------------------
(***************************************************************************)
(* The metered path of a model call: the gateway asks the control plane    *)
(* (precheck), looks the answer up in the semantic cache or calls the      *)
(* provider, reports the call to the ledger (ingest) and caches the text.  *)
(* Gateway requests and control-plane handlers run in thread pools; every  *)
(* statement on the control plane's database is atomic, a handler is not.  *)
(* A gateway that stops waiting does not stop the handler it asked.        *)
(*                                                                         *)
(* Abstracted: prompts, tokens, latency, savings, alerts; one agent with   *)
(* one daily budget; the conditions for a cheaper model (ratio, budget,    *)
(* complexity, quality gate, canary share: any outcome); similarity (any   *)
(* text of the same scope may be similar enough). Every call names its run *)
(* (without a run id the budget alone is checked) and may be cached.       *)
(***************************************************************************)
EXTENDS Integers, FiniteSets

CONSTANTS
    Requests,       \* gateway requests, one each
    Asks,           \* what a request may say
    Runs,           \* run ids
    Models,
    Price,          \* what a call of a model costs, its dearest
    Cheaper, Safer, \* DOWNGRADE_MAP, and escalate_to_tier for the safe tier
    TopPrice,       \* the dearest of all
    MaxSteps, MaxCost, LoopThreshold,   \* run_policies of the agent
    HardLimit,      \* its daily budget
    Pool,           \* threads of the gateway
    Deployments,    \* how it may be deployed
    Defaults,       \* the settings at the start
    None,           \* no signature, no text: a model value
    MaxEvents       \* bound: failures, restarts, changes of settings, ends of a
                    \* run, texts forgotten and midnights

Risks == {"low", "high", "highest"}  \* from high_risk_, escalate_risk_threshold
Ask == [run : Runs, signature : {None, "s", "t"}, space : Nat,
        sensitive : BOOLEAN, risk : Risks, prompt : Nat, model : Models,
        test : BOOLEAN]

ASSUME FinOpsAssumption ==
    /\ IsFiniteSet(Requests) /\ Asks \subseteq Ask
    /\ None \notin Requests
    /\ TopPrice \in Nat /\ Price \in [Models -> 0 .. TopPrice]
    /\ Cheaper \in [Models -> Models] /\ Safer \in [Models -> Models]
    /\ MaxSteps \in Nat \ {0} /\ MaxCost \in Nat \ {0}
    /\ LoopThreshold \in Nat \ {0} /\ HardLimit \in Nat \ {0}
    /\ Pool \in Nat \ {0} /\ MaxEvents \in Nat
    /\ Deployments \subseteq [closed : BOOLEAN, shared : BOOLEAN]
    /\ Defaults \in [cache : BOOLEAN, governance : BOOLEAN]

VARIABLES
    deployed,  \* METIS_FAIL_CLOSED, and whether Redis holds the cache
    settings,  \* agents.semantic_cache, governance_policy.enabled
    runs,      \* rows of runs
    ledger,    \* SUM(cost_usd) of the calls rows of each run
    spent,     \* spend_since(day_start)
    cache,     \* what the cache backend holds
    request,   \* the gateway's side of each request
    check,     \* the control plane's precheck of each request
    ingest,    \* the control plane's ingest of each request
    events     \* what MaxEvents bounds

vars == <<deployed, settings, runs, ledger, spent, cache, request, check, ingest,
          events>>
config == <<deployed, settings>>

-----------------------------------------------------------------------------
\* Mutant: sig_repeat without its default.
NoRunUnset == [status |-> "none", steps |-> 0, cost |-> 0, last |-> None,
               repeat |-> None]
NoRun == [status |-> "none", steps |-> 0, cost |-> 0, last |-> None,
          repeat |-> 0]
NoCheck == [point |-> "none", over |-> FALSE, repeat |-> 0, model |-> None,
            cacheable |-> FALSE, watched |-> FALSE]
Unsent  == [point |-> "unsent"]

(* doomed: history, the run was killed when the request came in. open: the *)
(* gateway went on without an answer of the precheck. late: it did not     *)
(* wait for its report. watched: history, governance was on at the check.  *)
Sent(a, killed) ==
    [point |-> "checking", ask |-> a, model |-> a.model, cacheable |-> FALSE,
     hit |-> FALSE, text |-> None, open |-> FALSE, late |-> FALSE,
     watched |-> FALSE, doomed |-> killed]

LivePoints == {"checking", "lookup", "calling", "reporting", "storing"}
Live == {q \in Requests : request[q].point \in LivePoints}
At(q, p)  == request[q].point = p
Go(q, p)  == request' = [request EXCEPT ![q].point = p]
Checks(q, p) == check' = [check EXCEPT ![q].point = p]

Opened(r) == IF runs[r].status = "none" THEN [NoRun EXCEPT !.status = "running"]
             ELSE runs[r]
\* Mutant: the limits are compared for equality.
OverOnce(run) == run.steps = MaxSteps \/ run.cost = MaxCost
Over(run) == run.steps >= MaxSteps \/ run.cost >= MaxCost
Onward(over) == IF over THEN "kill" ELSE "budget"
Allowed(a) == settings.governance => ~a.sensitive /\ a.risk = "low"
Routes(a) == IF settings.governance /\ a.risk = "highest" THEN {Safer[a.model]}
             ELSE {a.model, Cheaper[a.model]}
Cost(q) == IF request[q].hit THEN 0 ELSE Price[request[q].model]
Reported(q) == ~request[q].ask.test
AfterReport(q) == IF request[q].hit THEN "served"
                  ELSE IF request[q].text = None THEN "failed" ELSE "storing"
Scope(q) == <<request[q].ask.space, request[q].model>>
Found(q) == {e \in cache : e.scope = Scope(q)}
Exact(q) == {e \in Found(q) : e.prompt = request[q].ask.prompt}

Init ==
    /\ deployed \in Deployments
    /\ settings = Defaults
    /\ runs = [r \in Runs |-> NoRun]
    /\ ledger = [r \in Runs |-> 0]
    /\ spent = 0
    /\ cache = {}
    /\ request = [q \in Requests |-> Unsent]
    /\ check = [q \in Requests |-> NoCheck]
    /\ ingest = [q \in Requests |-> "none"]
    /\ events = 0

-----------------------------------------------------------------------------
(* The gateway, up to the answer of the precheck.                          *)
Begin(q, a) ==
    /\ At(q, "unsent")
    /\ Cardinality(Live) < Pool
    /\ request' = [request EXCEPT ![q] =
                     Sent(a, runs[a.run].status = "killed")]
    /\ Checks(q, "asked")
    /\ UNCHANGED <<config, runs, ledger, spent, cache, ingest>>

GetsAnswer(q) ==
    /\ At(q, "checking") /\ check[q].point = "answered"
    /\ request' = [request EXCEPT
                     ![q].point = "lookup",
                     ![q].model = check[q].model,
                     ![q].cacheable = check[q].cacheable,
                     ![q].watched = check[q].watched]
    /\ check' = [check EXCEPT ![q] = NoCheck]
    /\ UNCHANGED <<config, runs, ledger, spent, cache, ingest>>

GetsRefusal(q) ==
    /\ At(q, "checking") /\ check[q].point = "blocked"
    /\ Go(q, "blocked")
    /\ check' = [check EXCEPT ![q] = NoCheck]
    /\ UNCHANGED <<config, runs, ledger, spent, cache, ingest>>

\* A 500 has no JSON body: the exception is not an HTTPError and ends the call.
GetsError(q) ==
    /\ At(q, "checking") /\ check[q].point = "thrown"
    /\ Go(q, "failed")
    /\ check' = [check EXCEPT ![q] = NoCheck]
    /\ UNCHANGED <<config, runs, ledger, spent, cache, ingest>>

\* Mutant: fail-open keeps the cache on.
StopsWaitingCached(q) ==
    /\ At(q, "checking") /\ ~deployed.closed
    /\ request' = [request EXCEPT ![q].point = "lookup", ![q].open = TRUE,
                                  ![q].cacheable = TRUE]
    /\ UNCHANGED <<config, runs, ledger, spent, cache, check, ingest>>

\* No connection, or no answer in ten seconds: wherever the handler is.
StopsWaiting(q) ==
    /\ At(q, "checking")
    /\ \/ deployed.closed /\ Go(q, "refused")
       \/ /\ ~deployed.closed
          /\ request' = [request EXCEPT ![q].point = "lookup", ![q].open = TRUE]
    /\ UNCHANGED <<config, runs, ledger, spent, cache, check, ingest>>

-----------------------------------------------------------------------------
(* precheck, one action per statement that others can see.                 *)
ReadRun(q) ==
    LET a == request[q].ask
        run == Opened(a.run)
    IN  /\ check[q].point = "asked"
        /\ runs' = [runs EXCEPT ![a.run] = run]
        /\ \/ run.status = "killed" /\ Checks(q, "blocked")
           \/ /\ run.status # "killed"
              /\ check' = [check EXCEPT
                             ![q].point = IF a.signature # None THEN "loop"
                                          ELSE Onward(Over(run)),
                             ![q].over = Over(run),
                             ![q].repeat = IF run.last = a.signature
                                           THEN run.repeat + 1 ELSE 1]
        /\ UNCHANGED <<config, ledger, spent, cache, request, ingest>>

WriteLoop(q) ==
    /\ check[q].point = "loop"
    /\ runs' = [runs EXCEPT ![request[q].ask.run].last = request[q].ask.signature,
                            ![request[q].ask.run].repeat = check[q].repeat]
    /\ Checks(q, Onward(check[q].over \/ check[q].repeat >= LoopThreshold))
    /\ UNCHANGED <<config, ledger, spent, cache, request, ingest>>

KillRun(q) ==
    /\ check[q].point = "kill"
    /\ runs' = [runs EXCEPT ![request[q].ask.run].status =
                  IF @ = "running" THEN "killed" ELSE @]
    /\ Checks(q, "blocked")
    /\ UNCHANGED <<config, ledger, spent, cache, request, ingest>>

ReadBudget(q) ==
    /\ check[q].point = "budget"
    /\ Checks(q, IF spent >= HardLimit THEN "blocked" ELSE "decide")
    /\ UNCHANGED <<config, runs, ledger, spent, cache, request, ingest>>

Decide(q) ==
    LET a == request[q].ask
    IN  /\ check[q].point = "decide"
        /\ \E m \in Routes(a) :
             check' = [check EXCEPT ![q].point = "answered", ![q].model = m,
                                    ![q].cacheable = settings.cache /\ Allowed(a),
                                    ![q].watched = settings.governance]
        /\ UNCHANGED <<config, runs, ledger, spent, cache, request, ingest>>

\* The database fails in the handler, or the control plane dies under it.
CheckThrows(q) ==
    /\ check[q].point \in {"asked", "loop", "kill", "budget", "decide"}
    /\ Checks(q, "thrown")
    /\ UNCHANGED <<config, runs, ledger, spent, cache, request, ingest>>

-----------------------------------------------------------------------------
(* The gateway: cache, provider, report, cache again.                      *)
Hit(q) ==
    /\ At(q, "lookup") /\ request[q].cacheable
    /\ \E e \in Found(q) :
         request' = [request EXCEPT
                       ![q].point = IF Reported(q) THEN "reporting" ELSE "served",
                       ![q].hit = TRUE, ![q].text = e.from]
    /\ ingest' = [ingest EXCEPT ![q] = IF Reported(q) THEN "asked" ELSE "none"]
    /\ UNCHANGED <<config, runs, ledger, spent, cache, check>>

Miss(q) ==
    /\ At(q, "lookup")
    /\ request[q].cacheable => Exact(q) = {}
    /\ Go(q, "calling")
    /\ UNCHANGED <<config, runs, ledger, spent, cache, check, ingest>>

Answers(q, text) ==
    /\ At(q, "calling")
    /\ request' = [request EXCEPT
                     ![q].text = text,
                     ![q].point = IF Reported(q) THEN "reporting"
                                  ELSE IF text = None THEN "failed" ELSE "storing"]
    /\ ingest' = [ingest EXCEPT ![q] = IF Reported(q) THEN "asked" ELSE "none"]
    /\ UNCHANGED <<config, runs, ledger, spent, cache, check>>

ProviderAnswers(q) == Answers(q, q)
ProviderFails(q)   == Answers(q, None)

ReportDone(q) ==
    /\ At(q, "reporting") /\ ingest[q] = "done"
    /\ Go(q, AfterReport(q))
    /\ UNCHANGED <<config, runs, ledger, spent, cache, check, ingest>>

\* As in GetsError: the answer of the provider is lost to the client.
ReportFails(q) ==
    /\ At(q, "reporting") /\ ingest[q] \in {"thrown", "torn"}
    /\ Go(q, "failed")
    /\ UNCHANGED <<config, runs, ledger, spent, cache, check, ingest>>

ReportAbandoned(q) ==
    /\ At(q, "reporting")
    /\ request' = [request EXCEPT ![q].point = AfterReport(q), ![q].late = TRUE]
    /\ UNCHANGED <<config, runs, ledger, spent, cache, check, ingest>>

Store(q) ==
    /\ At(q, "storing")
    /\ cache' = IF request[q].cacheable
                THEN (cache \ Exact(q)) \cup
                     {[scope |-> Scope(q), prompt |-> request[q].ask.prompt, from |-> q]}
                ELSE cache
    /\ Go(q, "served")
    /\ UNCHANGED <<config, runs, ledger, spent, check, ingest>>

-----------------------------------------------------------------------------
(* ingest: the calls row, then the run's totals.                           *)
InsertCall(q) ==
    LET r == request[q].ask.run
    IN  /\ ingest[q] = "asked"
        /\ runs' = [runs EXCEPT ![r] = Opened(r)]
        /\ ledger' = [ledger EXCEPT ![r] = @ + Cost(q)]
        /\ spent' = spent + Cost(q)
        /\ ingest' = [ingest EXCEPT ![q] = "inserted"]
        /\ UNCHANGED <<config, cache, request, check>>

\* Mutant: the price of a text from the cache is added to the run.
UpdateRunHits(q) ==
    LET r == request[q].ask.run
    IN  /\ ingest[q] = "inserted"
        /\ runs' = [runs EXCEPT ![r].steps = @ + 1,
                                ![r].cost = @ + Price[request[q].model]]
        /\ ingest' = [ingest EXCEPT ![q] = "done"]
        /\ UNCHANGED <<config, ledger, spent, cache, request, check>>

UpdateRun(q) ==
    LET r == request[q].ask.run
    IN  /\ ingest[q] = "inserted"
        /\ runs' = [runs EXCEPT ![r].steps = @ + 1, ![r].cost = @ + Cost(q)]
        /\ ingest' = [ingest EXCEPT ![q] = "done"]
        /\ UNCHANGED <<config, ledger, spent, cache, request, check>>

IngestThrows(q) ==
    /\ \/ ingest[q] = "asked" /\ ingest' = [ingest EXCEPT ![q] = "thrown"]
       \/ ingest[q] = "inserted" /\ ingest' = [ingest EXCEPT ![q] = "torn"]
    /\ UNCHANGED <<config, runs, ledger, spent, cache, request, check>>

-----------------------------------------------------------------------------
(* Everybody else. A text is forgotten when its time is over, with the     *)
(* full map, or with the process that holds it.                            *)
\* Mutant: run/end without its condition on the status.
EndRunAnyway(r) ==
    /\ runs' = [runs EXCEPT ![r].status = "ended"]
    /\ UNCHANGED <<config, ledger, spent, cache, request, check, ingest>>

EndRun(r) ==
    /\ runs[r].status \in {"none", "running"}
    /\ runs' = [runs EXCEPT ![r].status = "ended"]
    /\ UNCHANGED <<config, ledger, spent, cache, request, check, ingest>>

NewDay ==
    /\ spent > 0 /\ spent' = 0
    /\ UNCHANGED <<config, runs, ledger, cache, request, check, ingest>>

SetCache ==
    /\ settings' = [settings EXCEPT !.cache = ~ @]
    /\ UNCHANGED <<deployed, runs, ledger, spent, cache, request, check, ingest>>

SetGovernance ==
    /\ settings' = [settings EXCEPT !.governance = ~ @]
    /\ UNCHANGED <<deployed, runs, ledger, spent, cache, request, check, ingest>>

Forget ==
    /\ \E e \in cache : cache' = cache \ {e}
    /\ UNCHANGED <<config, runs, ledger, spent, request, check, ingest>>

GatewayRestarts ==
    /\ Live # {}
    /\ request' = [q \in Requests |->
                     IF q \in Live
                     THEN [request[q] EXCEPT !.point = "lost",
                                             !.late = @ \/ At(q, "reporting")]
                     ELSE request[q]]
    /\ cache' = IF deployed.shared THEN cache ELSE {}
    /\ UNCHANGED <<config, runs, ledger, spent, check, ingest>>

Gateway(q) == \/ \E a \in Asks : Begin(q, a)
              \/ GetsAnswer(q) \/ GetsRefusal(q) \/ GetsError(q)
              \/ Hit(q) \/ Miss(q) \/ ProviderAnswers(q)
              \/ ReportDone(q) \/ ReportFails(q) \/ Store(q)

ControlPlane(q) == \/ ReadRun(q) \/ WriteLoop(q) \/ KillRun(q)
                   \/ ReadBudget(q) \/ Decide(q) \/ InsertCall(q) \/ UpdateRun(q)

Event == \/ \E q \in Requests : \/ StopsWaiting(q) \/ CheckThrows(q)
                                \/ ProviderFails(q) \/ ReportAbandoned(q)
                                \/ IngestThrows(q)
         \/ \E r \in Runs : EndRun(r)
         \/ NewDay \/ SetCache \/ SetGovernance \/ Forget \/ GatewayRestarts

Next == \/ /\ \E q \in Requests : Gateway(q) \/ ControlPlane(q)
           /\ UNCHANGED events
        \/ /\ events < MaxEvents /\ events' = events + 1
           /\ Event

Spec == Init /\ [][Next]_vars

-----------------------------------------------------------------------------
(* Type invariant of the requests, the handlers, the rows and the cache.   *)
Points == LivePoints \cup {"blocked", "failed", "refused", "served", "lost"}
Request == [point : Points, ask : Asks, model : Models, cacheable : BOOLEAN,
            hit : BOOLEAN, text : Requests \cup {None}, open : BOOLEAN,
            late : BOOLEAN, watched : BOOLEAN, doomed : BOOLEAN]
Check == [point : {"none", "asked", "loop", "kill", "budget", "decide",
                   "answered", "blocked", "thrown"},
          over : BOOLEAN, repeat : Nat, model : Models \cup {None},
          cacheable : BOOLEAN, watched : BOOLEAN]
Run == [status : {"none", "running", "killed", "ended"}, steps : Nat,
        cost : Nat, last : {None, "s", "t"}, repeat : Nat]
Entry == [scope : Nat \X Models, prompt : Nat, from : Requests]

TypeOK ==
    /\ deployed \in Deployments
    /\ settings \in [cache : BOOLEAN, governance : BOOLEAN]
    /\ runs \in [Runs -> Run] /\ ledger \in [Runs -> Nat] /\ spent \in Nat
    /\ cache \subseteq Entry
    /\ request \in [Requests -> Request \cup {Unsent}]
    /\ check \in [Requests -> Check]
    /\ ingest \in [Requests -> {"none", "asked", "inserted", "done",
                                "thrown", "torn"}]
    /\ events \in Nat

Known == {q \in Requests : ~At(q, "unsent")}
Excess == {q \in Known : request[q].open \/ request[q].late}
Excused(r) == Cardinality({q \in Excess : request[q].ask.run = r})

(* A run passes its step and cost limits, and a day its hard limit, by no  *)
(* more than the calls the gateway can have under way, besides those it    *)
(* let through unchecked or did not wait for: every limit is read before   *)
(* the call and charged after it (control_plane/app.py precheck, ingest).  *)
CapsHold ==
    /\ \A r \in Runs :
         /\ runs[r].steps <= MaxSteps - 1 + Pool + Excused(r)
         /\ runs[r].cost <= MaxCost - 1 + TopPrice * (Pool + Excused(r))
    /\ spent <= HardLimit - 1 + TopPrice * (Pool + Cardinality(Excess))

(* A request that comes in after its run was killed is not served, neither *)
(* from the cache nor by the provider, unless the gateway could not ask:   *)
(* whoever ends the run, and however stale the totals others write back    *)
(* (control_plane/app.py precheck, kill_run, run_end).                     *)
KillStops ==
    \A q \in Known :
        request[q].doomed /\ ~request[q].open =>
            request[q].point \in {"checking", "blocked", "failed", "refused", "lost"}

(* The totals of a run that the limits are read from are those of its      *)
(* calls rows, except while an ingest stands between its two statements    *)
(* or after one has failed there (control_plane/app.py ingest).            *)
Between(r) == {q \in Known : /\ request[q].ask.run = r
                             /\ ingest[q] \in {"inserted", "torn"}}
LedgerAgrees ==
    \A r \in Runs :
        /\ runs[r].cost <= ledger[r]
        /\ Between(r) = {} => runs[r].cost = ledger[r]

(* A text served from the cache was produced under the same policy and     *)
(* data class by a call that was checked and succeeded, and neither of the *)
(* two was sensitive or risky by the governance in force at its check,     *)
(* whatever was switched, restarted or unreachable in between              *)
(* (gateway/app.py cache_key, process_request).                            *)
Clean(q) == /\ ~request[q].open
            /\ request[q].watched => /\ ~request[q].ask.sensitive
                                     /\ request[q].ask.risk = "low"
CacheSound ==
    \A q \in Known :
        request[q].hit =>
            LET p == request[q].text
            IN  /\ p # None /\ Clean(q) /\ Clean(p)
                /\ request[p].text = p
                /\ request[p].ask.space = request[q].ask.space
===============================================================================
