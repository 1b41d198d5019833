----------------------------- MODULE ConnectorGate -----------------------------
(***************************************************************************)
(* The governed invocation of one connector: status, rate limiter (a token *)
(* bucket and two counting windows), circuit breaker, dispatch, trace.     *)
(* Limiter and breaker live in the memory of the API process; calls run    *)
(* concurrently and their outcomes are recorded in any order, while        *)
(* start, restart, stop, health-check and delete requests change the row   *)
(* and reset both.                                                         *)
(*                                                                         *)
(* Abstracted: payloads, call log and costs; the client that a dispatch    *)
(* talks to (any answer may come at any time); the configuration of the    *)
(* row, whose limit is the same at every configure here.                   *)
(***************************************************************************)
EXTENDS Integers, Sequences

CONSTANTS
    Calls,        \* invocations, one each
    Requests,     \* management requests, one each
    Windows,      \* the counting windows: minute and hour
    Cap,          \* calls a window admits
    Length,       \* ticks a window lasts
    Unit,         \* parts of a token, so that a refill may add less than one
    Burst,        \* tokens of a full bucket
    Rate,         \* parts refilled each tick
    Threshold,    \* failures that open the circuit, 5 in the code
    Reset,        \* ticks an open circuit rests
    HalfOpenMax,  \* 2 in the code
    None,         \* no bucket, no circuit: a model value
    MaxTime,      \* bound: ticks
    MaxRestarts   \* bound: restarts of the API

Kinds == {"start", "restart", "stop", "health", "delete"}

ASSUME GateAssumption ==
    /\ Cap \in [Windows -> Nat \ {0}] /\ Length \in [Windows -> Nat]
    /\ Unit \in Nat \ {0} /\ Burst \in Nat \ {0} /\ Rate \in Nat
    /\ Threshold \in Nat \ {0} /\ Reset \in Nat /\ HalfOpenMax \in Nat
    /\ MaxTime \in Nat /\ MaxRestarts \in Nat

VARIABLES
    row,       \* Connector.status, "GONE" once deleted
    bucket,    \* the limiter's bucket, None after a restart of the API
    circuit,   \* the breaker's circuit, None after a restart of the API
    call,      \* where each invocation is
    request,   \* where each management request is
    now,
    restarts,  \* restarts of the API so far
    sent,      \* history: when the bucket in force let a call pass
    streak,    \* history: failures recorded since a success, or since init
    phase      \* history: of the circuit since it was last closed

vars == <<row, bucket, circuit, call, request, now, restarts, sent, streak,
          phase>>
history == <<sent, streak, phase>>

-----------------------------------------------------------------------------
Points == {"begin", "load", "sent", "trace", "ended"}
Steps  == {"begin", "connecting", "reconnecting", "configure", "deactivate",
           "report", "remove", "ended"}
Statuses == {"PENDING", "ACTIVE", "INACTIVE", "ERROR", "GONE"}

FullBucket == [tokens   |-> Burst * Unit, refilled |-> now,
               used     |-> [w \in Windows |-> 0],
               since    |-> [w \in Windows |-> now]]
FreshCircuit == [state |-> "closed", failures |-> 0, successes |-> 0,
                 openedAt |-> 0, attempts |-> 0]
\* A trip long ago, no success of the half-open state, no call let through in it.
FreshPhase == [trip |-> -Reset, wins |-> 0, probes |-> 0]

AtMost(a, b) == IF a <= b THEN a ELSE b

(* create: the row, the limiter and the breaker of a new connector. *)
Init ==
    /\ now = 0 /\ restarts = 0
    /\ row = "PENDING"
    /\ bucket = FullBucket /\ circuit = FreshCircuit
    /\ call = [c \in Calls |-> "begin"]
    /\ request = [r \in Requests |-> "begin"]
    /\ sent = <<>> /\ streak = 0 /\ phase = FreshPhase

-----------------------------------------------------------------------------
(* RateLimiter. *)
\* Mutant: the time of the last refill is not moved.
RefillSinceEver(b) ==
    [b EXCEPT !.tokens = AtMost(Burst * Unit, @ + (now - b.refilled) * Rate)]

Refill(b) ==
    [b EXCEPT !.tokens   = AtMost(Burst * Unit, @ + (now - b.refilled) * Rate),
              !.refilled = now]

Expired(b, w) == now - b.since[w] > Length[w]

\* What check leaves: refilled, and the windows that are over counted anew.
Checked(b) ==
    [Refill(b) EXCEPT
        !.used  = [w \in Windows |-> IF Expired(b, w) THEN 0 ELSE b.used[w]],
        !.since = [w \in Windows |-> IF Expired(b, w) THEN now ELSE b.since[w]]]

\* Mutant: only the tokens are tested, the windows are counted and not.
AdmitsUncapped(b) == b.tokens >= Unit

Admits(b) == /\ \A w \in Windows : b.used[w] < Cap[w]
             /\ b.tokens >= Unit

Consume(b) == [b EXCEPT !.tokens = @ - Unit,
                        !.used   = [w \in Windows |-> b.used[w] + 1]]

-----------------------------------------------------------------------------
(* CircuitBreaker.  Nothing increments attempts. *)
Rested(c) == now - c.openedAt >= Reset

CanExecute(c) == \/ c.state = "closed"
                 \/ c.state = "open" /\ Rested(c)
                 \/ c.state = "half-open" /\ c.attempts < HalfOpenMax

AfterCanExecute(c) ==
    IF c.state = "open" /\ Rested(c)
    THEN [c EXCEPT !.state = "half-open", !.attempts = 0]
    ELSE c

\* Mutant: the successes that closed the circuit are not forgotten.
AfterSuccessKept(c) ==
    IF c.state # "half-open" THEN [c EXCEPT !.failures = 0]
    ELSE IF c.successes >= 1
         THEN [c EXCEPT !.state = "closed", !.failures = 0, !.successes = @ + 1]
         ELSE [c EXCEPT !.successes = @ + 1]

AfterSuccess(c) ==
    IF c.state # "half-open" THEN [c EXCEPT !.failures = 0]
    ELSE IF c.successes >= 1
         THEN [c EXCEPT !.state = "closed", !.failures = 0, !.successes = 0]
         ELSE [c EXCEPT !.successes = @ + 1]

\* Mutant: a failure half-open keeps the time of the first opening.
AfterFailureOldTime(c) ==
    IF c.state = "half-open" THEN [c EXCEPT !.failures = @ + 1, !.state = "open"]
    ELSE IF c.failures + 1 >= Threshold
    THEN [c EXCEPT !.failures = @ + 1, !.state = "open", !.openedAt = now]
    ELSE [c EXCEPT !.failures = @ + 1]

\* Mutant: one failure more than the threshold.
AfterFailureLate(c) ==
    IF c.state = "half-open" \/ c.failures >= Threshold
    THEN [c EXCEPT !.failures = @ + 1, !.state = "open", !.openedAt = now]
    ELSE [c EXCEPT !.failures = @ + 1]

AfterFailure(c) ==
    IF c.state = "half-open" \/ c.failures + 1 >= Threshold
    THEN [c EXCEPT !.failures = @ + 1, !.state = "open", !.openedAt = now]
    ELSE [c EXCEPT !.failures = @ + 1]

RecordSuccess ==
    IF circuit = None THEN UNCHANGED <<circuit, streak, phase>>
    ELSE /\ circuit' = AfterSuccess(circuit)
         /\ streak' = 0
         /\ phase' = IF circuit.state = "half-open"
                     THEN [phase EXCEPT !.wins = @ + 1] ELSE phase

RecordFailure ==
    IF circuit = None THEN UNCHANGED <<circuit, streak, phase>>
    ELSE /\ circuit' = AfterFailure(circuit)
         /\ streak' = streak + 1
         /\ phase' = IF circuit.state # "open" /\ circuit'.state = "open"
                     THEN [trip |-> now, probes |-> 0,
                           wins |-> IF circuit.state = "closed" THEN 0
                                    ELSE phase.wins]
                     ELSE phase

-----------------------------------------------------------------------------
(* invoke. *)
Goto(c, point) == call' = [call EXCEPT ![c] = point]
Refuse(c)      == Goto(c, "ended")

\* The row is read, and the status tested, before the rest runs.
Load(c) ==
    /\ call[c] = "begin"
    /\ IF row = "ACTIVE" THEN Goto(c, "load") ELSE Refuse(c)
    /\ UNCHANGED <<row, bucket, circuit, request, now, restarts, history>>

\* 429: the limiter's check has refilled and counted anew all the same.
RateLimited(c) ==
    /\ call[c] = "load"
    /\ bucket # None
    /\ ~Admits(Checked(bucket))
    /\ bucket' = Checked(bucket)
    /\ Refuse(c)
    /\ UNCHANGED <<row, circuit, request, now, restarts, history>>

Passes == bucket # None => Admits(Checked(bucket))

\* 503: the circuit is open; nothing is consumed.
CircuitOpen(c) ==
    /\ call[c] = "load"
    /\ Passes
    /\ circuit # None
    /\ ~CanExecute(circuit)
    /\ bucket' = IF bucket = None THEN None ELSE Checked(bucket)
    /\ Refuse(c)
    /\ UNCHANGED <<row, circuit, request, now, restarts, history>>

\* Both gates and consume run in one turn of the event loop.
Dispatch(c) ==
    /\ call[c] = "load"
    /\ Passes
    /\ circuit # None => CanExecute(circuit)
    /\ IF bucket = None
       THEN UNCHANGED <<bucket, sent>>
       ELSE /\ bucket' = Consume(Checked(bucket))
            /\ sent' = Append(sent, now)
    /\ IF circuit = None
       THEN UNCHANGED <<circuit, phase>>
       ELSE /\ circuit' = AfterCanExecute(circuit)
            /\ phase' = IF circuit'.state = "half-open"
                        THEN [phase EXCEPT !.probes = @ + 1] ELSE phase
    /\ Goto(c, "sent")
    /\ UNCHANGED <<row, request, now, restarts, streak>>

\* The trace reads the limiter's statistics, which refills the bucket.
Traced == bucket' = IF bucket = None THEN None ELSE Refill(bucket)

AnswersWell(c) ==
    /\ call[c] = "sent"
    /\ RecordSuccess
    /\ Traced
    /\ Goto(c, "trace")
    /\ UNCHANGED <<row, request, now, restarts, sent>>

AnswersBadly(c) ==
    /\ call[c] = "sent"
    /\ RecordFailure
    /\ Traced
    /\ Goto(c, "trace")
    /\ UNCHANGED <<row, request, now, restarts, sent>>

\* The configuration cannot be decrypted, so dispatch itself throws.
DispatchThrows(c) ==
    /\ call[c] = "sent"
    /\ RecordFailure
    /\ Goto(c, "ended")
    /\ UNCHANGED <<row, bucket, request, now, restarts, sent>>

TraceStored(c) ==
    /\ call[c] = "trace"
    /\ Goto(c, "ended")
    /\ UNCHANGED <<row, bucket, circuit, request, now, restarts, history>>

\* The catch block records a failure beside the outcome recorded before.
TraceFails(c) ==
    /\ call[c] = "trace"
    /\ RecordFailure
    /\ Goto(c, "ended")
    /\ UNCHANGED <<row, bucket, request, now, restarts, sent>>

-----------------------------------------------------------------------------
(* Management requests: what each read is used after the next await. *)
Step(r, step) == request' = [request EXCEPT ![r] = step]
Others == <<call, now, restarts>>
InMemory == <<bucket, circuit, history>>

\* lifecycle.stop of a stop or delete runs with the read.
Ask(r, kind) ==
    /\ request[r] = "begin"
    /\ row # "GONE"
    /\ Step(r, CASE kind = "start"   -> "connecting"
                 [] kind = "restart" -> "reconnecting"
                 [] kind = "stop"    -> "deactivate"
                 [] kind = "health"  -> "report"
                 [] kind = "delete"  -> "remove")
    /\ UNCHANGED <<row, InMemory, Others>>

NotFound(r) ==
    /\ request[r] = "begin"
    /\ row = "GONE"
    /\ Step(r, "ended")
    /\ UNCHANGED <<row, InMemory, Others>>

\* An update of a row that is gone throws and changes nothing.
SetStatus(status) == row' = IF row = "GONE" THEN row ELSE status

StartActivates(r) ==
    /\ request[r] = "connecting"
    /\ SetStatus("ACTIVE")
    /\ Step(r, IF row = "GONE" THEN "ended" ELSE "configure")
    /\ UNCHANGED <<InMemory, Others>>

StartConfigures(r) ==
    /\ request[r] = "configure"
    /\ bucket' = FullBucket /\ sent' = <<>>
    /\ circuit' = FreshCircuit /\ streak' = 0 /\ phase' = FreshPhase
    /\ Step(r, "ended")
    /\ UNCHANGED <<row, Others>>

\* restartConnector leaves the limiter and the breaker as they are.
RestartActivates(r) ==
    /\ request[r] = "reconnecting"
    /\ SetStatus("ACTIVE")
    /\ Step(r, "ended")
    /\ UNCHANGED <<InMemory, Others>>

ConnectFails(r) ==
    /\ request[r] \in {"connecting", "reconnecting"}
    /\ SetStatus("ERROR")
    /\ Step(r, "ended")
    /\ UNCHANGED <<InMemory, Others>>

Deactivate(r) ==
    /\ request[r] = "deactivate"
    /\ SetStatus("INACTIVE")
    /\ Step(r, "ended")
    /\ UNCHANGED <<InMemory, Others>>

Report(r) ==
    /\ request[r] = "report"
    /\ \E status \in {"ACTIVE", "ERROR"} : SetStatus(status)
    /\ Step(r, "ended")
    /\ UNCHANGED <<InMemory, Others>>

\* The bucket and the circuit of a deleted connector stay in their maps.
Remove(r) ==
    /\ request[r] = "remove"
    /\ row' = "GONE"
    /\ Step(r, "ended")
    /\ UNCHANGED <<InMemory, Others>>

-----------------------------------------------------------------------------
Tick ==
    /\ now < MaxTime
    /\ now' = now + 1
    /\ UNCHANGED <<row, InMemory, call, request, restarts>>

(* The API restarts: the calls and requests under way are lost, and with   *)
(* them the limiter and the breaker; nothing configures them at startup.   *)
ApiRestarts ==
    /\ restarts < MaxRestarts
    /\ restarts' = restarts + 1
    /\ bucket' = None /\ sent' = <<>>
    /\ circuit' = None /\ streak' = 0 /\ phase' = FreshPhase
    /\ call' = [c \in Calls |-> IF call[c] = "begin" THEN "begin" ELSE "ended"]
    /\ request' = [r \in Requests |->
                     IF request[r] = "begin" THEN "begin" ELSE "ended"]
    /\ UNCHANGED <<row, now>>

Invoke(c) == \/ Load(c) \/ RateLimited(c) \/ CircuitOpen(c) \/ Dispatch(c)
             \/ AnswersWell(c) \/ AnswersBadly(c) \/ DispatchThrows(c)
             \/ TraceStored(c) \/ TraceFails(c)

Manage(r) == \/ \E kind \in Kinds : Ask(r, kind)
             \/ NotFound(r) \/ StartActivates(r) \/ StartConfigures(r)
             \/ RestartActivates(r) \/ ConnectFails(r) \/ Deactivate(r)
             \/ Report(r) \/ Remove(r)

Next == \/ \E c \in Calls : Invoke(c)
        \/ \E r \in Requests : Manage(r)
        \/ Tick
        \/ ApiRestarts

Spec == Init /\ [][Next]_vars

-----------------------------------------------------------------------------
(* Type invariant of the row, the limiter, the breaker and the calls.      *)
Bucket == [tokens : 0 .. Burst * Unit, refilled : Nat,
           used : [Windows -> Nat], since : [Windows -> Nat]]
Circuit == [state : {"closed", "open", "half-open"}, failures : Nat,
            successes : 0 .. 1, openedAt : Nat, attempts : Nat]
Phase == [trip : Int, wins : Nat, probes : Nat]

TypeOK ==
    /\ row \in Statuses
    /\ bucket \in Bucket \cup {None} /\ circuit \in Circuit \cup {None}
    /\ call \in [Calls -> Points] /\ request \in [Requests -> Steps]
    /\ now \in Nat /\ restarts \in Nat
    /\ sent \in Seq(Nat) /\ streak \in Nat /\ phase \in Phase

(* Between any two calls that the bucket in force let pass lie no more     *)
(* calls than a full bucket and the tokens refilled in between, however    *)
(* often check, the statistics and refused calls refilled it before        *)
(* (connector-runtime.ts RateLimiter.check, consume, _refill).             *)
BurstBound ==
    \A i, j \in 1 .. Len(sent) :
        i <= j => (j - i + 1) * Unit <= Burst * Unit + (sent[j] - sent[i]) * Rate

(* Of the calls the bucket let pass, no more than the cap fall into the    *)
(* window that runs: the call a cap's worth back is older than its start,  *)
(* although check counts windows anew lazily and refused calls do it too   *)
(* (connector-runtime.ts RateLimiter.check, consume).                      *)
WindowBound ==
    bucket # None =>
        \A w \in Windows : \A i \in 1 .. Len(sent) :
            i + Cap[w] <= Len(sent) => sent[i] < bucket.since[w]

(* As many failures in a row as the threshold leave the circuit not        *)
(* closed, in whatever order the outcomes of overlapping calls, of calls   *)
(* from before it opened and of traces that failed are recorded            *)
(* (CircuitBreaker.recordFailure, recordSuccess).                          *)
StreakOpens ==
    circuit # None /\ streak >= Threshold => circuit.state # "closed"

Started == \E r \in Requests : request[r] = "configure" /\ request'[r] = "ended"
Closes  == /\ circuit # None /\ circuit.state # "closed"
           /\ circuit' # None /\ circuit'.state = "closed"
Earns   == Closes => Started \/ (phase'.wins >= 2 /\ now - phase.trip >= Reset)

(* A circuit closes again, other than by a start of the connector, no      *)
(* sooner than the reset time after it last opened, and only after two     *)
(* successes recorded half-open since it was last closed.                  *)
CloseEarned == [][Earns]_vars

(* Claim of canExecute ("Half-open attempts exhausted"): a half-open       *)
(* circuit lets halfOpenMax calls through and no more.                     *)
HalfOpenLimited == phase.probes <= HalfOpenMax
===============================================================================
