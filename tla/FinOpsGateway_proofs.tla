------------------------- MODULE FinOpsGateway_proofs -------------------------
(***************************************************************************)
(* FinOpsGateway: limits are passed by a bounded number of calls, a killed *)
(* run is not served and the cache gives out nothing it must not, for any  *)
(* number of requests, threads, failures and restarts and any limits.      *)
(*                                                                         *)
(* A limit is read by a call and charged by the same call much later. The  *)
(* strengthening therefore counts the calls in between as charged already: *)
(* a total and the calls in flight towards it stay below the limit and     *)
(* what the threads of the gateway, and the calls it excused, can add.     *)
(*                                                                         *)
(* The totals against the calls rows: the costs of the reports between     *)
(* their two statements are an additive function on sets of requests.      *)
(***************************************************************************)
EXTENDS FinOpsGateway, FiniteSetTheorems, TLAPS

\* Where a request can be in the gateway, the precheck and the ingest at once.
Stage(q) ==
    /\ At(q, "unsent") => check[q] = NoCheck /\ ingest[q] = "none"
    /\ At(q, "checking") =>
         /\ ingest[q] = "none" /\ ~request[q].open /\ ~request[q].late
         /\ ~request[q].hit /\ ~request[q].cacheable /\ request[q].text = None
    /\ request[q].point \in {"lookup", "calling"} =>
         ingest[q] = "none" /\ ~request[q].hit /\ request[q].text = None
    /\ ingest[q] \in {"asked", "inserted"} => At(q, "reporting") \/ request[q].late
    /\ check[q].point \in {"budget", "decide", "answered"} => ~check[q].over
    /\ check[q].point = "answered" => check[q].model \in Models
    /\ At(q, "storing") => ~request[q].hit /\ request[q].text = q
    /\ q \in Known => request[q].hit \/ request[q].text \in {None, q}

\* A request of a killed run gets nowhere.
Stopped(q) ==
    q \in Known /\ request[q].doomed =>
        /\ runs[request[q].ask.run].status = "killed"
        /\ check[q].point \in {"none", "asked", "blocked", "thrown"}
        /\ request[q].open \/ request[q].point \in
             {"checking", "blocked", "failed", "refused", "lost"}

\* A text that may be given out, to requests of one policy and data class.
Sound(p, space) == /\ p \in Known /\ At(p, "served")
                   /\ request[p].text = p /\ Clean(p)
                   /\ request[p].ask.space = space
Cached == \A e \in cache : Sound(e.from, e.scope[1])
Judged(q) ==
    /\ q \in Known /\ check[q].point = "answered" /\ check[q].cacheable =>
         (check[q].watched => ~request[q].ask.sensitive /\ request[q].ask.risk = "low")
    /\ q \in Known /\ request[q].cacheable => Clean(q)
    /\ q \in Known /\ request[q].hit =>
         request[q].cacheable /\ Sound(request[q].text, request[q].ask.space)

\* The calls that have passed the limits of their run, or the budget, and
\* are still to be charged.
Towards(q) == \/ ingest[q] \in {"asked", "inserted"}
              \/ request[q].point \in {"lookup", "calling"}
              \/ /\ At(q, "checking") /\ ~check[q].over
                 /\ check[q].point \in {"loop", "budget", "decide", "answered"}
Spending(q) == \/ ingest[q] = "asked"
               \/ request[q].point \in {"lookup", "calling"}
               \/ At(q, "checking") /\ check[q].point \in {"decide", "answered"}
Flight(r) == {q \in Known : request[q].ask.run = r /\ Towards(q)}
Extra(r)  == {q \in Excess : request[q].ask.run = r}
Spenders  == {q \in Known : Spending(q)}

Covered(total, limit, unit, flight, extra) ==
    total + unit * Cardinality(flight)
        <= limit - 1 + unit * (Pool + Cardinality(extra))

RunCovered(r) == /\ Covered(runs[r].steps, MaxSteps, 1, Flight(r), Extra(r))
                 /\ Covered(runs[r].cost, MaxCost, TopPrice, Flight(r), Extra(r))
DayCovered == Covered(spent, HardLimit, TopPrice, Spenders, Excess)

Staged == \A q \in Requests : Stage(q)
Metered == /\ Cardinality(Live) <= Pool
           /\ \A r \in Runs : RunCovered(r)
           /\ DayCovered

IInv == /\ TypeOK /\ Staged /\ Metered
        /\ \A q \in Requests : Stopped(q)
        /\ Cached /\ \A q \in Requests : Judged(q)

-----------------------------------------------------------------------------
(* Counting. *)
LEMMA CoveredStays ==
    ASSUME NEW total \in Nat, NEW limit \in Nat, NEW unit \in Nat,
           NEW A, NEW B, NEW X, NEW Y, IsFiniteSet(A), IsFiniteSet(Y),
           B \subseteq A, X \subseteq Y, Covered(total, limit, unit, A, X)
    PROVE  Covered(total, limit, unit, B, Y)
<1>1. /\ Cardinality(B) <= Cardinality(A) /\ Cardinality(X) <= Cardinality(Y)
      /\ IsFiniteSet(B) /\ IsFiniteSet(X)
  BY FS_Subset
<1>2. /\ Cardinality(A) \in Nat /\ Cardinality(B) \in Nat
      /\ Cardinality(X) \in Nat /\ Cardinality(Y) \in Nat
  BY <1>1, FS_CardinalityType
<1>3. \A a, b \in Nat : b <= a => unit * b <= unit * a
  OBVIOUS
<1>4. Pool \in Nat
  BY FinOpsAssumption DEF FinOpsAssumption
<1>5. unit * Cardinality(B) <= unit * Cardinality(A)
  BY <1>1, <1>2, <1>3
<1>6. unit * (Pool + Cardinality(X)) <= unit * (Pool + Cardinality(Y))
  BY <1>1, <1>2, <1>3, <1>4
<1> DEFINE ua == unit * Cardinality(A)
           ub == unit * Cardinality(B)
           ux == unit * (Pool + Cardinality(X))
           uy == unit * (Pool + Cardinality(Y))
<1>7. ua \in Nat /\ ub \in Nat /\ ux \in Nat /\ uy \in Nat
  BY <1>2, <1>4
<1>8. total + ua <= limit - 1 + ux
  BY DEF Covered
<1> HIDE DEF ua, ub, ux, uy
<1>9. total + ub <= limit - 1 + uy
  BY <1>5, <1>6, <1>7, <1>8 DEF ua, ub, ux, uy
<1> QED BY <1>9 DEF Covered, ub, uy

\* One more call in flight, and it is excused.
LEMMA CoveredExcuses ==
    ASSUME NEW total \in Nat, NEW limit \in Nat, NEW unit \in Nat, NEW q,
           NEW A, NEW B, NEW X, NEW Y, IsFiniteSet(A), IsFiniteSet(X),
           B \subseteq A \cup {q}, Y = X \cup {q}, q \notin X,
           Covered(total, limit, unit, A, X)
    PROVE  Covered(total, limit, unit, B, Y)
<1>1. /\ IsFiniteSet(A \cup {q})
      /\ Cardinality(A \cup {q}) <= Cardinality(A) + 1
      /\ IsFiniteSet(Y) /\ Cardinality(Y) = Cardinality(X) + 1
      /\ Cardinality(A) \in Nat /\ Cardinality(X) \in Nat
  <2>1. Cardinality(A) \in Nat /\ Cardinality(X) \in Nat
    BY FS_CardinalityType
  <2>2. IsFiniteSet(A \cup {q}) /\ Cardinality(A \cup {q}) <= Cardinality(A) + 1
    <3>1. /\ IsFiniteSet(A \cup {q})
          /\ Cardinality(A \cup {q}) = IF q \in A THEN Cardinality(A)
                                       ELSE Cardinality(A) + 1
      BY FS_AddElement, Zenon
    <3> QED BY <2>1, <3>1
  <2>3. IsFiniteSet(Y) /\ Cardinality(Y) = Cardinality(X) + 1
    BY <2>1, FS_AddElement
  <2> QED BY <2>1, <2>2, <2>3
<1>2. /\ IsFiniteSet(B) /\ Cardinality(B) \in Nat
      /\ Cardinality(B) <= Cardinality(A) + 1
  <2>1. /\ IsFiniteSet(B) /\ Cardinality(B) <= Cardinality(A \cup {q})
        /\ Cardinality(A \cup {q}) \in Nat
    BY <1>1, FS_Subset, FS_CardinalityType
  <2>2. Cardinality(B) \in Nat
    BY <2>1, FS_CardinalityType
  <2> QED BY <1>1, <2>1, <2>2
<1>3. Pool \in Nat
  BY FinOpsAssumption DEF FinOpsAssumption
<1>4. unit * Cardinality(B) <= unit * Cardinality(A) + unit
  <2>1. \A a, b \in Nat : b <= a + 1 => unit * b <= unit * a + unit
    OBVIOUS
  <2> QED BY <1>1, <1>2, <2>1
<1>5. unit * (Pool + Cardinality(Y)) = unit * (Pool + Cardinality(X)) + unit
  <2>1. \A a \in Nat : unit * (a + 1) = unit * a + unit
    OBVIOUS
  <2>2. Pool + Cardinality(Y) = (Pool + Cardinality(X)) + 1
    BY <1>1, <1>3
  <2> QED BY <1>1, <1>3, <2>1, <2>2
<1> DEFINE ua == unit * Cardinality(A)
           ub == unit * Cardinality(B)
           ux == unit * (Pool + Cardinality(X))
           uy == unit * (Pool + Cardinality(Y))
<1>6. ua \in Nat /\ ub \in Nat /\ ux \in Nat /\ uy \in Nat
  BY <1>1, <1>2, <1>3
<1>7. total + ua <= limit - 1 + ux
  BY DEF Covered
<1> HIDE DEF ua, ub, ux, uy
<1>8. total + ub <= limit - 1 + uy
  BY <1>4, <1>5, <1>6, <1>7 DEF ua, ub, ux, uy
<1> QED BY <1>8 DEF Covered, ub, uy

\* A call in flight is charged no more than it was counted for.
LEMMA CoveredPays ==
    ASSUME NEW total \in Nat, NEW limit \in Nat, NEW unit \in Nat,
           NEW paid \in 0 .. unit, NEW q, NEW A, NEW X,
           IsFiniteSet(A), IsFiniteSet(X), q \in A,
           Covered(total, limit, unit, A, X)
    PROVE  Covered(total + paid, limit, unit, A \ {q}, X)
<1>1. /\ Cardinality(A \ {q}) = Cardinality(A) - 1
      /\ Cardinality(A) \in Nat /\ Cardinality(X) \in Nat
      /\ IsFiniteSet(A \ {q}) /\ Cardinality(A \ {q}) \in Nat
  BY FS_RemoveElement, FS_CardinalityType
<1>2. Pool \in Nat
  BY FinOpsAssumption DEF FinOpsAssumption
<1>3. unit * Cardinality(A) = unit * Cardinality(A \ {q}) + unit
  <2>1. \A a \in Nat : unit * (a + 1) = unit * a + unit
    OBVIOUS
  <2>2. Cardinality(A) = Cardinality(A \ {q}) + 1
    BY <1>1
  <2> QED BY <1>1, <2>1, <2>2
<1> DEFINE ua == unit * Cardinality(A)
           ub == unit * Cardinality(A \ {q})
           ux == unit * (Pool + Cardinality(X))
<1>4. ua \in Nat /\ ub \in Nat /\ ux \in Nat
  BY <1>1, <1>2
<1>5. total + ua <= limit - 1 + ux
  BY DEF Covered
<1> HIDE DEF ua, ub, ux
<1>6. (total + paid) + ub <= limit - 1 + ux
  BY <1>3, <1>4, <1>5 DEF ua, ub, ux
<1> QED BY <1>6 DEF Covered, ub, ux

\* What is in flight when a total is read below its limit.
LEMMA CoveredRead ==
    ASSUME NEW total \in Nat, NEW limit \in Nat, NEW unit \in Nat, total < limit,
           NEW B, NEW L, NEW X, IsFiniteSet(L), IsFiniteSet(X),
           Cardinality(L) <= Pool, B \subseteq L \cup X
    PROVE  Covered(total, limit, unit, B, X)
<1>1. /\ Cardinality(L) \in Nat /\ Cardinality(X) \in Nat
      /\ IsFiniteSet(L \cup X)
      /\ Cardinality(L \cup X) <= Cardinality(L) + Cardinality(X)
  <2>1. /\ IsFiniteSet(L \cup X) /\ IsFiniteSet(L \cap X)
        /\ Cardinality(L \cup X) = Cardinality(L) + Cardinality(X) - Cardinality(L \cap X)
    BY FS_Union, FS_Intersection
  <2>2. /\ Cardinality(L \cap X) \in Nat
        /\ Cardinality(L) \in Nat /\ Cardinality(X) \in Nat
    BY <2>1, FS_CardinalityType
  <2> QED BY <2>1, <2>2
<1>2. /\ Cardinality(B) \in Nat /\ Cardinality(B) <= Pool + Cardinality(X)
      /\ Pool \in Nat
  <2>1. IsFiniteSet(B) /\ Cardinality(B) <= Cardinality(L \cup X)
    BY <1>1, FS_Subset
  <2>2. Cardinality(B) \in Nat /\ Cardinality(L \cup X) \in Nat /\ Pool \in Nat
    BY <1>1, <2>1, FS_CardinalityType, FinOpsAssumption DEF FinOpsAssumption
  <2> QED BY <1>1, <2>1, <2>2
<1>3. unit * Cardinality(B) <= unit * (Pool + Cardinality(X))
  <2>1. \A a, b \in Nat : b <= a => unit * b <= unit * a
    OBVIOUS
  <2> QED BY <1>1, <1>2, <2>1
<1> DEFINE ub == unit * Cardinality(B)
           ux == unit * (Pool + Cardinality(X))
<1>4. ub \in Nat /\ ux \in Nat
  BY <1>1, <1>2
<1> HIDE DEF ub, ux
<1>5. total + ub <= limit - 1 + ux
  BY <1>3, <1>4 DEF ub, ux
<1> QED BY <1>5 DEF Covered, ub, ux

\* A smaller total is covered by what covers a larger one.
LEMMA CoveredLess ==
    ASSUME NEW total \in Nat, NEW less \in Nat, less <= total, NEW limit \in Nat,
           NEW unit \in Nat, NEW A, NEW X, IsFiniteSet(A), IsFiniteSet(X),
           Covered(total, limit, unit, A, X)
    PROVE  Covered(less, limit, unit, A, X)
<1>1. Cardinality(A) \in Nat /\ Cardinality(X) \in Nat /\ Pool \in Nat
  BY FS_CardinalityType, FinOpsAssumption DEF FinOpsAssumption
<1> DEFINE ua == unit * Cardinality(A)
           ux == unit * (Pool + Cardinality(X))
<1>2. ua \in Nat /\ ux \in Nat /\ total + ua <= limit - 1 + ux
  BY <1>1 DEF Covered
<1> HIDE DEF ua, ux
<1>3. less + ua <= limit - 1 + ux
  BY <1>2
<1> QED BY <1>3 DEF Covered, ua, ux

LEMMA CoveredHolds ==
    ASSUME NEW total \in Nat, NEW limit \in Nat, NEW unit \in Nat,
           NEW A, NEW X, IsFiniteSet(A), IsFiniteSet(X),
           Covered(total, limit, unit, A, X)
    PROVE  total <= limit - 1 + unit * (Pool + Cardinality(X))
<1>1. Cardinality(A) \in Nat /\ Cardinality(X) \in Nat /\ Pool \in Nat
  BY FS_CardinalityType, FinOpsAssumption DEF FinOpsAssumption
<1> DEFINE ua == unit * Cardinality(A)
           ux == unit * (Pool + Cardinality(X))
<1>2. ua \in Nat /\ ux \in Nat
  BY <1>1
<1>3. total + ua <= limit - 1 + ux
  BY DEF Covered
<1> HIDE DEF ua, ux
<1>4. total <= limit - 1 + ux
  BY <1>2, <1>3
<1> QED BY <1>4 DEF ux

-----------------------------------------------------------------------------
(* Types. *)
LEMMA KnownTyped ==
    ASSUME TypeOK, NEW q \in Requests, ~At(q, "unsent")
    PROVE  q \in Known /\ request[q] \in Request
BY DEF TypeOK, At, Known, Unsent

LEMMA AskTyped ==
    ASSUME NEW a \in Asks
    PROVE  a \in Ask
BY FinOpsAssumption DEF FinOpsAssumption

LEMMA Moved ==
    ASSUME TypeOK, NEW q \in Requests, NEW rec \in Request,
           request' = [request EXCEPT ![q] = rec]
    PROVE  /\ request' \in [Requests -> Request \cup {Unsent}]
           /\ request'[q] = rec
           /\ \A o \in Requests : o # q => request'[o] = request[o]
BY DEF TypeOK

LEMMA Answered ==
    ASSUME TypeOK, NEW q \in Requests, NEW rec \in Check,
           check' = [check EXCEPT ![q] = rec]
    PROVE  /\ check' \in [Requests -> Check]
           /\ check'[q] = rec
           /\ \A o \in Requests : o # q => check'[o] = check[o]
BY DEF TypeOK

LEMMA Went ==
    ASSUME TypeOK, NEW q \in Requests, request[q] \in Request, NEW p \in Points, Go(q, p)
    PROVE  /\ request' \in [Requests -> Request \cup {Unsent}]
           /\ request'[q] = [request[q] EXCEPT !.point = p]
           /\ request'[q] \in Request
           /\ \A o \in Requests : o # q => request'[o] = request[o]
<1> DEFINE rec == [request[q] EXCEPT !.point = p]
<1>1. rec \in Request
  BY DEF Request
<1>2. request' = [request EXCEPT ![q] = rec]
  BY DEF Go, TypeOK
<1> HIDE DEF rec
<1>3. request'[q] = rec /\ request' \in [Requests -> Request \cup {Unsent}]
      /\ \A o \in Requests : o # q => request'[o] = request[o]
  BY <1>1, <1>2, Moved
<1> QED BY <1>1, <1>3 DEF rec

LEMMA Checked ==
    ASSUME TypeOK, NEW q \in Requests, NEW p,
           p \in {"none", "asked", "loop", "kill", "budget", "decide",
                 "answered", "blocked", "thrown"}, Checks(q, p)
    PROVE  /\ check' \in [Requests -> Check]
           /\ check'[q] = [check[q] EXCEPT !.point = p]
           /\ \A o \in Requests : o # q => check'[o] = check[o]
<1> DEFINE rec == [check[q] EXCEPT !.point = p]
<1>1. rec \in Check
  BY DEF Check, TypeOK
<1>2. check' = [check EXCEPT ![q] = rec]
  BY DEF Checks, TypeOK
<1> HIDE DEF rec
<1>3. check'[q] = rec /\ check' \in [Requests -> Check]
      /\ \A o \in Requests : o # q => check'[o] = check[o]
  BY <1>1, <1>2, Answered
<1> QED BY <1>1, <1>3 DEF rec

-----------------------------------------------------------------------------
(* A step of one request leaves the others alone. *)
Same(o) == request'[o] = request[o] /\ check'[o] = check[o] /\ ingest'[o] = ingest[o]
Alters(q) == \A o \in Requests : o # q => Same(o)
KillsStand == \A r \in Runs : runs[r].status = "killed" => runs'[r].status = "killed"

LEMMA StagedOne ==
    ASSUME Staged, NEW q \in Requests, Alters(q), Stage(q)'
    PROVE  Staged'
<1>1. ASSUME NEW o \in Requests, o # q PROVE Stage(o)'
  <2>1. Stage(o) /\ Same(o)
    BY <1>1 DEF Staged, Alters
  <2> QED BY <2>1, <1>1 DEF Stage, Same, At, Known
<1> QED BY <1>1 DEF Staged

LEMMA StoppedOne ==
    ASSUME TypeOK, NEW q \in Requests, \A o \in Requests : Stopped(o),
           Alters(q), KillsStand, Stopped(q)'
    PROVE  \A o \in Requests : Stopped(o)'
<1>1. ASSUME NEW o \in Requests, o # q, o \in Known', request'[o].doomed
      PROVE  Stopped(o)'
  <2>1. Same(o) /\ o \in Known
    BY <1>1 DEF Alters, Same, Known, At
  <2>2. request[o] \in Request
    BY <2>1, KnownTyped DEF Known
  <2>3. request[o].ask.run \in Runs
    BY <2>2, AskTyped DEF Request, Ask
  <2>4. /\ runs[request[o].ask.run].status = "killed"
        /\ check[o].point \in {"none", "asked", "blocked", "thrown"}
        /\ request[o].open \/ request[o].point \in
             {"checking", "blocked", "failed", "refused", "lost"}
    BY <1>1, <2>1 DEF Stopped, Same
  <2>5. runs'[request[o].ask.run].status = "killed"
    BY <2>3, <2>4 DEF KillsStand
  <2> QED BY <2>1, <2>4, <2>5 DEF Stopped, Same
<1>2. ASSUME NEW o \in Requests, o # q, ~(o \in Known' /\ request'[o].doomed)
      PROVE  Stopped(o)'
  BY <1>2 DEF Stopped
<1> QED BY <1>1, <1>2

\* An unanswered precheck excuses a request of a killed run.
LEMMA StoppedOpen ==
    ASSUME NEW q, q \in Known, Stopped(q), runs' = runs, check' = check,
           request'[q].ask = request[q].ask, request'[q].doomed = request[q].doomed,
           request[q].doomed => request'[q].open
    PROVE  Stopped(q)'
<1>1. SUFFICES ASSUME request[q].doomed PROVE Stopped(q)'
  BY DEF Stopped
<1>2. /\ runs[request[q].ask.run].status = "killed"
      /\ check[q].point \in {"none", "asked", "blocked", "thrown"}
  BY <1>1 DEF Stopped
<1> QED BY <1>1, <1>2 DEF Stopped

LEMMA CleanSame ==
    ASSUME NEW p, request'[p] = request[p]
    PROVE  Clean(p) => Clean(p)'
BY DEF Clean

\* What has been served does not change any more.
Settled(q) == At(q, "served") => request'[q] = request[q]

LEMMA SoundStays ==
    ASSUME NEW q, Settled(q), Alters(q), NEW p, NEW space, Sound(p, space)
    PROVE  Sound(p, space)'
<1>1. At(p, "served") /\ p \in Requests
  BY DEF Sound, Known
<1>2. request'[p] = request[p]
  BY <1>1 DEF Alters, Same, Settled
<1>3. Clean(p)'
  BY <1>2, CleanSame DEF Sound
<1> QED BY <1>2, <1>3 DEF Sound, Known, At

LEMMA JudgedOne ==
    ASSUME NEW q \in Requests, Settled(q), Alters(q),
           \A o \in Requests : Judged(o), Judged(q)'
    PROVE  \A o \in Requests : Judged(o)'
<1>1. ASSUME NEW o \in Requests, o # q PROVE Judged(o)'
  <2>1. Judged(o) /\ Same(o)
    BY <1>1 DEF Alters
  <2>2. o \in Known' => o \in Known
    BY <2>1 DEF Same, Known, At
  <2>3. o \in Known' /\ check'[o].point = "answered" /\ check'[o].cacheable =>
          (check'[o].watched => ~request'[o].ask.sensitive /\ request'[o].ask.risk = "low")
    BY <2>1, <2>2 DEF Judged, Same
  <2>4. o \in Known' /\ request'[o].cacheable => Clean(o)'
    BY <2>1, <2>2, CleanSame DEF Judged, Same
  <2>5. ASSUME o \in Known', request'[o].hit
        PROVE  request'[o].cacheable /\ Sound(request[o].text, request[o].ask.space)'
    <3>1. request[o].cacheable /\ Sound(request[o].text, request[o].ask.space)
      BY <2>1, <2>2, <2>5 DEF Judged, Same
    <3>2. PICK p, space : p = request[o].text /\ space = request[o].ask.space
      OBVIOUS
    <3>3. Sound(p, space)'
      BY <3>1, <3>2, SoundStays
    <3>4. request'[o].cacheable /\ request'[o].text = p /\ request'[o].ask.space = space
      BY <2>1, <3>1, <3>2 DEF Same
    <3> QED BY <3>3, <3>4 DEF Sound
  <2> QED BY <2>3, <2>4, <2>5 DEF Judged, Clean
<1> QED BY <1>1

LEMMA CachedOne ==
    ASSUME NEW q, Settled(q), Alters(q), Cached, cache' \subseteq cache
    PROVE  Cached'
BY SoundStays DEF Cached

-----------------------------------------------------------------------------
(* The totals and what is in flight towards them. *)
Keeps(q) == /\ q \in Known => q \in Known' /\ request'[q].ask = request[q].ask
            /\ q \in Excess => q \in Excess'
NotTowards(q)  == q \in Known' /\ Towards(q)' => q \in Known /\ Towards(q)
NotSpending(q) == q \in Known' /\ Spending(q)' => q \in Known /\ Spending(q)
TotalsStay == \A r \in Runs : /\ runs'[r].steps <= runs[r].steps
                              /\ runs'[r].cost <= runs[r].cost

LEMMA SameKeeps ==
    ASSUME NEW o \in Requests, Same(o)
    PROVE  /\ Keeps(o) /\ (o \in Known' => o \in Known)
           /\ Towards(o)' => Towards(o)
           /\ Spending(o)' => Spending(o)
BY DEF Same, Keeps, Known, At, Excess, Towards, Spending

LEMMA FiniteFlights ==
    /\ IsFiniteSet(Live) /\ IsFiniteSet(Excess) /\ IsFiniteSet(Spenders)
    /\ \A r : IsFiniteSet(Flight(r)) /\ IsFiniteSet(Extra(r))
<1>1. IsFiniteSet(Requests)
  BY FinOpsAssumption DEF FinOpsAssumption
<1>2. Live \subseteq Requests /\ Excess \subseteq Requests /\ Spenders \subseteq Requests
  BY DEF Live, Excess, Spenders, Known
<1>3. \A r : Flight(r) \subseteq Requests /\ Extra(r) \subseteq Requests
  BY DEF Flight, Extra, Excess, Known
<1> QED BY <1>1, <1>2, <1>3, FS_Subset

LEMMA FiniteFlightsNext ==
    /\ IsFiniteSet(Live') /\ IsFiniteSet(Excess') /\ IsFiniteSet(Spenders')
    /\ \A r : IsFiniteSet(Flight(r)') /\ IsFiniteSet(Extra(r)')
<1>1. IsFiniteSet(Requests)
  BY FinOpsAssumption DEF FinOpsAssumption
<1>2. Live' \subseteq Requests /\ Excess' \subseteq Requests /\ Spenders' \subseteq Requests
  BY DEF Live, Excess, Spenders, Known
<1>3. \A r : Flight(r)' \subseteq Requests /\ Extra(r)' \subseteq Requests
  BY DEF Flight, Extra, Excess, Known
<1> QED BY <1>1, <1>2, <1>3, FS_Subset

LEMMA Numbers ==
    ASSUME TypeOK, NEW r \in Runs
    PROVE  /\ runs[r].steps \in Nat /\ runs[r].cost \in Nat /\ spent \in Nat
           /\ TopPrice \in Nat /\ MaxSteps \in Nat /\ MaxCost \in Nat
           /\ HardLimit \in Nat /\ 1 \in Nat
BY FinOpsAssumption DEF FinOpsAssumption, TypeOK, Run

LEMMA LiveStays ==
    ASSUME Cardinality(Live) <= Pool, Live' \subseteq Live
    PROVE  Cardinality(Live') <= Pool
<1>1. Cardinality(Live') <= Cardinality(Live)
  BY FiniteFlights, FS_Subset
<1>2. Cardinality(Live') \in Nat /\ Cardinality(Live) \in Nat /\ Pool \in Nat
  BY FiniteFlights, FiniteFlightsNext, FS_CardinalityType, FinOpsAssumption
  DEF FinOpsAssumption
<1> QED BY <1>1, <1>2

\* No call takes off, no excuse is forgotten: the runs stay covered.
LEMMA RunStays ==
    ASSUME TypeOK, TypeOK', NEW r \in Runs, RunCovered(r),
           runs'[r].steps <= runs[r].steps, runs'[r].cost <= runs[r].cost,
           Flight(r)' \subseteq Flight(r), Extra(r) \subseteq Extra(r)'
    PROVE  RunCovered(r)'
<1>1. IsFiniteSet(Flight(r)) /\ IsFiniteSet(Extra(r)')
  BY FiniteFlights, FiniteFlightsNext
<1>2. /\ Covered(runs[r].steps, MaxSteps, 1, Flight(r)', Extra(r)')
      /\ Covered(runs[r].cost, MaxCost, TopPrice, Flight(r)', Extra(r)')
  BY <1>1, Numbers, CoveredStays DEF RunCovered
<1>3. runs'[r].steps \in Nat /\ runs'[r].cost \in Nat
  BY DEF TypeOK, Run
<1>4. Covered(runs'[r].steps, MaxSteps, 1, Flight(r)', Extra(r)')
  BY <1>1, <1>2, <1>3, Numbers, CoveredLess, FiniteFlightsNext
<1>5. Covered(runs'[r].cost, MaxCost, TopPrice, Flight(r)', Extra(r)')
  BY <1>1, <1>2, <1>3, Numbers, CoveredLess, FiniteFlightsNext
<1> QED BY <1>4, <1>5 DEF RunCovered, Covered

LEMMA DayStays ==
    ASSUME TypeOK, TypeOK', spent' <= spent, DayCovered,
           Spenders' \subseteq Spenders, Excess \subseteq Excess'
    PROVE  DayCovered'
<1>1. IsFiniteSet(Spenders) /\ IsFiniteSet(Excess')
  BY FiniteFlights, FiniteFlightsNext
<1>2. spent \in Nat /\ spent' \in Nat /\ HardLimit \in Nat /\ TopPrice \in Nat
  BY FinOpsAssumption DEF FinOpsAssumption, TypeOK
<1>3. Covered(spent, HardLimit, TopPrice, Spenders', Excess')
  BY <1>1, <1>2, CoveredStays DEF DayCovered
<1>4. Covered(spent', HardLimit, TopPrice, Spenders', Excess')
  BY <1>1, <1>2, <1>3, CoveredLess, FiniteFlightsNext
<1> QED BY <1>4 DEF DayCovered, Covered

LEMMA FlightStays ==
    ASSUME NEW r, \A o \in Requests : Keeps(o) /\ NotTowards(o)
    PROVE  Flight(r)' \subseteq Flight(r)
<1> SUFFICES ASSUME NEW o \in Flight(r)' PROVE o \in Flight(r)
  OBVIOUS
<1>1. o \in Requests /\ o \in Known' /\ request'[o].ask.run = r /\ Towards(o)'
  BY DEF Flight, Known
<1>2. o \in Known /\ Towards(o)
  BY <1>1 DEF NotTowards
<1>3. request'[o].ask = request[o].ask
  BY <1>1, <1>2 DEF Keeps
<1> QED BY <1>1, <1>2, <1>3 DEF Flight

LEMMA SpendersStay ==
    ASSUME \A o \in Requests : Keeps(o) /\ NotSpending(o)
    PROVE  Spenders' \subseteq Spenders
BY DEF Spenders, Known, NotSpending

LEMMA ExcessGrows ==
    ASSUME \A o \in Requests : Keeps(o)
    PROVE  Excess \subseteq Excess' /\ \A r : Extra(r) \subseteq Extra(r)'
<1>1. \A o \in Excess : o \in Requests /\ o \in Known
  BY DEF Excess, Known
<1>2. \A o \in Excess : o \in Excess' /\ request'[o].ask = request[o].ask
  BY <1>1 DEF Keeps
<1> QED BY <1>2 DEF Extra

\* Nothing is charged and nothing new takes off.
LEMMA MeteredStays ==
    ASSUME IInv, TypeOK', TotalsStay, spent' <= spent, Cardinality(Live') <= Pool,
           \A o \in Requests : Keeps(o) /\ NotTowards(o) /\ NotSpending(o)
    PROVE  Metered'
<1>1. Excess \subseteq Excess' /\ \A r : Extra(r) \subseteq Extra(r)'
  BY ExcessGrows
<1>2. \A r : Flight(r)' \subseteq Flight(r)
  BY FlightStays
<1>3. \A r \in Runs : RunCovered(r)'
  BY <1>1, <1>2, RunStays DEF IInv, Metered, TotalsStay
<1>4. DayCovered'
  BY <1>1, SpendersStay, DayStays DEF IInv, Metered
<1> QED BY <1>3, <1>4 DEF Metered

\* What a step of one request must see to, its charges and flights apart.
LEMMA OneSettles ==
    ASSUME IInv, TypeOK', Metered', Cached', NEW q \in Requests, Alters(q),
           Settled(q), KillsStand, Stage(q)', Stopped(q)', Judged(q)'
    PROVE  IInv'
<1>1. Staged'
  BY StagedOne DEF IInv
<1>2. \A o \in Requests : Stopped(o)'
  BY StoppedOne DEF IInv
<1>3. \A o \in Requests : Judged(o)'
  BY JudgedOne DEF IInv
<1> QED BY <1>1, <1>2, <1>3 DEF IInv

LEMMA LiveOne ==
    ASSUME IInv, NEW q \in Requests, Alters(q),
           request'[q].point \in LivePoints => request[q].point \in LivePoints
    PROVE  Cardinality(Live') <= Pool
<1>1. Live' \subseteq Live
  BY DEF Alters, Same, Live
<1> QED BY <1>1, LiveStays DEF IInv, Metered

LEMMA MeteredOne ==
    ASSUME IInv, TypeOK', NEW q \in Requests, Alters(q), Keeps(q),
           TotalsStay, spent' <= spent, NotTowards(q), NotSpending(q),
           Cardinality(Live') <= Pool
    PROVE  Metered'
<1>1. \A o \in Requests : Keeps(o) /\ NotTowards(o) /\ NotSpending(o)
  BY SameKeeps DEF Alters, NotTowards, NotSpending
<1> QED BY <1>1, MeteredStays

-----------------------------------------------------------------------------
(* The steps. First the gateway's that move a request on. *)
LEMMA Basics ==
    ASSUME IInv, NEW q \in Requests
    PROVE  /\ TypeOK /\ Stage(q) /\ Stopped(q) /\ Judged(q) /\ Cached
           /\ check[q] \in Check /\ NoCheck \in Check
           /\ ingest[q] \in {"none", "asked", "inserted", "done", "thrown", "torn"}
<1>1. TypeOK /\ Stage(q) /\ Stopped(q) /\ Judged(q) /\ Cached
  BY DEF IInv, Staged
<1>2. NoCheck \in Check
  BY DEF NoCheck, Check
<1> QED BY <1>1, <1>2 DEF TypeOK

LEMMA GatewayMove ==
    ASSUME IInv, NEW q \in Requests, request[q] \in Request,
           request[q].point \in LivePoints, NEW rec \in Request, request' = [request EXCEPT ![q] = rec],
           rec.ask = request[q].ask, rec.hit = request[q].hit,
           request[q].hit => rec.text = request[q].text,
           rec.open = request[q].open, request[q].late => rec.late,
           rec.doomed = request[q].doomed, rec.cacheable => request[q].cacheable,
           request[q].hit => rec.cacheable,
           request[q].cacheable => rec.watched = request[q].watched,
           rec.point \in {"blocked", "failed", "refused"} \/ ~At(q, "checking"),
           check' \in [Requests -> Check], check'[q] \in {NoCheck, check[q]},
           \A o \in Requests : o # q => check'[o] = check[o] /\ ingest'[o] = ingest[o],
           UNCHANGED <<config, runs, ledger, spent, cache>>,
           ingest' \in [Requests -> {"none", "asked", "inserted", "done", "thrown", "torn"}],
           Stage(q)', NotTowards(q), NotSpending(q), events' \in Nat
    PROVE  IInv'
<1> USE Basics
<1>1. /\ request' \in [Requests -> Request \cup {Unsent}] /\ request'[q] = rec
      /\ \A o \in Requests : o # q => request'[o] = request[o]
  BY Moved
<1>2. TypeOK'
  BY <1>1 DEF TypeOK, config
<1>3. Alters(q) /\ Settled(q) /\ KillsStand /\ TotalsStay /\ spent' = spent
  BY <1>1, Numbers DEF Alters, Same, Settled, KillsStand, TotalsStay, At, LivePoints
<1>4. q \in Known /\ q \in Known'
  BY <1>1 DEF Known, At, Request, Points, LivePoints
<1>5. Keeps(q)
  BY <1>1, <1>4 DEF Keeps, Excess
<1>6. Metered'
  BY <1>1, <1>2, <1>3, <1>5, LiveOne, MeteredOne DEF TypeOK
<1>7. Cached'
  BY <1>3, CachedOne
<1>8. Stopped(q)'
  <2>1. SUFFICES ASSUME request[q].doomed PROVE Stopped(q)'
    BY <1>1 DEF Stopped
  <2>2. /\ runs[request[q].ask.run].status = "killed"
        /\ check[q].point \in {"none", "asked", "blocked", "thrown"}
        /\ request[q].open \/ request[q].point \in
             {"checking", "blocked", "failed", "refused", "lost"}
    BY <2>1, <1>4 DEF Stopped
  <2>3. check'[q].point \in {"none", "asked", "blocked", "thrown"}
    BY <2>2 DEF NoCheck
  <2>4. runs'[request'[q].ask.run].status = "killed" /\ request'[q].open = request[q].open
    BY <1>1, <2>2
  <2>5. request[q].open \/ request'[q].point \in
          {"checking", "blocked", "failed", "refused", "lost"}
    BY <1>1, <2>2 DEF At, LivePoints
  <2> QED BY <2>3, <2>4, <2>5 DEF Stopped
<1>9. Judged(q)'
  <2>1. q \in Known /\ request[q].hit => Sound(request[q].text, request[q].ask.space)
    BY DEF Judged
  <2>2. PICK p, space : p = request[q].text /\ space = request[q].ask.space
    OBVIOUS
  <2>3. request[q].hit => Sound(p, space)'
    BY <1>3, <1>4, <2>1, <2>2, SoundStays
  <2>4. /\ request[q].hit => request'[q].text = p
        /\ request'[q].ask.space = space
    BY <1>1, <2>2
  <2>5. request[q].cacheable => Clean(q)
    BY <1>4 DEF Judged
  <2> QED BY <1>1, <1>4, <2>3, <2>4, <2>5 DEF Judged, NoCheck, Clean, Sound
<1> QED BY <1>2, <1>3, <1>6, <1>7, <1>8, <1>9, OneSettles

LEMMA GetsRefusalStep ==
    ASSUME IInv, NEW q \in Requests, GetsRefusal(q), events' \in Nat
    PROVE  IInv'
<1> USE Basics
<1> DEFINE rec == [request[q] EXCEPT !.point = "blocked"]
<1>1. request[q] \in Request /\ request[q].point \in LivePoints
  BY KnownTyped DEF GetsRefusal, At, LivePoints
<1>2. rec \in Request
  BY <1>1 DEF Request, Points, LivePoints
<1>3. request' = [request EXCEPT ![q] = rec]
  BY DEF GetsRefusal, Go, TypeOK
<1>4. /\ rec.point = "blocked" /\ rec.ask = request[q].ask /\ rec.hit = request[q].hit
      /\ rec.text = request[q].text /\ rec.open = request[q].open
      /\ rec.late = request[q].late /\ rec.doomed = request[q].doomed
      /\ rec.cacheable = request[q].cacheable /\ rec.watched = request[q].watched
  BY <1>1 DEF Request
<1> HIDE DEF rec
<1>5. request'[q] = rec
  BY <1>2, <1>3, Moved
<1>6. /\ check' \in [Requests -> Check] /\ check'[q] = NoCheck
      /\ \A o \in Requests : o # q => check'[o] = check[o]
  <2>1. check' = [check EXCEPT ![q] = NoCheck]
    BY DEF GetsRefusal
  <2> QED BY <2>1, Answered
<1>7. ingest' = ingest /\ ingest \in [Requests -> {"none", "asked", "inserted", "done", "thrown", "torn"}]
  BY DEF GetsRefusal, TypeOK
<1>8. Stage(q)'
  BY <1>1, <1>4, <1>5, <1>6, <1>7 DEF Stage, GetsRefusal, At, Known, NoCheck
<1>9. NotTowards(q) /\ NotSpending(q)
  BY <1>1, <1>4, <1>5, <1>6, <1>7
  DEF NotTowards, NotSpending, Towards, Spending, GetsRefusal, Stage, Known, At, NoCheck
<1>10. UNCHANGED <<config, runs, ledger, spent, cache>>
  BY DEF GetsRefusal
<1>11. rec.point \in {"blocked", "failed", "refused"} \/ ~At(q, "checking")
  BY <1>4 DEF GetsRefusal, At
<1>12. request[q].hit => /\ rec.text = request[q].text
                        /\ rec.cacheable
  BY <1>1, <1>4 DEF Judged, Stage, GetsRefusal, Known, At, LivePoints
<1> QED BY <1>1, <1>2, <1>3, <1>4, <1>5, <1>6, <1>7, <1>8, <1>9, <1>10, <1>11, <1>12, GatewayMove

LEMMA GetsErrorStep ==
    ASSUME IInv, NEW q \in Requests, GetsError(q), events' \in Nat
    PROVE  IInv'
<1> USE Basics
<1> DEFINE rec == [request[q] EXCEPT !.point = "failed"]
<1>1. request[q] \in Request /\ request[q].point \in LivePoints
  BY KnownTyped DEF GetsError, At, LivePoints
<1>2. rec \in Request
  BY <1>1 DEF Request, Points, LivePoints
<1>3. request' = [request EXCEPT ![q] = rec]
  BY DEF GetsError, Go, TypeOK
<1>4. /\ rec.point = "failed" /\ rec.ask = request[q].ask /\ rec.hit = request[q].hit
      /\ rec.text = request[q].text /\ rec.open = request[q].open
      /\ rec.late = request[q].late /\ rec.doomed = request[q].doomed
      /\ rec.cacheable = request[q].cacheable /\ rec.watched = request[q].watched
  BY <1>1 DEF Request
<1> HIDE DEF rec
<1>5. request'[q] = rec
  BY <1>2, <1>3, Moved
<1>6. /\ check' \in [Requests -> Check] /\ check'[q] = NoCheck
      /\ \A o \in Requests : o # q => check'[o] = check[o]
  <2>1. check' = [check EXCEPT ![q] = NoCheck]
    BY DEF GetsError
  <2> QED BY <2>1, Answered
<1>7. ingest' = ingest /\ ingest \in [Requests -> {"none", "asked", "inserted", "done", "thrown", "torn"}]
  BY DEF GetsError, TypeOK
<1>8. Stage(q)'
  BY <1>1, <1>4, <1>5, <1>6, <1>7 DEF Stage, GetsError, At, Known, NoCheck
<1>9. NotTowards(q) /\ NotSpending(q)
  BY <1>1, <1>4, <1>5, <1>6, <1>7
  DEF NotTowards, NotSpending, Towards, Spending, GetsError, Stage, Known, At, NoCheck
<1>10. UNCHANGED <<config, runs, ledger, spent, cache>>
  BY DEF GetsError
<1>11. rec.point \in {"blocked", "failed", "refused"} \/ ~At(q, "checking")
  BY <1>4 DEF GetsError, At
<1>12. request[q].hit => /\ rec.text = request[q].text
                        /\ rec.cacheable
  BY <1>1, <1>4 DEF Judged, Stage, GetsError, Known, At, LivePoints
<1> QED BY <1>1, <1>2, <1>3, <1>4, <1>5, <1>6, <1>7, <1>8, <1>9, <1>10, <1>11, <1>12, GatewayMove

LEMMA MissStep ==
    ASSUME IInv, NEW q \in Requests, Miss(q), events' \in Nat
    PROVE  IInv'
<1> USE Basics
<1> DEFINE rec == [request[q] EXCEPT !.point = "calling"]
<1>1. request[q] \in Request /\ request[q].point \in LivePoints
  BY KnownTyped DEF Miss, At, LivePoints
<1>2. rec \in Request
  BY <1>1 DEF Request, Points, LivePoints
<1>3. request' = [request EXCEPT ![q] = rec]
  BY DEF Miss, Go, TypeOK
<1>4. /\ rec.point = "calling" /\ rec.ask = request[q].ask /\ rec.hit = request[q].hit
      /\ rec.text = request[q].text /\ rec.open = request[q].open
      /\ rec.late = request[q].late /\ rec.doomed = request[q].doomed
      /\ rec.cacheable = request[q].cacheable /\ rec.watched = request[q].watched
  BY <1>1 DEF Request
<1> HIDE DEF rec
<1>5. request'[q] = rec
  BY <1>2, <1>3, Moved
<1>6. check' \in [Requests -> Check] /\ check' = check
  BY DEF Miss, TypeOK
<1>7. ingest' = ingest /\ ingest \in [Requests -> {"none", "asked", "inserted", "done", "thrown", "torn"}]
  BY DEF Miss, TypeOK
<1>8. Stage(q)'
  BY <1>1, <1>4, <1>5, <1>6, <1>7 DEF Stage, Miss, At, Known, NoCheck
<1>9. NotTowards(q) /\ NotSpending(q)
  BY <1>1, <1>4, <1>5, <1>6, <1>7
  DEF NotTowards, NotSpending, Towards, Spending, Miss, Stage, Known, At, NoCheck
<1>10. UNCHANGED <<config, runs, ledger, spent, cache>>
  BY DEF Miss
<1>11. rec.point \in {"blocked", "failed", "refused"} \/ ~At(q, "checking")
  BY <1>4 DEF Miss, At
<1>12. request[q].hit => /\ rec.text = request[q].text
                        /\ rec.cacheable
  BY <1>1, <1>4 DEF Judged, Stage, Miss, Known, At, LivePoints
<1> QED BY <1>1, <1>2, <1>3, <1>4, <1>5, <1>6, <1>7, <1>8, <1>9, <1>10, <1>11, <1>12, GatewayMove

LEMMA AnswersStep ==
    ASSUME IInv, NEW q \in Requests, NEW text \in {q, None}, Answers(q, text), events' \in Nat
    PROVE  IInv'
<1> USE Basics
<1> DEFINE rec == [request[q] EXCEPT !.text = text,
                     !.point = IF Reported(q) THEN "reporting"
                               ELSE IF text = None THEN "failed" ELSE "storing"]
<1>1. request[q] \in Request /\ request[q].point \in LivePoints
  BY KnownTyped DEF Answers, At, LivePoints
<1>2. rec \in Request
  BY <1>1 DEF Request, Points, LivePoints
<1>3. request' = [request EXCEPT ![q] = rec]
  BY DEF Answers, Go, TypeOK
<1>4. /\ rec.point = (IF Reported(q) THEN "reporting"
                      ELSE IF text = None THEN "failed" ELSE "storing") /\ rec.ask = request[q].ask /\ rec.hit = request[q].hit
      /\ rec.text = text /\ rec.open = request[q].open
      /\ rec.late = request[q].late /\ rec.doomed = request[q].doomed
      /\ rec.cacheable = request[q].cacheable /\ rec.watched = request[q].watched
  BY <1>1 DEF Request
<1> HIDE DEF rec
<1>5. request'[q] = rec
  BY <1>2, <1>3, Moved
<1>6. check' \in [Requests -> Check] /\ check' = check
  BY DEF Answers, TypeOK
<1>7. /\ ingest' \in [Requests -> {"none", "asked", "inserted", "done", "thrown", "torn"}]
      /\ ingest'[q] = IF Reported(q) THEN "asked" ELSE "none"
      /\ \A o \in Requests : o # q => ingest'[o] = ingest[o]
  BY DEF Answers, TypeOK
<1>8. Stage(q)'
  BY <1>1, <1>4, <1>5, <1>6, <1>7 DEF Stage, Answers, At, Known, NoCheck
<1>9. NotTowards(q) /\ NotSpending(q)
  BY <1>1, <1>4, <1>5, <1>6, <1>7
  DEF NotTowards, NotSpending, Towards, Spending, Answers, Stage, Known, At, NoCheck
<1>10. UNCHANGED <<config, runs, ledger, spent, cache>>
  BY DEF Answers
<1>11. rec.point \in {"blocked", "failed", "refused"} \/ ~At(q, "checking")
  BY <1>4 DEF Answers, At
<1>12. request[q].hit => /\ rec.text = request[q].text
                        /\ rec.cacheable
  BY <1>1, <1>4 DEF Judged, Stage, Answers, Known, At, LivePoints
<1> QED BY <1>1, <1>2, <1>3, <1>4, <1>5, <1>6, <1>7, <1>8, <1>9, <1>10, <1>11, <1>12, GatewayMove

LEMMA ReportDoneStep ==
    ASSUME IInv, NEW q \in Requests, ReportDone(q), events' \in Nat
    PROVE  IInv'
<1> USE Basics
<1> DEFINE rec == [request[q] EXCEPT !.point = AfterReport(q)]
<1>1. request[q] \in Request /\ request[q].point \in LivePoints
  BY KnownTyped DEF ReportDone, At, LivePoints
<1>2. rec \in Request
  BY <1>1 DEF Request, Points, LivePoints, AfterReport
<1>3. request' = [request EXCEPT ![q] = rec]
  BY DEF ReportDone, Go, TypeOK
<1>4. /\ rec.point = AfterReport(q) /\ rec.ask = request[q].ask /\ rec.hit = request[q].hit
      /\ rec.text = request[q].text /\ rec.open = request[q].open
      /\ rec.late = request[q].late /\ rec.doomed = request[q].doomed
      /\ rec.cacheable = request[q].cacheable /\ rec.watched = request[q].watched
  BY <1>1 DEF Request
<1> HIDE DEF rec
<1>5. request'[q] = rec
  BY <1>2, <1>3, Moved
<1>6. check' \in [Requests -> Check] /\ check' = check
  BY DEF ReportDone, TypeOK
<1>7. ingest' = ingest /\ ingest \in [Requests -> {"none", "asked", "inserted", "done", "thrown", "torn"}]
  BY DEF ReportDone, TypeOK
<1>8. Stage(q)'
  BY <1>1, <1>4, <1>5, <1>6, <1>7 DEF Stage, ReportDone, At, Known, NoCheck, AfterReport
<1>9. NotTowards(q) /\ NotSpending(q)
  BY <1>1, <1>4, <1>5, <1>6, <1>7
  DEF NotTowards, NotSpending, Towards, Spending, ReportDone, Stage, Known, At, NoCheck, AfterReport
<1>10. UNCHANGED <<config, runs, ledger, spent, cache>>
  BY DEF ReportDone
<1>11. rec.point \in {"blocked", "failed", "refused"} \/ ~At(q, "checking")
  BY <1>4 DEF ReportDone, At
<1>12. request[q].hit => /\ rec.text = request[q].text
                        /\ rec.cacheable
  BY <1>1, <1>4 DEF Judged, Stage, ReportDone, Known, At, LivePoints
<1> QED BY <1>1, <1>2, <1>3, <1>4, <1>5, <1>6, <1>7, <1>8, <1>9, <1>10, <1>11, <1>12, GatewayMove

LEMMA ReportFailsStep ==
    ASSUME IInv, NEW q \in Requests, ReportFails(q), events' \in Nat
    PROVE  IInv'
<1> USE Basics
<1> DEFINE rec == [request[q] EXCEPT !.point = "failed"]
<1>1. request[q] \in Request /\ request[q].point \in LivePoints
  BY KnownTyped DEF ReportFails, At, LivePoints
<1>2. rec \in Request
  BY <1>1 DEF Request, Points, LivePoints
<1>3. request' = [request EXCEPT ![q] = rec]
  BY DEF ReportFails, Go, TypeOK
<1>4. /\ rec.point = "failed" /\ rec.ask = request[q].ask /\ rec.hit = request[q].hit
      /\ rec.text = request[q].text /\ rec.open = request[q].open
      /\ rec.late = request[q].late /\ rec.doomed = request[q].doomed
      /\ rec.cacheable = request[q].cacheable /\ rec.watched = request[q].watched
  BY <1>1 DEF Request
<1> HIDE DEF rec
<1>5. request'[q] = rec
  BY <1>2, <1>3, Moved
<1>6. check' \in [Requests -> Check] /\ check' = check
  BY DEF ReportFails, TypeOK
<1>7. ingest' = ingest /\ ingest \in [Requests -> {"none", "asked", "inserted", "done", "thrown", "torn"}]
  BY DEF ReportFails, TypeOK
<1>8. Stage(q)'
  BY <1>1, <1>4, <1>5, <1>6, <1>7 DEF Stage, ReportFails, At, Known, NoCheck
<1>9. NotTowards(q) /\ NotSpending(q)
  BY <1>1, <1>4, <1>5, <1>6, <1>7
  DEF NotTowards, NotSpending, Towards, Spending, ReportFails, Stage, Known, At, NoCheck
<1>10. UNCHANGED <<config, runs, ledger, spent, cache>>
  BY DEF ReportFails
<1>11. rec.point \in {"blocked", "failed", "refused"} \/ ~At(q, "checking")
  BY <1>4 DEF ReportFails, At
<1>12. request[q].hit => /\ rec.text = request[q].text
                        /\ rec.cacheable
  BY <1>1, <1>4 DEF Judged, Stage, ReportFails, Known, At, LivePoints
<1> QED BY <1>1, <1>2, <1>3, <1>4, <1>5, <1>6, <1>7, <1>8, <1>9, <1>10, <1>11, <1>12, GatewayMove

LEMMA ReportAbandonedStep ==
    ASSUME IInv, NEW q \in Requests, ReportAbandoned(q), events' \in Nat
    PROVE  IInv'
<1> USE Basics
<1> DEFINE rec == [request[q] EXCEPT !.point = AfterReport(q), !.late = TRUE]
<1>1. request[q] \in Request /\ request[q].point \in LivePoints
  BY KnownTyped DEF ReportAbandoned, At, LivePoints
<1>2. rec \in Request
  BY <1>1 DEF Request, Points, LivePoints, AfterReport
<1>3. request' = [request EXCEPT ![q] = rec]
  BY DEF ReportAbandoned, Go, TypeOK
<1>4. /\ rec.point = AfterReport(q) /\ rec.ask = request[q].ask /\ rec.hit = request[q].hit
      /\ rec.text = request[q].text /\ rec.open = request[q].open
      /\ rec.late = TRUE /\ rec.doomed = request[q].doomed
      /\ rec.cacheable = request[q].cacheable /\ rec.watched = request[q].watched
  BY <1>1 DEF Request
<1> HIDE DEF rec
<1>5. request'[q] = rec
  BY <1>2, <1>3, Moved
<1>6. check' \in [Requests -> Check] /\ check' = check
  BY DEF ReportAbandoned, TypeOK
<1>7. ingest' = ingest /\ ingest \in [Requests -> {"none", "asked", "inserted", "done", "thrown", "torn"}]
  BY DEF ReportAbandoned, TypeOK
<1>8. Stage(q)'
  BY <1>1, <1>4, <1>5, <1>6, <1>7 DEF Stage, ReportAbandoned, At, Known, NoCheck, AfterReport
<1>9. NotTowards(q) /\ NotSpending(q)
  BY <1>1, <1>4, <1>5, <1>6, <1>7
  DEF NotTowards, NotSpending, Towards, Spending, ReportAbandoned, Stage, Known, At, NoCheck, AfterReport
<1>10. UNCHANGED <<config, runs, ledger, spent, cache>>
  BY DEF ReportAbandoned
<1>11. rec.point \in {"blocked", "failed", "refused"} \/ ~At(q, "checking")
  BY <1>4 DEF ReportAbandoned, At
<1>12. request[q].hit => /\ rec.text = request[q].text
                        /\ rec.cacheable
  BY <1>1, <1>4 DEF Judged, Stage, ReportAbandoned, Known, At, LivePoints
<1> QED BY <1>1, <1>2, <1>3, <1>4, <1>5, <1>6, <1>7, <1>8, <1>9, <1>10, <1>11, <1>12, GatewayMove

LEMMA GetsAnswerStep ==
    ASSUME IInv, NEW q \in Requests, GetsAnswer(q), events' \in Nat
    PROVE  IInv'
<1> USE Basics
<1>1. q \in Known /\ request[q] \in Request
  BY KnownTyped DEF GetsAnswer, At
<1> DEFINE rec == [request[q] EXCEPT !.point = "lookup", !.model = check[q].model,
                                     !.cacheable = check[q].cacheable,
                                     !.watched = check[q].watched]
<1>2. rec \in Request
  BY <1>1 DEF Request, Check, Stage, GetsAnswer, Points, LivePoints
<1>3. request' = [request EXCEPT ![q] = rec] /\ check' = [check EXCEPT ![q] = NoCheck]
  BY DEF GetsAnswer, TypeOK
<1>4. /\ rec.point = "lookup" /\ rec.ask = request[q].ask /\ rec.hit = request[q].hit
      /\ rec.text = request[q].text /\ rec.open = request[q].open
      /\ rec.late = request[q].late /\ rec.doomed = request[q].doomed
      /\ rec.cacheable = check[q].cacheable /\ rec.watched = check[q].watched
  BY <1>1 DEF Request
<1> HIDE DEF rec
<1>5. /\ request' \in [Requests -> Request \cup {Unsent}] /\ request'[q] = rec
      /\ \A o \in Requests : o # q => request'[o] = request[o]
  BY <1>2, <1>3, Moved
<1>6. /\ check' \in [Requests -> Check] /\ check'[q] = NoCheck
      /\ \A o \in Requests : o # q => check'[o] = check[o]
  BY <1>3, Answered
<1>7. TypeOK'
  BY <1>5, <1>6 DEF TypeOK, GetsAnswer, config
<1>8. Alters(q) /\ ingest' = ingest /\ runs' = runs /\ spent' = spent /\ cache' = cache
  BY <1>5, <1>6 DEF Alters, Same, GetsAnswer
<1>9. KillsStand /\ TotalsStay /\ Settled(q) /\ Keeps(q)
  BY <1>1, <1>4, <1>5, <1>8, Numbers
  DEF KillsStand, TotalsStay, Settled, Keeps, Known, At, Excess, GetsAnswer
<1>10. Stage(q)'
  BY <1>1, <1>4, <1>5, <1>6, <1>8 DEF Stage, GetsAnswer, At, Known, NoCheck
<1>11. Stopped(q)'
  BY <1>1, <1>4, <1>5, <1>8 DEF Stopped, GetsAnswer
<1>12. Judged(q)'
  BY <1>1, <1>4, <1>5, <1>6 DEF Judged, GetsAnswer, NoCheck, Clean, Stage
<1>13. NotTowards(q) /\ NotSpending(q)
  BY <1>1 DEF Towards, Spending, GetsAnswer, Stage, NotTowards, NotSpending
<1>14. Metered'
  BY <1>4, <1>5, <1>7, <1>8, <1>9, <1>13, LiveOne, MeteredOne DEF GetsAnswer, At, LivePoints, TypeOK
<1> QED BY <1>7, <1>8, <1>9, <1>10, <1>11, <1>12, <1>14, CachedOne, OneSettles

LEMMA HitStep ==
    ASSUME IInv, NEW q \in Requests, Hit(q), events' \in Nat
    PROVE  IInv'
<1> USE Basics
<1>1. q \in Known /\ request[q] \in Request
  BY KnownTyped DEF Hit, At
<1>2. PICK e \in Found(q) :
        request' = [request EXCEPT
                      ![q].point = IF Reported(q) THEN "reporting" ELSE "served",
                      ![q].hit = TRUE, ![q].text = e.from]
  BY DEF Hit
<1>3. e \in cache /\ e \in Entry /\ e.from \in Requests /\ e.scope[1] = request[q].ask.space
  BY <1>1 DEF Found, Scope, TypeOK, Entry
<1> DEFINE rec == [request[q] EXCEPT
                     !.point = IF Reported(q) THEN "reporting" ELSE "served",
                     !.hit = TRUE, !.text = e.from]
<1>4. rec \in Request
  BY <1>1, <1>3 DEF Request, Points, LivePoints
<1>5. request' = [request EXCEPT ![q] = rec]
  BY <1>2 DEF TypeOK
<1>6. /\ rec.point \in {"reporting", "served"}
      /\ rec.point = IF Reported(q) THEN "reporting" ELSE "served"
      /\ rec.ask = request[q].ask /\ rec.hit /\ rec.text = e.from
      /\ rec.open = request[q].open /\ rec.late = request[q].late
      /\ rec.doomed = request[q].doomed /\ rec.cacheable = request[q].cacheable
      /\ rec.watched = request[q].watched
  BY <1>1 DEF Request
<1> HIDE DEF rec
<1>7. /\ request' \in [Requests -> Request \cup {Unsent}] /\ request'[q] = rec
      /\ \A o \in Requests : o # q => request'[o] = request[o]
  BY <1>4, <1>5, Moved
<1>8. /\ ingest' \in [Requests -> {"none", "asked", "inserted", "done", "thrown", "torn"}]
      /\ ingest'[q] = IF Reported(q) THEN "asked" ELSE "none"
      /\ \A o \in Requests : o # q => ingest'[o] = ingest[o]
      /\ check' = check /\ runs' = runs /\ spent' = spent /\ cache' = cache
  BY DEF Hit, TypeOK
<1>9. TypeOK'
  BY <1>7, <1>8 DEF TypeOK, Hit, config
<1>10. /\ Alters(q) /\ KillsStand /\ TotalsStay /\ Settled(q) /\ Keeps(q)
       /\ q \in Known'
  BY <1>1, <1>6, <1>7, <1>8, Numbers
  DEF Alters, Same, KillsStand, TotalsStay, Settled, Keeps, Known, At, Excess, Hit
<1>11. Stage(q)'
  BY <1>1, <1>6, <1>7, <1>8 DEF Stage, Hit, At, Known
<1>12. Clean(q) /\ ~request[q].open
  BY <1>1 DEF Hit, Judged, Clean
<1>13. Stopped(q)'
  <2>1. ~request[q].doomed
    BY <1>1, <1>12 DEF Stopped, Hit, At
  <2> QED BY <1>1, <1>6, <1>7, <1>8, <2>1, StoppedOpen
<1>14. Judged(q)'
  <2>1. PICK p, space : p = e.from /\ space = e.scope[1]
    OBVIOUS
  <2>2. Sound(p, space)
    BY <1>3, <2>1 DEF Cached
  <2>3. Sound(p, space)'
    BY <1>10, <2>2, SoundStays
  <2>4. request'[q].text = p /\ request'[q].ask.space = space
    BY <1>3, <1>6, <1>7, <2>1
  <2>5. request'[q].cacheable /\ Clean(q)'
    BY <1>6, <1>7, <1>12 DEF Hit, Clean
  <2>6. ~(check[q].point = "answered") \/ ~check[q].cacheable
        \/ (check[q].watched => ~request[q].ask.sensitive /\ request[q].ask.risk = "low")
    BY <1>1 DEF Judged
  <2> QED BY <1>6, <1>7, <1>8, <2>3, <2>4, <2>5, <2>6 DEF Judged, Sound
<1>15. NotTowards(q) /\ NotSpending(q)
  BY <1>1 DEF Towards, Spending, Hit, At, NotTowards, NotSpending
<1>16. Metered'
  BY <1>7, <1>8, <1>9, <1>10, <1>15, LiveOne, MeteredOne DEF Hit, At, LivePoints, TypeOK
<1> QED BY <1>8, <1>9, <1>10, <1>11, <1>13, <1>14, <1>16, CachedOne, OneSettles

LEMMA StoreStep ==
    ASSUME IInv, NEW q \in Requests, Store(q), events' \in Nat
    PROVE  IInv'
<1> USE Basics
<1>1. q \in Known /\ request[q] \in Request
  BY KnownTyped DEF Store, At
<1>2. /\ request' \in [Requests -> Request \cup {Unsent}]
      /\ request'[q] = [request[q] EXCEPT !.point = "served"]
      /\ \A o \in Requests : o # q => request'[o] = request[o]
  BY <1>1, Went DEF Store, Points
<1> DEFINE rec == [request[q] EXCEPT !.point = "served"]
<1>3. /\ rec.point = "served" /\ rec.ask = request[q].ask /\ rec.hit = request[q].hit
      /\ rec.text = request[q].text /\ rec.open = request[q].open
      /\ rec.late = request[q].late /\ rec.doomed = request[q].doomed
      /\ rec.cacheable = request[q].cacheable /\ rec.watched = request[q].watched
  BY <1>1 DEF Request
<1>4. request'[q] = rec
  BY <1>2
<1> HIDE DEF rec
<1> DEFINE e == [scope |-> Scope(q), prompt |-> request[q].ask.prompt, from |-> q]
<1>5. request[q].ask \in Ask /\ request[q].model \in Models
  BY <1>1, AskTyped DEF Request
<1>6. e \in Entry /\ e.from = q /\ e.scope[1] = request[q].ask.space
  BY <1>5 DEF Entry, Scope, Ask
<1>7. cache' \subseteq cache \cup {e} /\ (e \in cache' => e \in cache \/ request[q].cacheable)
  BY DEF Store
<1> HIDE DEF e
<1>8. /\ check' = check /\ ingest' = ingest /\ runs' = runs /\ spent' = spent
      /\ deployed' = deployed /\ settings' = settings /\ ledger' = ledger
  BY DEF Store, config
<1>9. TypeOK'
  BY <1>2, <1>6, <1>7, <1>8 DEF TypeOK
<1>10. /\ Alters(q) /\ KillsStand /\ TotalsStay /\ Settled(q) /\ Keeps(q)
       /\ q \in Known'
  BY <1>1, <1>2, <1>3, <1>4, <1>8, Numbers
  DEF Alters, Same, KillsStand, TotalsStay, Settled, Keeps, Known, At, Excess, Store
<1>11. Stage(q)'
  BY <1>1, <1>3, <1>4, <1>8 DEF Stage, Store, At, Known
<1>12. Stopped(q)'
  <2>1. request[q].doomed => request'[q].open
    BY <1>1, <1>3, <1>4 DEF Stopped, Store, At
  <2> QED BY <1>1, <1>3, <1>4, <1>8, <2>1, StoppedOpen
<1>13. request[q].cacheable => Sound(q, request[q].ask.space)'
  BY <1>1, <1>3, <1>4, <1>10 DEF Judged, Clean, Sound, Store, Stage, At
<1>14. Cached'
  <2> SUFFICES ASSUME NEW f \in cache' PROVE Sound(f.from, f.scope[1])'
    BY DEF Cached
  <2>1. CASE f \in cache
    BY <1>8, <1>10, <2>1, SoundStays DEF Cached
  <2>2. CASE f \notin cache
    <3>1. f = e /\ request[q].cacheable
      BY <1>7, <2>2
    <3>2. PICK space : space = request[q].ask.space
      OBVIOUS
    <3>3. Sound(q, space)'
      BY <1>3, <1>4, <1>13, <3>1, <3>2 DEF Sound
    <3> QED BY <1>6, <3>1, <3>2, <3>3 DEF Sound
  <2> QED BY <2>1, <2>2
<1>15. Judged(q)'
  BY <1>1, <1>3, <1>4, <1>8, <1>10 DEF Judged, Clean, Stage, Store
<1>16. NotTowards(q) /\ NotSpending(q)
  BY <1>1, <1>3, <1>4, <1>8 DEF Towards, Spending, Store, At, NotTowards, NotSpending
<1>17. Metered'
  BY <1>3, <1>4, <1>8, <1>9, <1>10, <1>16, LiveOne, MeteredOne DEF LivePoints, TypeOK
<1> QED BY <1>9, <1>10, <1>11, <1>12, <1>14, <1>15, <1>17, OneSettles

\* Without an answer the request goes on, counted with the excused.
LEMMA StopsWaitingStep ==
    ASSUME IInv, NEW q \in Requests, StopsWaiting(q), events' \in Nat
    PROVE  IInv'
<1> USE Basics
<1>1. q \in Known /\ request[q] \in Request /\ request[q].point \in LivePoints
  BY KnownTyped DEF StopsWaiting, At, LivePoints
<1> DEFINE rec(p, o) == [request[q] EXCEPT !.point = p, !.open = o]
<1>2. ASSUME NEW p \in Points, NEW o \in BOOLEAN
      PROVE  /\ rec(p, o) \in Request
             /\ rec(p, o).point = p /\ rec(p, o).open = o
             /\ rec(p, o).ask = request[q].ask /\ rec(p, o).hit = request[q].hit
             /\ rec(p, o).text = request[q].text /\ rec(p, o).late = request[q].late
             /\ rec(p, o).doomed = request[q].doomed
             /\ rec(p, o).cacheable = request[q].cacheable
             /\ rec(p, o).watched = request[q].watched
  BY <1>1 DEF Request
<1>3. /\ ~request[q].open /\ ~request[q].late /\ ~request[q].hit /\ ~request[q].cacheable
      /\ request[q].text = None /\ ingest[q] = "none" /\ At(q, "checking")
  BY DEF Stage, StopsWaiting
<1>4. /\ check' = check /\ ingest' = ingest /\ runs' = runs /\ spent' = spent
      /\ deployed' = deployed /\ settings' = settings /\ ledger' = ledger /\ cache' = cache
  BY DEF StopsWaiting, config
<1>5. CASE deployed.closed
  <2>1. PICK new : new = [request[q] EXCEPT !.point = "refused"]
    OBVIOUS
  <2>2. request' = [request EXCEPT ![q] = new]
    BY <1>5, <2>1 DEF StopsWaiting, Go, TypeOK
  <2>3. /\ new.point = "refused" /\ new.open = request[q].open
        /\ new.ask = request[q].ask /\ new.hit = request[q].hit
        /\ new.text = request[q].text /\ new.late = request[q].late
        /\ new.doomed = request[q].doomed
        /\ new.cacheable = request[q].cacheable /\ new.watched = request[q].watched
    BY <1>1, <2>1 DEF Request
  <2>4. new \in Request
    BY <1>1, <2>1 DEF Request, Points
  <2>5. request'[q] = new /\ request' = [request EXCEPT ![q] = new]
    BY <2>2, <2>4, Moved
  <2>6. Stage(q)'
    BY <1>3, <1>4, <2>3, <2>5 DEF Stage, At, Known
  <2>7. NotTowards(q) /\ NotSpending(q)
    BY <1>3, <1>4, <2>3, <2>5 DEF NotTowards, NotSpending, Towards, Spending, At
  <2>8. UNCHANGED <<config, runs, ledger, spent, cache>>
    BY <1>4 DEF config
  <2>9. /\ check \in [Requests -> Check]
        /\ ingest \in [Requests -> {"none", "asked", "inserted", "done", "thrown", "torn"}]
    BY DEF TypeOK
  <2> QED BY <1>1, <1>3, <1>4, <2>3, <2>4, <2>5, <2>6, <2>7, <2>8, <2>9, GatewayMove
<1>6. CASE ~deployed.closed
  <2>1. request' = [request EXCEPT ![q] = rec("lookup", TRUE)]
    BY <1>6, <1>1 DEF StopsWaiting, TypeOK
  <2>2. "lookup" \in Points
    BY DEF Points, LivePoints
  <2>3. PICK new : new = rec("lookup", TRUE)
    OBVIOUS
  <2>4. /\ new \in Request /\ new.point = "lookup" /\ new.open
        /\ new.ask = request[q].ask /\ new.hit = request[q].hit
        /\ new.text = request[q].text /\ new.late = request[q].late
        /\ new.doomed = request[q].doomed
        /\ new.cacheable = request[q].cacheable /\ new.watched = request[q].watched
    BY <1>2, <2>2, <2>3
  <2> HIDE DEF rec
  <2>5. /\ request' \in [Requests -> Request \cup {Unsent}] /\ request'[q] = new
        /\ \A o \in Requests : o # q => request'[o] = request[o]
    BY <2>1, <2>3, <2>4, Moved
  <2>6. TypeOK'
    BY <1>4, <2>5 DEF TypeOK
  <2>7. /\ Alters(q) /\ KillsStand /\ TotalsStay /\ Settled(q) /\ q \in Known'
        /\ Keeps(q)
    BY <1>1, <1>3, <1>4, <2>4, <2>5, Numbers
    DEF Alters, Same, KillsStand, TotalsStay, Settled, Keeps, Known, At, Excess
  <2>8. Stage(q)'
    BY <1>1, <1>3, <1>4, <2>4, <2>5 DEF Stage, At, Known
  <2>9. Stopped(q)'
    BY <1>1, <1>4, <2>4, <2>5, StoppedOpen
  <2>10. Judged(q)'
    BY <1>1, <1>3, <1>4, <2>4, <2>5 DEF Judged
  <2>11. q \notin Excess /\ Excess' = Excess \cup {q}
    <3>1. q \notin Excess /\ q \in Excess'
      BY <1>3, <2>4, <2>5, <2>7 DEF Excess
    <3>2. \A o \in Requests : o # q => (o \in Excess' <=> o \in Excess)
      BY <2>5 DEF Excess, Known, At
    <3> QED BY <3>1, <3>2 DEF Excess, Known
  <2>12. Spenders' \subseteq Spenders \cup {q}
    <3>1. \A o \in Requests : o # q => (o \in Spenders' => o \in Spenders)
      BY <1>4, <2>5 DEF Spenders, Spending, Known, At
    <3> QED BY <3>1 DEF Spenders, Known
  <2>13. ASSUME NEW r \in Runs
         PROVE  RunCovered(r)'
    <3>1. \A o \in Requests : o # q => (o \in Flight(r)' => o \in Flight(r))
      BY <1>4, <2>5 DEF Flight, Towards, Known, At
    <3>2. IsFiniteSet(Flight(r)) /\ IsFiniteSet(Extra(r)) /\ RunCovered(r)
      BY FiniteFlights DEF IInv, Metered
    <3>3. CASE request[q].ask.run = r
      <4>1. Flight(r)' \subseteq Flight(r) \cup {q}
        BY <3>1 DEF Flight, Known
      <4>2. q \notin Extra(r) /\ Extra(r)' = Extra(r) \cup {q}
        <5>1. \A o \in Excess : request'[o].ask = request[o].ask
          BY <2>4, <2>5 DEF Excess, Known
        <5>2. request'[q].ask.run = r
          BY <2>4, <2>5, <3>3
        <5> QED BY <2>11, <5>1, <5>2 DEF Extra
      <4>3. /\ Covered(runs[r].steps, MaxSteps, 1, Flight(r)', Extra(r)')
            /\ Covered(runs[r].cost, MaxCost, TopPrice, Flight(r)', Extra(r)')
        BY <3>2, <4>1, <4>2, Numbers, CoveredExcuses DEF RunCovered
      <4> QED BY <1>4, <4>3 DEF RunCovered, Covered
    <3>4. CASE request[q].ask.run # r
      <4>1. q \notin Flight(r)'
        BY <2>4, <2>5, <3>4 DEF Flight
      <4>2. Flight(r)' \subseteq Flight(r)
        BY <3>1, <4>1 DEF Flight, Known
      <4>3. Extra(r) \subseteq Extra(r)'
        <5>1. \A o \in Excess : request'[o].ask = request[o].ask
          BY <2>4, <2>5 DEF Excess, Known
        <5> QED BY <2>11, <5>1 DEF Extra
      <4> QED BY <1>4, <2>6, <2>7, <3>2, <4>2, <4>3, RunStays DEF TotalsStay
    <3> QED BY <3>3, <3>4
  <2>14. DayCovered'
    <3>1. Covered(spent, HardLimit, TopPrice, Spenders', Excess')
      <4>1. /\ IsFiniteSet(Spenders) /\ IsFiniteSet(Excess)
            /\ spent \in Nat /\ HardLimit \in Nat /\ TopPrice \in Nat
        BY FiniteFlights, FinOpsAssumption DEF TypeOK, FinOpsAssumption
      <4> QED BY <2>11, <2>12, <4>1, CoveredExcuses DEF IInv, Metered, DayCovered
    <3> QED BY <1>4, <3>1 DEF DayCovered, Covered
  <2>15. Cardinality(Live') <= Pool
    BY <1>1, <2>7, LiveOne
  <2>16. Metered'
    BY <2>13, <2>14, <2>15 DEF Metered
  <2> QED BY <1>4, <2>6, <2>7, <2>8, <2>9, <2>10, <2>16, CachedOne, OneSettles
<1> QED BY <1>5, <1>6

LEMMA BeginStep ==
    ASSUME IInv, NEW q \in Requests, NEW a \in Asks, Begin(q, a), events' \in Nat
    PROVE  IInv'
<1> USE Basics
<1> DEFINE rec == Sent(a, runs[a.run].status = "killed")
<1>1. a \in Ask /\ a.run \in Runs
  BY AskTyped DEF Ask
<1>2. /\ rec \in Request /\ rec.point = "checking" /\ rec.ask = a /\ ~rec.hit
      /\ ~rec.open /\ ~rec.late /\ ~rec.cacheable /\ rec.text = None
      /\ rec.doomed => runs[a.run].status = "killed"
  BY <1>1 DEF Sent, Request, Points, LivePoints, Ask
<1>3. request' = [request EXCEPT ![q] = rec]
  BY DEF Begin
<1> HIDE DEF rec
<1>4. /\ request' \in [Requests -> Request \cup {Unsent}] /\ request'[q] = rec
      /\ \A o \in Requests : o # q => request'[o] = request[o]
  BY <1>2, <1>3, Moved
<1>5. check[q] = NoCheck /\ ingest[q] = "none" /\ q \notin Known /\ q \notin Live
  BY DEF Stage, Begin, Known, Live, At, LivePoints
<1>6. /\ check' \in [Requests -> Check] /\ check'[q].point = "asked" /\ ~check'[q].over
      /\ \A o \in Requests : o # q => check'[o] = check[o]
  <2>1. /\ check' \in [Requests -> Check] /\ check'[q] = [check[q] EXCEPT !.point = "asked"]
        /\ \A o \in Requests : o # q => check'[o] = check[o]
    BY Checked DEF Begin
  <2> QED BY <1>5, <2>1 DEF NoCheck
<1>7. /\ ingest' = ingest /\ runs' = runs /\ spent' = spent /\ cache' = cache
      /\ deployed' = deployed /\ settings' = settings /\ ledger' = ledger
  BY DEF Begin, config
<1>8. TypeOK'
  BY <1>4, <1>6, <1>7 DEF TypeOK
<1>9. /\ Alters(q) /\ KillsStand /\ TotalsStay /\ Settled(q) /\ q \in Known'
      /\ Keeps(q)
  BY <1>2, <1>4, <1>5, <1>6, <1>7, Numbers
  DEF Alters, Same, KillsStand, TotalsStay, Settled, Keeps, Known, At, Excess, Begin
<1>10. Stage(q)' /\ Judged(q)'
  BY <1>2, <1>4, <1>5, <1>6, <1>7 DEF Stage, Judged, At, Known
<1>11. Stopped(q)'
  BY <1>2, <1>4, <1>6, <1>7 DEF Stopped
<1>12. NotTowards(q) /\ NotSpending(q)
  BY <1>2, <1>4, <1>5, <1>6, <1>7 DEF Towards, Spending, At, NotTowards, NotSpending
<1>13. Cardinality(Live') <= Pool
  <2>1. Live' = Live \cup {q}
    <3>1. \A o \in Requests : o # q => (o \in Live' <=> o \in Live)
      BY <1>4 DEF Live
    <3>2. q \in Live'
      BY <1>2, <1>4 DEF Live, LivePoints
    <3> QED BY <3>1, <3>2 DEF Live
  <2>2. Cardinality(Live') = Cardinality(Live) + 1
    BY <1>5, <2>1, FiniteFlights, FS_AddElement
  <2>3. Cardinality(Live) \in Nat /\ Pool \in Nat
    BY FiniteFlights, FS_CardinalityType, FinOpsAssumption DEF FinOpsAssumption
  <2> QED BY <2>2, <2>3 DEF Begin
<1>14. Metered'
  BY <1>7, <1>8, <1>9, <1>12, <1>13, MeteredOne DEF TypeOK
<1> QED BY <1>7, <1>8, <1>9, <1>10, <1>11, <1>14, CachedOne, OneSettles

-----------------------------------------------------------------------------
(* The control plane: a handler moves on, its request does not. *)
LEMMA RowTyped ==
    ASSUME TypeOK, NEW r \in Runs, NEW row \in Run, runs' = [runs EXCEPT ![r] = row]
    PROVE  /\ runs' \in [Runs -> Run] /\ runs'[r] = row
           /\ \A o \in Runs : o # r => runs'[o] = runs[o]
BY DEF TypeOK

LEMMA AskRun ==
    ASSUME TypeOK, NEW q \in Known
    PROVE  /\ q \in Requests /\ request[q] \in Request
           /\ request[q].ask \in Ask /\ request[q].ask.run \in Runs
           /\ request[q].ask.signature \in {None, "s", "t"}
           /\ request[q].ask.model \in Models
<1>1. q \in Requests /\ request[q] \in Request
  BY KnownTyped DEF Known
<1> QED BY <1>1, AskTyped DEF Request, Ask

LEMMA OpenedRow ==
    ASSUME TypeOK, NEW r \in Runs
    PROVE  /\ Opened(r) \in Run /\ Opened(r).steps <= runs[r].steps
           /\ Opened(r).cost <= runs[r].cost
           /\ runs[r].status = "killed" => Opened(r).status = "killed"
<1>1. runs[r] \in Run /\ runs[r].steps \in Nat /\ runs[r].cost \in Nat
  BY DEF TypeOK, Run
<1>2. CASE runs[r].status = "none"
  BY <1>1, <1>2 DEF Opened, NoRun, Run
<1>3. CASE runs[r].status # "none"
  BY <1>1, <1>3 DEF Opened
<1> QED BY <1>2, <1>3

\* A row that keeps its totals, and its status if killed.
LEMMA RowSettles ==
    ASSUME TypeOK, NEW r \in Runs, NEW row \in Run, runs' = [runs EXCEPT ![r] = row],
           row.steps <= runs[r].steps, row.cost <= runs[r].cost,
           runs[r].status = "killed" => row.status = "killed"
    PROVE  runs' \in [Runs -> Run] /\ TotalsStay /\ KillsStand
<1>1. /\ runs' \in [Runs -> Run] /\ runs'[r] = row
      /\ \A o \in Runs : o # r => runs'[o] = runs[o]
  BY RowTyped
<1>2. TotalsStay
  <2> SUFFICES ASSUME NEW o \in Runs
               PROVE  runs'[o].steps <= runs[o].steps /\ runs'[o].cost <= runs[o].cost
    BY DEF TotalsStay
  <2>1. CASE o = r
    BY <1>1, <2>1
  <2>2. CASE o # r
    BY <1>1, <2>2, Numbers
  <2> QED BY <2>1, <2>2
<1>3. KillsStand
  BY <1>1 DEF KillsStand
<1> QED BY <1>1, <1>2, <1>3

LEMMA CheckMove ==
    ASSUME IInv, NEW q \in Requests, check[q].point # "none", NEW rec \in Check,
           check' = [check EXCEPT ![q] = rec],
           request' = request, ingest' = ingest, spent' = spent,
           UNCHANGED <<config, ledger, cache>>, events' \in Nat,
           runs' \in [Runs -> Run], KillsStand, Metered',
           rec.point \in {"budget", "decide", "answered"} => ~rec.over,
           rec.point = "answered" => rec.model \in Models,
           q \in Known /\ request[q].doomed =>
             rec.point \in {"none", "asked", "blocked", "thrown"},
           rec.point = "answered" /\ rec.cacheable =>
             (rec.watched => ~request[q].ask.sensitive /\ request[q].ask.risk = "low")
    PROVE  IInv'
<1> USE Basics
<1>1. /\ check' \in [Requests -> Check] /\ check'[q] = rec
      /\ \A o \in Requests : o # q => check'[o] = check[o]
  BY Answered
<1>2. TypeOK'
  BY <1>1 DEF TypeOK, config
<1>3. Alters(q) /\ Settled(q)
  BY <1>1 DEF Alters, Same, Settled
<1>4. q \in Known /\ q \in Known'
  BY DEF Stage, Known, At, NoCheck
<1>5. Stage(q)'
  BY <1>1, <1>4 DEF Stage, Known, At
<1>6. Stopped(q)'
  <2>1. SUFFICES ASSUME request[q].doomed PROVE Stopped(q)'
    BY DEF Stopped
  <2>2. /\ request[q].ask.run \in Runs
        /\ runs[request[q].ask.run].status = "killed"
        /\ request[q].open \/ request[q].point \in
             {"checking", "blocked", "failed", "refused", "lost"}
    BY <2>1, <1>4, AskRun DEF Stopped
  <2>3. runs'[request[q].ask.run].status = "killed"
    BY <2>2 DEF KillsStand
  <2> QED BY <1>1, <1>4, <2>1, <2>2, <2>3 DEF Stopped
<1>7. Judged(q)'
  <2>1. /\ request[q].cacheable => Clean(q)
        /\ request[q].hit =>
             request[q].cacheable /\ Sound(request[q].text, request[q].ask.space)
    BY <1>4 DEF Judged
  <2>2. PICK p, space : p = request[q].text /\ space = request[q].ask.space
    OBVIOUS
  <2>3. request[q].hit => Sound(p, space)'
    BY <1>3, <2>1, <2>2, SoundStays
  <2> QED BY <1>1, <1>4, <2>1, <2>2, <2>3 DEF Judged, Clean, Sound
<1>8. Cached'
  BY <1>3, CachedOne
<1> QED BY <1>2, <1>3, <1>5, <1>6, <1>7, <1>8, OneSettles

\* The same, when the handler lets nothing new take off.
LEMMA CheckMetered ==
    ASSUME IInv, NEW q \in Requests, check[q].point # "none", NEW rec \in Check,
           check' = [check EXCEPT ![q] = rec],
           request' = request, ingest' = ingest, spent' = spent,
           UNCHANGED <<config, ledger, cache>>, events' \in Nat,
           runs' \in [Runs -> Run], TotalsStay,
           At(q, "checking") /\ ~rec.over
             /\ rec.point \in {"loop", "budget", "decide", "answered"} =>
               ~check[q].over /\ check[q].point \in {"loop", "budget", "decide", "answered"},
           At(q, "checking") /\ rec.point \in {"decide", "answered"} =>
             check[q].point \in {"decide", "answered"}
    PROVE  Metered'
<1> USE Basics
<1>1. /\ check' \in [Requests -> Check] /\ check'[q] = rec
      /\ \A o \in Requests : o # q => check'[o] = check[o]
  BY Answered
<1>2. TypeOK'
  BY <1>1 DEF TypeOK, config
<1>3. Alters(q) /\ q \in Known /\ Keeps(q)
  BY <1>1 DEF Alters, Same, Keeps, Excess, Stage, Known, At, NoCheck
<1>4. NotTowards(q) /\ NotSpending(q)
  BY <1>1, <1>3 DEF NotTowards, NotSpending, Towards, Spending, At
<1> QED BY <1>2, <1>3, <1>4, LiveOne, MeteredOne DEF TypeOK

LEMMA WriteLoopStep ==
    ASSUME IInv, NEW q \in Requests, WriteLoop(q), events' \in Nat
    PROVE  IInv'
<1> USE Basics
<1>1. q \in Known
  BY DEF WriteLoop, Stage, Known, At, NoCheck
<1> DEFINE r == request[q].ask.run
           row == [runs[r] EXCEPT !.last = request[q].ask.signature,
                                  !.repeat = check[q].repeat]
           p == Onward(check[q].over \/ check[q].repeat >= LoopThreshold)
           rec == [check[q] EXCEPT !.point = p]
<1>2. r \in Runs /\ runs[r] \in Run /\ check[q].repeat \in Nat /\ check[q].over \in BOOLEAN
  BY <1>1, AskRun DEF TypeOK, Check
<1>3. row \in Run /\ row.steps = runs[r].steps /\ row.cost = runs[r].cost
      /\ row.status = runs[r].status
  BY <1>1, <1>2, AskRun DEF Run
<1>4. p \in {"kill", "budget"} /\ (p = "budget" => ~check[q].over)
  BY DEF Onward
<1>5. rec \in Check /\ rec.point = p /\ rec.over = check[q].over
  BY <1>4 DEF Check
<1>6. runs' = [runs EXCEPT ![r] = row]
  BY DEF WriteLoop, TypeOK
<1>7. check' = [check EXCEPT ![q] = rec]
  BY DEF WriteLoop, Checks, TypeOK
<1> HIDE DEF row, rec, p
<1>8. runs' \in [Runs -> Run] /\ TotalsStay /\ KillsStand
  <2>1. row.steps <= runs[r].steps /\ row.cost <= runs[r].cost
    BY <1>2, <1>3, Numbers
  <2> QED BY <1>2, <1>3, <1>6, <2>1, RowSettles
<1>9. /\ request' = request /\ ingest' = ingest /\ spent' = spent
      /\ UNCHANGED <<config, ledger, cache>> /\ check[q].point = "loop"
  BY DEF WriteLoop
<1>10. Metered'
  BY <1>4, <1>5, <1>7, <1>8, <1>9, CheckMetered
<1>11. ~request[q].doomed
  BY <1>1, <1>9 DEF Stopped
<1> QED BY <1>4, <1>5, <1>7, <1>8, <1>9, <1>10, <1>11, CheckMove

LEMMA KillRunStep ==
    ASSUME IInv, NEW q \in Requests, KillRun(q), events' \in Nat
    PROVE  IInv'
<1> USE Basics
<1>1. q \in Known
  BY DEF KillRun, Stage, Known, At, NoCheck
<1> DEFINE r == request[q].ask.run
           row == [runs[r] EXCEPT !.status = IF @ = "running" THEN "killed" ELSE @]
           rec == [check[q] EXCEPT !.point = "blocked"]
<1>2. r \in Runs /\ runs[r] \in Run
  BY <1>1, AskRun DEF TypeOK
<1>3. row \in Run /\ row.steps = runs[r].steps /\ row.cost = runs[r].cost
      /\ (runs[r].status = "killed" => row.status = "killed")
  BY <1>2 DEF Run
<1>4. rec \in Check /\ rec.point = "blocked"
  BY DEF Check
<1>5. runs' = [runs EXCEPT ![r] = row]
  BY DEF KillRun, TypeOK
<1>6. check' = [check EXCEPT ![q] = rec]
  BY DEF KillRun, Checks, TypeOK
<1> HIDE DEF row, rec
<1>7. runs' \in [Runs -> Run] /\ TotalsStay /\ KillsStand
  <2>1. row.steps <= runs[r].steps /\ row.cost <= runs[r].cost
    BY <1>2, <1>3, Numbers
  <2> QED BY <1>2, <1>3, <1>5, <2>1, RowSettles
<1>8. /\ request' = request /\ ingest' = ingest /\ spent' = spent
      /\ UNCHANGED <<config, ledger, cache>> /\ check[q].point = "kill"
  BY DEF KillRun
<1>9. Metered'
  BY <1>4, <1>6, <1>7, <1>8, CheckMetered
<1> QED BY <1>4, <1>6, <1>7, <1>8, <1>9, CheckMove

LEMMA RunsAlone ==
    ASSUME TypeOK, runs' = runs
    PROVE  runs' \in [Runs -> Run] /\ TotalsStay /\ KillsStand
BY Numbers DEF TypeOK, TotalsStay, KillsStand

LEMMA DecideStep ==
    ASSUME IInv, NEW q \in Requests, Decide(q), events' \in Nat
    PROVE  IInv'
<1> USE Basics
<1>1. q \in Known /\ check[q].point = "decide"
  BY DEF Decide, Stage, Known, At, NoCheck
<1> DEFINE a == request[q].ask
<1>2. PICK m \in Routes(a) :
        check' = [check EXCEPT ![q].point = "answered", ![q].model = m,
                               ![q].cacheable = settings.cache /\ Allowed(a),
                               ![q].watched = settings.governance]
  BY DEF Decide
<1> DEFINE c == settings.cache /\ Allowed(a)
           rec == [check[q] EXCEPT !.point = "answered", !.model = m,
                                   !.cacheable = c, !.watched = settings.governance]
<1>3. a.model \in Models /\ settings.cache \in BOOLEAN /\ settings.governance \in BOOLEAN
  BY <1>1, AskRun DEF TypeOK
<1>4. m \in Models
  BY <1>3, FinOpsAssumption DEF Routes, FinOpsAssumption
<1>5. c \in BOOLEAN
  BY <1>3
<1>6. c => (settings.governance => ~a.sensitive /\ a.risk = "low")
  BY DEF Allowed
<1>7. check' = [check EXCEPT ![q] = rec]
  BY <1>2 DEF TypeOK
<1> HIDE DEF c
<1>8. /\ rec \in Check /\ rec.point = "answered" /\ rec.model = m /\ rec.over = check[q].over
      /\ rec.cacheable = c /\ rec.watched = settings.governance
  BY <1>3, <1>4, <1>5 DEF Check
<1> HIDE DEF rec
<1>9. /\ request' = request /\ ingest' = ingest /\ spent' = spent /\ runs' = runs
      /\ UNCHANGED <<config, ledger, cache>>
  BY DEF Decide
<1>10. ~check[q].over /\ ~request[q].doomed
  BY <1>1 DEF Stage, Stopped
<1>11. Metered'
  BY <1>1, <1>7, <1>8, <1>9, <1>10, RunsAlone, CheckMetered
<1> QED BY <1>1, <1>4, <1>6, <1>7, <1>8, <1>9, <1>10, <1>11, RunsAlone, CheckMove

LEMMA CheckThrowsStep ==
    ASSUME IInv, NEW q \in Requests, CheckThrows(q), events' \in Nat
    PROVE  IInv'
<1> USE Basics
<1> DEFINE rec == [check[q] EXCEPT !.point = "thrown"]
<1>1. rec \in Check /\ rec.point = "thrown"
  BY DEF Check
<1>2. check' = [check EXCEPT ![q] = rec]
  BY DEF CheckThrows, Checks, TypeOK
<1> HIDE DEF rec
<1>3. /\ request' = request /\ ingest' = ingest /\ spent' = spent /\ runs' = runs
      /\ UNCHANGED <<config, ledger, cache>> /\ check[q].point # "none"
  BY DEF CheckThrows
<1>4. Metered'
  BY <1>1, <1>2, <1>3, RunsAlone, CheckMetered
<1> QED BY <1>1, <1>2, <1>3, <1>4, RunsAlone, CheckMove

-----------------------------------------------------------------------------
(* The reads of the limits: what is in flight is a thread or excused. *)
LEMMA FlightsBounded ==
    ASSUME IInv, request' = request, ingest' = ingest
    PROVE  /\ Excess' = Excess /\ Live' = Live
           /\ \A r : Extra(r)' = Extra(r) /\ Flight(r)' \subseteq Live \cup Extra(r)
           /\ Spenders' \subseteq Live \cup Excess
<1>1. Excess' = Excess /\ Live' = Live /\ Known' = Known
  BY DEF Excess, Live, Known, At
<1>2. \A r : Extra(r)' = Extra(r)
  BY <1>1 DEF Extra
<1>3. ASSUME NEW o \in Known, Towards(o)' \/ Spending(o)'
      PROVE  o \in Live \/ (o \in Excess /\ request[o].late)
  <2>1. o \in Requests /\ Stage(o)
    BY DEF IInv, Staged, Known
  <2>2. request[o].point \in LivePoints \/ ingest[o] \in {"asked", "inserted"}
    BY <1>3 DEF Towards, Spending, LivePoints, At
  <2> QED BY <2>1, <2>2 DEF Stage, Live, Excess, LivePoints, At
<1>4. \A r : Flight(r)' \subseteq Live \cup Extra(r)
  BY <1>1, <1>3 DEF Flight, Extra
<1>5. Spenders' \subseteq Live \cup Excess
  BY <1>1, <1>3 DEF Spenders
<1> QED BY <1>1, <1>2, <1>4, <1>5

LEMMA ReadRunStep ==
    ASSUME IInv, NEW q \in Requests, ReadRun(q), events' \in Nat
    PROVE  IInv'
<1> USE Basics
<1>1. q \in Known /\ check[q].point = "asked"
  BY DEF ReadRun, Stage, Known, At, NoCheck
<1>2. PICK r : r = request[q].ask.run
  OBVIOUS
<1>3. PICK run : run = Opened(r)
  OBVIOUS
<1>4. r \in Runs /\ request[q].ask.run = r
  BY <1>1, <1>2, AskRun
<1>5. /\ run \in Run /\ run.steps <= runs[r].steps /\ run.cost <= runs[r].cost
      /\ (runs[r].status = "killed" => run.status = "killed")
  BY <1>3, <1>4, OpenedRow
<1>6. /\ request' = request /\ ingest' = ingest /\ spent' = spent
      /\ UNCHANGED <<config, ledger, cache>> /\ runs' = [runs EXCEPT ![r] = run]
  BY <1>2, <1>3 DEF ReadRun
<1>7. runs' \in [Runs -> Run] /\ TotalsStay /\ KillsStand /\ runs'[r] = run
  BY <1>4, <1>5, <1>6, RowSettles, RowTyped
<1>8. CASE run.status = "killed"
  <2> DEFINE rec == [check[q] EXCEPT !.point = "blocked"]
  <2>1. rec \in Check /\ rec.point = "blocked"
    BY DEF Check
  <2>2. check' = [check EXCEPT ![q] = rec]
    BY <1>2, <1>3, <1>8 DEF ReadRun, Checks, TypeOK
  <2> HIDE DEF rec
  <2>3. Metered'
    BY <1>1, <1>6, <1>7, <2>1, <2>2, CheckMetered
  <2> QED BY <1>1, <1>6, <1>7, <2>1, <2>2, <2>3, CheckMove
<1>9. CASE run.status # "killed"
  <2> DEFINE a == request[q].ask
             p == IF a.signature # None THEN "loop" ELSE Onward(Over(run))
             n == IF run.last = a.signature THEN run.repeat + 1 ELSE 1
             rec == [check[q] EXCEPT !.point = p, !.over = Over(run), !.repeat = n]
  <2>1. Over(run) \in BOOLEAN /\ n \in Nat
    BY <1>5 DEF Over, Run
  <2>2. p \in {"loop", "kill", "budget"} /\ (p = "budget" => ~Over(run))
    BY DEF Onward
  <2>3. rec \in Check /\ rec.point = p /\ rec.over = Over(run)
    BY <2>1, <2>2 DEF Check
  <2>4. check' = [check EXCEPT ![q] = rec]
    BY <1>2, <1>3, <1>9 DEF ReadRun, TypeOK
  <2> HIDE DEF rec, p, n
  <2>5. ~request[q].doomed
    BY <1>1, <1>4, <1>5, <1>9 DEF Stopped
  <2>6. CASE Over(run)
    <3>1. Metered'
      BY <1>1, <1>6, <1>7, <2>2, <2>3, <2>4, <2>6, CheckMetered
    <3> QED BY <1>1, <1>6, <1>7, <2>2, <2>3, <2>4, <2>5, <3>1, CheckMove
  <2>7. CASE ~Over(run)
    <3>1. run.steps \in Nat /\ run.cost \in Nat /\ run.steps < MaxSteps /\ run.cost < MaxCost
      BY <1>4, <1>5, <2>7, Numbers DEF Over, Run
    <3>2. /\ check' \in [Requests -> Check] /\ check'[q] = rec
          /\ \A o \in Requests : o # q => check'[o] = check[o]
      BY <2>3, <2>4, Answered
    <3>3. TypeOK'
      BY <1>6, <1>7, <3>2 DEF TypeOK, config
    <3>4. Alters(q) /\ Keeps(q) /\ q \in Known'
      BY <1>1, <1>6, <3>2 DEF Alters, Same, Keeps, Excess, Known, At
    <3>5. NotSpending(q)
      BY <1>1, <1>6, <2>2, <2>3, <3>2 DEF NotSpending, Spending, At
    <3>6. \A o \in Requests : Keeps(o) /\ NotSpending(o)
      BY <3>4, <3>5, SameKeeps DEF Alters, NotSpending
    <3>7. Cardinality(Live) <= Pool /\ Cardinality(Live') <= Pool
      BY <1>6, FlightsBounded DEF IInv, Metered
    <3>8. DayCovered'
      BY <1>6, <3>3, <3>6, SpendersStay, ExcessGrows, DayStays DEF IInv, Metered, TypeOK
    <3>9. RunCovered(r)'
      <4>1. /\ Covered(run.steps, MaxSteps, 1, Flight(r)', Extra(r)')
            /\ Covered(run.cost, MaxCost, TopPrice, Flight(r)', Extra(r)')
        BY <1>4, <1>6, <3>1, <3>7, FlightsBounded, FiniteFlights, CoveredRead, Numbers
      <4> QED BY <1>7, <4>1 DEF RunCovered, Covered
    <3>10. ASSUME NEW o \in Runs, o # r PROVE RunCovered(o)'
      <4>1. q \notin Flight(o)'
        BY <1>4, <1>6, <3>10 DEF Flight
      <4>2. \A c \in Requests : c # q => (c \in Flight(o)' => c \in Flight(o))
        BY <1>6, <3>2 DEF Flight, Towards, Known, At
      <4>3. Flight(o)' \subseteq Flight(o)
        BY <4>1, <4>2 DEF Flight, Known
      <4>4. Extra(o) \subseteq Extra(o)'
        BY <1>6, FlightsBounded
      <4> QED BY <1>7, <3>3, <4>3, <4>4, RunStays DEF IInv, Metered, TotalsStay
    <3>11. Metered'
      BY <3>7, <3>8, <3>9, <3>10 DEF Metered
    <3> QED BY <1>1, <1>6, <1>7, <2>2, <2>3, <2>4, <2>5, <3>11, CheckMove
  <2> QED BY <2>6, <2>7
<1> QED BY <1>8, <1>9

LEMMA ReadBudgetStep ==
    ASSUME IInv, NEW q \in Requests, ReadBudget(q), events' \in Nat
    PROVE  IInv'
<1> USE Basics
<1>1. q \in Known /\ check[q].point = "budget" /\ ~check[q].over /\ ~request[q].doomed
  BY DEF ReadBudget, Stage, Stopped, Known, At, NoCheck
<1> DEFINE p == IF spent >= HardLimit THEN "blocked" ELSE "decide"
           rec == [check[q] EXCEPT !.point = p]
<1>2. rec \in Check /\ rec.point = p /\ rec.over = check[q].over
  BY DEF Check
<1>3. check' = [check EXCEPT ![q] = rec]
  BY DEF ReadBudget, Checks, TypeOK
<1> HIDE DEF rec
<1>4. /\ request' = request /\ ingest' = ingest /\ spent' = spent /\ runs' = runs
      /\ UNCHANGED <<config, ledger, cache>>
  BY DEF ReadBudget
<1>5. runs' \in [Runs -> Run] /\ TotalsStay /\ KillsStand
  BY <1>4, RunsAlone
<1>6. CASE spent >= HardLimit
  <2>1. Metered'
    BY <1>1, <1>2, <1>3, <1>4, <1>5, <1>6, CheckMetered
  <2> QED BY <1>1, <1>2, <1>3, <1>4, <1>5, <1>6, <2>1, CheckMove
<1>7. CASE ~(spent >= HardLimit)
  <2>1. /\ check' \in [Requests -> Check] /\ check'[q] = rec
        /\ \A o \in Requests : o # q => check'[o] = check[o]
    BY <1>2, <1>3, Answered
  <2>2. TypeOK'
    BY <1>4, <2>1 DEF TypeOK, config
  <2>3. Alters(q) /\ Keeps(q) /\ NotTowards(q)
    BY <1>1, <1>2, <1>4, <2>1
    DEF Alters, Same, Keeps, Excess, Known, At, NotTowards, Towards
  <2>4. \A o \in Requests : Keeps(o) /\ NotTowards(o)
    BY <2>3, SameKeeps DEF Alters, NotTowards
  <2>5. \A r \in Runs : RunCovered(r)'
    <3>1. \A r : Flight(r)' \subseteq Flight(r) /\ Extra(r) \subseteq Extra(r)'
      BY <2>4, FlightStays, ExcessGrows
    <3> QED BY <1>5, <2>2, <3>1, RunStays DEF IInv, Metered, TotalsStay
  <2>6. Cardinality(Live) <= Pool /\ Cardinality(Live') <= Pool
    BY <1>4, FlightsBounded DEF IInv, Metered
  <2>7. spent \in Nat /\ HardLimit \in Nat /\ TopPrice \in Nat /\ spent < HardLimit
    BY <1>7, FinOpsAssumption DEF TypeOK, FinOpsAssumption
  <2>8. Covered(spent, HardLimit, TopPrice, Spenders', Excess')
    BY <1>4, <2>6, <2>7, FlightsBounded, FiniteFlights, CoveredRead
  <2>9. Metered'
    BY <1>4, <2>5, <2>6, <2>8 DEF Metered, DayCovered, Covered
  <2> QED BY <1>1, <1>2, <1>3, <1>4, <1>5, <2>9, <1>7, CheckMove
<1> QED BY <1>6, <1>7

-----------------------------------------------------------------------------
(* The charges. *)
States == {"none", "asked", "inserted", "done", "thrown", "torn"}

LEMMA Charging ==
    ASSUME IInv, NEW q \in Requests, ingest[q] \in {"asked", "inserted"}
    PROVE  /\ q \in Known /\ request[q].ask.run \in Runs
           /\ request[q].point \notin {"checking", "lookup", "calling"}
           /\ Cost(q) \in 0 .. TopPrice /\ Cost(q) \in Nat
<1> USE Basics
<1>1. q \in Known
  BY DEF Stage, Known, At
<1>2. request[q].model \in Models
  BY <1>1, AskRun DEF Request
<1>3. Cost(q) \in 0 .. TopPrice /\ TopPrice \in Nat
  BY <1>2, FinOpsAssumption DEF FinOpsAssumption, Cost
<1> QED BY <1>1, <1>3, AskRun DEF Stage, At

LEMMA IngestMove ==
    ASSUME IInv, NEW q \in Requests, ingest[q] \in {"asked", "inserted"},
           NEW s \in States, ingest' = [ingest EXCEPT ![q] = s],
           request' = request, check' = check, cache' = cache, UNCHANGED config,
           runs' \in [Runs -> Run], KillsStand, ledger' \in [Runs -> Nat],
           spent' \in Nat, events' \in Nat, Metered'
    PROVE  IInv'
<1> USE Basics
<1>1. /\ ingest' \in [Requests -> States] /\ ingest'[q] = s
      /\ \A o \in Requests : o # q => ingest'[o] = ingest[o]
  BY DEF TypeOK, States
<1>2. TypeOK'
  BY <1>1 DEF TypeOK, config, States
<1>3. Alters(q) /\ Settled(q)
  BY <1>1 DEF Alters, Same, Settled
<1>4. Stage(q)'
  BY <1>1, Charging DEF Stage, Known, At
<1>5. Stopped(q)'
  <2>1. SUFFICES ASSUME request[q].doomed PROVE Stopped(q)'
    BY DEF Stopped
  <2>2. q \in Known /\ request[q].ask.run \in Runs
    BY Charging
  <2>3. /\ runs[request[q].ask.run].status = "killed"
        /\ check[q].point \in {"none", "asked", "blocked", "thrown"}
        /\ request[q].open \/ request[q].point \in
             {"checking", "blocked", "failed", "refused", "lost"}
    BY <2>1, <2>2 DEF Stopped
  <2>4. runs'[request[q].ask.run].status = "killed"
    BY <2>2, <2>3 DEF KillsStand
  <2> QED BY <2>3, <2>4 DEF Stopped
<1>6. Judged(q)'
  <2>1. q \in Known /\ request[q].hit => Sound(request[q].text, request[q].ask.space)
    BY DEF Judged
  <2>2. PICK p, space : p = request[q].text /\ space = request[q].ask.space
    OBVIOUS
  <2>3. request[q].hit => Sound(p, space)'
    BY <1>3, <2>1, <2>2, Charging, SoundStays
  <2>4. q \in Known' => q \in Known
    BY DEF Known, At
  <2> QED BY <2>2, <2>3, <2>4 DEF Judged, Clean, Sound
<1>7. Cached'
  BY <1>3, CachedOne
<1> QED BY <1>2, <1>3, <1>4, <1>5, <1>6, <1>7, OneSettles

LEMMA InsertCallStep ==
    ASSUME IInv, NEW q \in Requests, InsertCall(q), events' \in Nat
    PROVE  IInv'
<1> USE Basics
<1>1. PICK r : r = request[q].ask.run
  OBVIOUS
<1>2. /\ ingest[q] = "asked" /\ ingest' = [ingest EXCEPT ![q] = "inserted"]
      /\ request' = request /\ check' = check /\ cache' = cache /\ UNCHANGED config
      /\ runs' = [runs EXCEPT ![r] = Opened(r)]
      /\ ledger' = [ledger EXCEPT ![r] = ledger[r] + Cost(q)]
      /\ spent' = spent + Cost(q)
  BY <1>1 DEF InsertCall, TypeOK
<1>3. q \in Known /\ r \in Runs /\ Cost(q) \in Nat /\ Cost(q) \in 0 .. TopPrice
  BY <1>1, <1>2, Charging
<1>4. runs' \in [Runs -> Run] /\ KillsStand /\ TotalsStay
  BY <1>2, <1>3, OpenedRow, RowSettles
<1>5. ledger' \in [Runs -> Nat] /\ spent' \in Nat
  BY <1>2, <1>3 DEF TypeOK
<1>6. /\ ingest' \in [Requests -> States] /\ ingest'[q] = "inserted"
      /\ \A o \in Requests : o # q => ingest'[o] = ingest[o]
  BY <1>2 DEF TypeOK, States
<1>7. TypeOK'
  BY <1>2, <1>4, <1>5, <1>6 DEF TypeOK, config, States
<1>8. Alters(q) /\ Keeps(q) /\ NotTowards(q)
  BY <1>2, <1>3, <1>6 DEF Alters, Same, Keeps, Excess, Known, At, NotTowards, Towards
<1>9. \A o \in Requests : Keeps(o) /\ NotTowards(o)
  BY <1>8, SameKeeps DEF Alters, NotTowards
<1>10. \A r2 \in Runs : RunCovered(r2)'
  <2>1. \A r2 : Flight(r2)' \subseteq Flight(r2) /\ Extra(r2) \subseteq Extra(r2)'
    BY <1>9, FlightStays, ExcessGrows
  <2> QED BY <1>4, <1>7, <2>1, RunStays DEF IInv, Metered, TotalsStay
<1>11. Excess' = Excess /\ Live' = Live
  BY <1>2 DEF Excess, Live, Known, At
<1>12. Spenders' \subseteq Spenders \ {q} /\ q \in Spenders
  <2>1. q \in Spenders /\ q \notin Spenders'
    BY <1>2, <1>3, <1>6, Charging DEF Spenders, Spending, At
  <2>2. \A o \in Requests : o # q => (o \in Spenders' => o \in Spenders)
    BY <1>2, <1>6 DEF Spenders, Spending, Known, At
  <2> QED BY <2>1, <2>2 DEF Spenders, Known
<1>13. DayCovered'
  <2>1. /\ IsFiniteSet(Spenders) /\ IsFiniteSet(Excess) /\ IsFiniteSet(Spenders \ {q})
        /\ spent \in Nat /\ HardLimit \in Nat /\ TopPrice \in Nat
    BY FiniteFlights, FS_Subset, FinOpsAssumption DEF TypeOK, FinOpsAssumption
  <2>2. Covered(spent + Cost(q), HardLimit, TopPrice, Spenders \ {q}, Excess)
    BY <1>3, <1>12, <2>1, CoveredPays DEF IInv, Metered, DayCovered
  <2>3. Covered(spent', HardLimit, TopPrice, Spenders \ {q}, Excess)
    BY <1>2, <2>2
  <2>4. Covered(spent', HardLimit, TopPrice, Spenders', Excess)
    BY <1>5, <1>12, <2>1, <2>3, CoveredStays
  <2> QED BY <1>11, <2>4 DEF DayCovered, Covered
<1>14. Metered'
  BY <1>10, <1>11, <1>13 DEF Metered, IInv
<1> QED BY <1>2, <1>4, <1>5, <1>14, IngestMove DEF States

LEMMA UpdateRunStep ==
    ASSUME IInv, NEW q \in Requests, UpdateRun(q), events' \in Nat
    PROVE  IInv'
<1> USE Basics
<1>1. PICK r : r = request[q].ask.run
  OBVIOUS
<1>2. ingest[q] = "inserted"
  BY DEF UpdateRun
<1>3. q \in Known /\ r \in Runs /\ Cost(q) \in Nat /\ Cost(q) \in 0 .. TopPrice
  BY <1>1, <1>2, Charging
<1> DEFINE row == [runs[r] EXCEPT !.steps = @ + 1, !.cost = @ + Cost(q)]
<1>4. /\ row \in Run /\ row.steps = runs[r].steps + 1 /\ row.cost = runs[r].cost + Cost(q)
      /\ row.status = runs[r].status
  <2>1. /\ runs[r] \in Run /\ runs[r].steps + 1 \in Nat
        /\ runs[r].cost + Cost(q) \in Nat
    BY <1>3, Numbers DEF TypeOK
  <2> QED BY <2>1 DEF Run
<1>5. /\ ingest' = [ingest EXCEPT ![q] = "done"]
      /\ request' = request /\ check' = check /\ cache' = cache /\ UNCHANGED config
      /\ runs' = [runs EXCEPT ![r] = row] /\ ledger' = ledger /\ spent' = spent
  BY <1>1 DEF UpdateRun, TypeOK
<1> HIDE DEF row
<1>6. /\ runs' \in [Runs -> Run] /\ runs'[r] = row
      /\ \A o \in Runs : o # r => runs'[o] = runs[o]
  BY <1>3, <1>4, <1>5, RowTyped
<1>7. KillsStand /\ ledger' \in [Runs -> Nat] /\ spent' \in Nat
  BY <1>4, <1>5, <1>6 DEF KillsStand, TypeOK
<1>8. /\ ingest' \in [Requests -> States] /\ ingest'[q] = "done"
      /\ \A o \in Requests : o # q => ingest'[o] = ingest[o]
  BY <1>5 DEF TypeOK, States
<1>9. TypeOK'
  BY <1>5, <1>6, <1>7, <1>8 DEF TypeOK, config, States
<1>10. Excess' = Excess /\ Live' = Live /\ \A o : Extra(o)' = Extra(o)
  BY <1>5 DEF Excess, Live, Extra, Known, At
<1>11. DayCovered'
  <2>1. Spenders' \subseteq Spenders
    BY <1>5, <1>8 DEF Spenders, Spending, Known, At
  <2>2. spent' <= spent
    BY <1>5 DEF TypeOK
  <2> QED BY <1>9, <1>10, <2>1, <2>2, DayStays DEF IInv, Metered
<1>12. q \notin Flight(r)' /\ q \in Flight(r)
  BY <1>1, <1>2, <1>3, <1>5, <1>8, Charging DEF Flight, Towards, At
<1>13. \A o : Flight(o)' \subseteq Flight(o)
  BY <1>2, <1>5, <1>8 DEF Flight, Towards, Known, At
<1>14. RunCovered(r)'
  <2>1. /\ IsFiniteSet(Flight(r)) /\ IsFiniteSet(Extra(r)) /\ RunCovered(r)
        /\ IsFiniteSet(Flight(r) \ {q}) /\ Flight(r)' \subseteq Flight(r) \ {q}
    BY <1>3, <1>12, <1>13, FiniteFlights, FS_Subset DEF IInv, Metered
  <2>2. 1 \in 0 .. 1
    OBVIOUS
  <2>3. /\ Covered(runs[r].steps + 1, MaxSteps, 1, Flight(r) \ {q}, Extra(r))
        /\ Covered(runs[r].cost + Cost(q), MaxCost, TopPrice, Flight(r) \ {q}, Extra(r))
    BY <1>3, <1>12, <2>1, <2>2, Numbers, CoveredPays DEF RunCovered
  <2>4. /\ Covered(row.steps, MaxSteps, 1, Flight(r) \ {q}, Extra(r))
        /\ Covered(row.cost, MaxCost, TopPrice, Flight(r) \ {q}, Extra(r))
    BY <1>4, <2>3
  <2>5. row.steps \in Nat /\ row.cost \in Nat
    BY <1>4 DEF Run
  <2>6. /\ Covered(row.steps, MaxSteps, 1, Flight(r)', Extra(r))
        /\ Covered(row.cost, MaxCost, TopPrice, Flight(r)', Extra(r))
    BY <1>3, <2>1, <2>4, <2>5, Numbers, CoveredStays
  <2> QED BY <1>6, <1>10, <2>6 DEF RunCovered, Covered
<1>15. ASSUME NEW o \in Runs, o # r PROVE RunCovered(o)'
  <2>1. /\ runs'[o].steps <= runs[o].steps /\ runs'[o].cost <= runs[o].cost
        /\ Extra(o) \subseteq Extra(o)'
    BY <1>6, <1>10, <1>15, Numbers
  <2> QED BY <1>9, <1>13, <2>1, RunStays DEF IInv, Metered
<1>16. Metered'
  BY <1>10, <1>11, <1>14, <1>15 DEF Metered, IInv
<1> QED BY <1>2, <1>5, <1>6, <1>7, <1>16, IngestMove DEF States

LEMMA IngestThrowsStep ==
    ASSUME IInv, NEW q \in Requests, IngestThrows(q), events' \in Nat
    PROVE  IInv'
<1> USE Basics
<1>1. PICK s \in {"thrown", "torn"} : ingest' = [ingest EXCEPT ![q] = s]
  BY DEF IngestThrows
<1>2. /\ ingest[q] \in {"asked", "inserted"} /\ request' = request /\ check' = check
      /\ cache' = cache /\ UNCHANGED config /\ runs' = runs /\ ledger' = ledger
      /\ spent' = spent
  BY DEF IngestThrows
<1>3. runs' \in [Runs -> Run] /\ TotalsStay /\ KillsStand
  BY <1>2, RunsAlone
<1>4. /\ ingest' \in [Requests -> States] /\ ingest'[q] = s
      /\ \A o \in Requests : o # q => ingest'[o] = ingest[o]
  BY <1>1 DEF TypeOK, States
<1>5. TypeOK'
  BY <1>2, <1>4 DEF TypeOK, config, States
<1>6. Alters(q) /\ Keeps(q) /\ NotTowards(q) /\ NotSpending(q)
  BY <1>2, <1>4, Charging
  DEF Alters, Same, Keeps, Excess, Known, At, NotTowards, NotSpending, Towards, Spending
<1>7. Metered'
  BY <1>2, <1>3, <1>5, <1>6, LiveOne, MeteredOne DEF TypeOK
<1> QED BY <1>1, <1>2, <1>3, <1>7, IngestMove DEF TypeOK, States

-----------------------------------------------------------------------------
(* Everybody else. *)
LEMMA Aside ==
    ASSUME IInv, request' = request, check' = check, ingest' = ingest,
           cache' \subseteq cache, TypeOK', KillsStand, TotalsStay, spent' <= spent
    PROVE  IInv'
<1>1. \A o \in Requests : Same(o)
  BY DEF Same
<1>2. Staged'
  BY <1>1 DEF IInv, Staged, Stage, Same, Known, At
<1>3. \A o \in Requests : Keeps(o) /\ NotTowards(o) /\ NotSpending(o)
  BY <1>1, SameKeeps DEF NotTowards, NotSpending
<1>4. Live' = Live /\ Known' = Known
  BY DEF Live, Known, At
<1>5. Metered'
  BY <1>3, <1>4, MeteredStays DEF IInv, Metered
<1>6. ASSUME NEW q \in Requests PROVE Stopped(q)'
  <2>1. SUFFICES ASSUME q \in Known, request[q].doomed PROVE Stopped(q)'
    BY <1>4 DEF Stopped
  <2>2. Stopped(q) /\ request[q].ask.run \in Runs
    BY <2>1, AskRun DEF IInv
  <2>3. runs'[request[q].ask.run].status = "killed"
    BY <2>1, <2>2 DEF KillsStand, Stopped
  <2> QED BY <2>1, <2>2, <2>3 DEF Stopped
<1>7. ASSUME NEW p, NEW space, Sound(p, space) PROVE Sound(p, space)'
  BY <1>4, <1>7 DEF Sound, At, Clean
<1>8. Cached'
  BY <1>7 DEF IInv, Cached
<1>9. ASSUME NEW q \in Requests PROVE Judged(q)'
  <2>1. Judged(q)
    BY DEF IInv
  <2>2. PICK p, space : p = request[q].text /\ space = request[q].ask.space
    OBVIOUS
  <2>3. q \in Known /\ request[q].hit => Sound(p, space)'
    BY <1>7, <2>1, <2>2 DEF Judged
  <2> QED BY <1>4, <2>1, <2>2, <2>3 DEF Judged, Clean, Sound
<1> QED BY <1>2, <1>5, <1>6, <1>8, <1>9 DEF IInv

LEMMA EndRunStep ==
    ASSUME IInv, NEW r \in Runs, EndRun(r), events' \in Nat
    PROVE  IInv'
<1>1. TypeOK
  BY DEF IInv
<1> DEFINE row == [runs[r] EXCEPT !.status = "ended"]
<1>2. runs[r] \in Run /\ runs[r].status # "killed"
  BY <1>1 DEF TypeOK, EndRun
<1>3. row \in Run /\ row.steps = runs[r].steps /\ row.cost = runs[r].cost
  BY <1>2 DEF Run
<1>4. runs' = [runs EXCEPT ![r] = row]
  BY <1>1 DEF EndRun, TypeOK
<1> HIDE DEF row
<1>5. row.steps <= runs[r].steps /\ row.cost <= runs[r].cost
  BY <1>1, <1>3, Numbers
<1>6. runs' \in [Runs -> Run] /\ TotalsStay /\ KillsStand
  BY <1>1, <1>2, <1>3, <1>4, <1>5, RowSettles
<1>7. TypeOK' /\ request' = request /\ check' = check /\ ingest' = ingest
      /\ cache' = cache /\ spent' <= spent
  BY <1>1, <1>6 DEF TypeOK, EndRun, config
<1> QED BY <1>6, <1>7, Aside

LEMMA GatewayRestartsStep ==
    ASSUME IInv, GatewayRestarts, events' \in Nat
    PROVE  IInv'
<1>1. TypeOK
  BY DEF IInv
<1> DEFINE lost(q) == [request[q] EXCEPT !.point = "lost",
                                         !.late = @ \/ At(q, "reporting")]
<1>2. \A q \in Requests : request'[q] = IF q \in Live THEN lost(q) ELSE request[q]
  BY DEF GatewayRestarts
<1>3. ASSUME NEW q \in Live
      PROVE  /\ request[q] \in Request /\ q \in Known /\ lost(q) \in Request
             /\ lost(q).point = "lost" /\ lost(q).ask = request[q].ask
             /\ lost(q).hit = request[q].hit /\ lost(q).text = request[q].text
             /\ lost(q).open = request[q].open /\ lost(q).doomed = request[q].doomed
             /\ lost(q).late = (request[q].late \/ At(q, "reporting"))
             /\ lost(q).cacheable = request[q].cacheable
             /\ lost(q).watched = request[q].watched
  <2>1. request[q] \in Request /\ q \in Known
    BY <1>1, KnownTyped DEF Live, At, LivePoints
  <2>2. (request[q].late \/ At(q, "reporting")) \in BOOLEAN
    BY <2>1 DEF Request, At
  <2> QED BY <2>1, <2>2 DEF Request, Points
<1> HIDE DEF lost
<1>4. ASSUME NEW q \in Requests, q \notin Live PROVE request'[q] = request[q]
  BY <1>2, <1>4
<1>5. ASSUME NEW q \in Live
      PROVE  /\ request'[q] \in Request /\ q \in Known /\ q \in Known'
             /\ request'[q].point = "lost" /\ request'[q].ask = request[q].ask
             /\ request'[q].hit = request[q].hit /\ request'[q].text = request[q].text
             /\ request'[q].open = request[q].open
             /\ request'[q].doomed = request[q].doomed
             /\ (request[q].late \/ At(q, "reporting") => request'[q].late)
             /\ request'[q].cacheable = request[q].cacheable
             /\ request'[q].watched = request[q].watched
  <2>1. q \in Requests /\ request'[q] = lost(q)
    BY <1>2 DEF Live
  <2> QED BY <1>3, <2>1 DEF Known, At
<1>6. /\ check' = check /\ ingest' = ingest /\ runs' = runs /\ spent' = spent
      /\ deployed' = deployed /\ settings' = settings /\ ledger' = ledger
      /\ cache' \subseteq cache
  BY DEF GatewayRestarts, config
<1>7. request' \in [Requests -> Request \cup {Unsent}]
  <2>1. \A q \in Requests : request'[q] \in Request \cup {Unsent}
    BY <1>1, <1>4, <1>5 DEF TypeOK
  <2>2. request' = [q \in Requests |-> request'[q]]
    BY DEF GatewayRestarts
  <2> QED BY <2>1, <2>2
<1>8. TypeOK'
  BY <1>1, <1>6, <1>7 DEF TypeOK
<1>9. ASSUME NEW q \in Requests, q \notin Live PROVE Same(q)
  BY <1>4, <1>6, <1>9 DEF Same
<1>10. ASSUME NEW q \in Requests PROVE Stage(q)'
  <2>1. Stage(q)
    BY DEF IInv, Staged
  <2>2. CASE q \in Live
    BY <1>5, <1>6, <2>1, <2>2 DEF Stage, Known, At
  <2>3. CASE q \notin Live
    BY <1>9, <2>1, <2>3 DEF Stage, Same, Known, At
  <2> QED BY <2>2, <2>3
<1>11. ASSUME NEW q \in Requests PROVE Stopped(q)'
  <2>1. Stopped(q)
    BY DEF IInv
  <2>2. CASE q \in Live
    BY <1>5, <1>6, <2>1, <2>2 DEF Stopped
  <2>3. CASE q \notin Live
    BY <1>6, <1>9, <2>1, <2>3 DEF Stopped, Same, Known, At
  <2> QED BY <2>2, <2>3
<1>12. ASSUME NEW p, NEW space, Sound(p, space) PROVE Sound(p, space)'
  <2>1. p \in Requests /\ p \notin Live
    BY <1>12 DEF Sound, Live, LivePoints, Known, At
  <2> QED BY <1>12, <1>4, <2>1 DEF Sound, Known, At, Clean
<1>13. Cached'
  BY <1>6, <1>12 DEF IInv, Cached
<1>14. ASSUME NEW q \in Requests PROVE Judged(q)'
  <2>1. /\ Judged(q) /\ request'[q].hit = request[q].hit
        /\ request'[q].text = request[q].text /\ request'[q].ask = request[q].ask
        /\ request'[q].open = request[q].open
        /\ request'[q].cacheable = request[q].cacheable
        /\ request'[q].watched = request[q].watched /\ (q \in Known' => q \in Known)
    BY <1>4, <1>5 DEF IInv, Known, At
  <2>2. PICK p, space : p = request[q].text /\ space = request[q].ask.space
    OBVIOUS
  <2>3. q \in Known /\ request[q].hit => Sound(p, space)'
    BY <1>12, <2>1, <2>2 DEF Judged
  <2> QED BY <1>6, <2>1, <2>2, <2>3 DEF Judged, Clean, Sound
<1>15. ASSUME NEW q \in Requests PROVE Keeps(q) /\ NotTowards(q) /\ NotSpending(q)
  <2>1. CASE q \in Live
    BY <1>5, <1>6, <2>1
    DEF Keeps, Excess, NotTowards, NotSpending, Towards, Spending, At
  <2>2. CASE q \notin Live
    BY <1>9, <2>2, SameKeeps DEF NotTowards, NotSpending
  <2> QED BY <2>1, <2>2
<1>16. Cardinality(Live') <= Pool
  <2>1. Live' \subseteq Live
    BY <1>4 DEF Live
  <2> QED BY <2>1, LiveStays DEF IInv, Metered
<1>17. TotalsStay /\ spent' <= spent
  BY <1>1, <1>6, Numbers DEF TotalsStay, TypeOK
<1>18. Metered'
  BY <1>8, <1>15, <1>16, <1>17, MeteredStays
<1> QED BY <1>8, <1>10, <1>11, <1>13, <1>14, <1>18 DEF IInv, Staged

LEMMA AsideSteps ==
    ASSUME IInv, NewDay \/ SetCache \/ SetGovernance \/ Forget, events' \in Nat
    PROVE  IInv'
<1>1. TypeOK
  BY DEF IInv
<1>2. /\ request' = request /\ check' = check /\ ingest' = ingest /\ runs' = runs
      /\ deployed' = deployed /\ ledger' = ledger
      /\ cache' \subseteq cache /\ spent' \in Nat /\ spent' <= spent
      /\ settings' \in [cache : BOOLEAN, governance : BOOLEAN]
  <2>1. CASE NewDay
    BY <1>1, <2>1 DEF TypeOK, NewDay, config
  <2>2. CASE SetCache
    <3>1. settings' \in [cache : BOOLEAN, governance : BOOLEAN]
      <4>1. (~settings.cache) \in BOOLEAN
        OBVIOUS
      <4>2. settings \in [cache : BOOLEAN, governance : BOOLEAN]
        BY <1>1 DEF TypeOK
      <4> QED BY <2>2, <4>1, <4>2, Zenon DEF SetCache
    <3>2. spent \in Nat
      BY <1>1 DEF TypeOK
    <3> QED BY <2>2, <3>1, <3>2 DEF SetCache
  <2>3. CASE SetGovernance
    <3>1. settings' \in [cache : BOOLEAN, governance : BOOLEAN]
      <4>1. (~settings.governance) \in BOOLEAN
        OBVIOUS
      <4>2. settings \in [cache : BOOLEAN, governance : BOOLEAN]
        BY <1>1 DEF TypeOK
      <4> QED BY <2>3, <4>1, <4>2, Zenon DEF SetGovernance
    <3>2. spent \in Nat
      BY <1>1 DEF TypeOK
    <3> QED BY <2>3, <3>1, <3>2 DEF SetGovernance
  <2>4. CASE Forget
    BY <1>1, <2>4 DEF TypeOK, Forget, config
  <2> QED BY <2>1, <2>2, <2>3, <2>4
<1>3. TypeOK'
  BY <1>1, <1>2 DEF TypeOK
<1>4. TotalsStay /\ KillsStand
  BY <1>1, <1>2, RunsAlone
<1> QED BY <1>2, <1>3, <1>4, Aside

-----------------------------------------------------------------------------
LEMMA InitInv == ASSUME Init PROVE IInv
<1>1. TypeOK
  <2>1. NoRun \in Run /\ NoCheck \in Check
    BY DEF NoRun, Run, NoCheck, Check
  <2> QED BY <2>1, FinOpsAssumption DEF Init, TypeOK, FinOpsAssumption
<1>2. /\ \A q \in Requests : q \notin Known /\ request[q].point = "unsent"
      /\ Known = {} /\ Live = {} /\ Excess = {} /\ Spenders = {}
      /\ \A r : Flight(r) = {} /\ Extra(r) = {}
  <2>1. \A q \in Requests : request[q] = Unsent /\ request[q].point = "unsent"
    BY DEF Init, Unsent
  <2>2. Known = {} /\ Live = {}
    BY <2>1 DEF Known, Live, LivePoints, At
  <2> QED BY <2>1, <2>2 DEF Excess, Spenders, Flight, Extra
<1>3. Staged
  BY <1>2 DEF Staged, Stage, Init, NoCheck, At
<1>4. \A q \in Requests : Stopped(q) /\ Judged(q)
  BY <1>2 DEF Stopped, Judged
<1>5. Cached
  BY DEF Cached, Init
<1>6. /\ Cardinality({}) = 0 /\ Pool \in Nat \ {0} /\ TopPrice \in Nat
      /\ MaxSteps \in Nat \ {0} /\ MaxCost \in Nat \ {0} /\ HardLimit \in Nat \ {0}
  BY FS_EmptySet, FinOpsAssumption DEF FinOpsAssumption
<1>7. ASSUME NEW limit \in Nat \ {0}, NEW unit \in Nat PROVE Covered(0, limit, unit, {}, {})
  <2>1. unit * 0 = 0 /\ unit * (Pool + 0) \in Nat
    BY <1>6
  <2> DEFINE up == unit * (Pool + 0)
  <2> HIDE DEF up
  <2>2. 0 + 0 <= limit - 1 + up
    BY <2>1 DEF up
  <2> QED BY <1>6, <2>1, <2>2 DEF Covered, up
<1>8. ASSUME NEW r \in Runs PROVE RunCovered(r)
  <2>1. runs[r].steps = 0 /\ runs[r].cost = 0
    BY DEF Init, NoRun
  <2> QED BY <1>2, <1>6, <1>7, <2>1 DEF RunCovered
<1>9. DayCovered
  BY <1>2, <1>6, <1>7 DEF DayCovered, Init
<1>10. Metered
  BY <1>2, <1>6, <1>8, <1>9 DEF Metered
<1> QED BY <1>1, <1>3, <1>4, <1>5, <1>10 DEF IInv

LEMMA NextInv == ASSUME IInv, [Next]_vars PROVE IInv'
<1>1. CASE UNCHANGED vars
  BY <1>1 DEF vars, IInv, TypeOK, Staged, Stage, Metered, RunCovered, DayCovered,
     Covered, Live, Flight, Extra, Excess, Spenders, Towards, Spending, Stopped,
     Cached, Sound, Judged, Clean, Known, At
<1>2. CASE Next
  <2>1. events' \in Nat
    BY <1>2 DEF Next, IInv, TypeOK
  <2>2. ASSUME NEW q \in Requests, Gateway(q) PROVE IInv'
    <3>1. ASSUME NEW a \in Asks, Begin(q, a) PROVE IInv'
      BY <2>1, <3>1, BeginStep
    <3>2. CASE GetsAnswer(q) \/ GetsRefusal(q) \/ GetsError(q)
      BY <2>1, <3>2, GetsAnswerStep, GetsRefusalStep, GetsErrorStep
    <3>3. CASE Hit(q) \/ Miss(q) \/ Store(q)
      BY <2>1, <3>3, HitStep, MissStep, StoreStep
    <3>4. CASE ProviderAnswers(q)
      BY <2>1, <3>4, AnswersStep DEF ProviderAnswers
    <3>5. CASE ReportDone(q) \/ ReportFails(q)
      BY <2>1, <3>5, ReportDoneStep, ReportFailsStep
    <3> QED BY <2>2, <3>1, <3>2, <3>3, <3>4, <3>5 DEF Gateway
  <2>3. ASSUME NEW q \in Requests, ControlPlane(q) PROVE IInv'
    <3>1. CASE ReadRun(q) \/ WriteLoop(q) \/ KillRun(q)
      BY <2>1, <3>1, ReadRunStep, WriteLoopStep, KillRunStep
    <3>2. CASE ReadBudget(q) \/ Decide(q)
      BY <2>1, <3>2, ReadBudgetStep, DecideStep
    <3>3. CASE InsertCall(q) \/ UpdateRun(q)
      BY <2>1, <3>3, InsertCallStep, UpdateRunStep
    <3> QED BY <2>3, <3>1, <3>2, <3>3 DEF ControlPlane
  <2>4. CASE Event
    <3>1. ASSUME NEW q \in Requests, StopsWaiting(q) \/ CheckThrows(q) PROVE IInv'
      BY <2>1, <3>1, StopsWaitingStep, CheckThrowsStep
    <3>2. ASSUME NEW q \in Requests, ProviderFails(q) PROVE IInv'
      BY <2>1, <3>2, AnswersStep DEF ProviderFails
    <3>3. ASSUME NEW q \in Requests, ReportAbandoned(q) \/ IngestThrows(q) PROVE IInv'
      BY <2>1, <3>3, ReportAbandonedStep, IngestThrowsStep
    <3>4. ASSUME NEW r \in Runs, EndRun(r) PROVE IInv'
      BY <2>1, <3>4, EndRunStep
    <3>5. CASE NewDay \/ SetCache \/ SetGovernance \/ Forget
      BY <2>1, <3>5, AsideSteps
    <3>6. CASE GatewayRestarts
      BY <2>1, <3>6, GatewayRestartsStep
    <3> QED BY <2>4, <3>1, <3>2, <3>3, <3>4, <3>5, <3>6 DEF Event
  <2> QED BY <1>2, <2>2, <2>3, <2>4 DEF Next
<1> QED BY <1>1, <1>2

\* The inductive invariant holds in every behaviour of gateway and control plane.
THEOREM Invariant == Spec => []IInv
<1>1. Init => IInv
  BY InitInv
<1>2. IInv /\ [Next]_vars => IInv'
  BY NextInv
<1> QED BY <1>1, <1>2, PTL DEF Spec

\* Requests, handlers, rows and texts keep their shape (gateway/app.py,
\* control_plane/app.py).
THEOREM TypeCorrect == Spec => []TypeOK
<1>1. IInv => TypeOK
  BY DEF IInv
<1> QED BY <1>1, Invariant, PTL

\* A limit is passed by no more than the calls the gateway can have under way
\* and those it excused, whatever the limits, prices and number of threads
\* (control_plane/app.py precheck, ingest).
THEOREM CapsHeld == Spec => []CapsHold
<1>1. IInv => CapsHold
  <2> SUFFICES ASSUME IInv PROVE CapsHold
    OBVIOUS
  <2>1. TypeOK /\ Metered
    BY DEF IInv
  <2>2. \A r : Excused(r) = Cardinality(Extra(r)) /\ IsFiniteSet(Extra(r))
    BY FiniteFlights DEF Excused, Extra
  <2>3. ASSUME NEW r \in Runs
        PROVE  /\ runs[r].steps <= MaxSteps - 1 + Pool + Excused(r)
               /\ runs[r].cost <= MaxCost - 1 + TopPrice * (Pool + Excused(r))
    <3>1. /\ runs[r].steps <= MaxSteps - 1 + 1 * (Pool + Cardinality(Extra(r)))
          /\ runs[r].cost <= MaxCost - 1 + TopPrice * (Pool + Cardinality(Extra(r)))
      BY <2>1, Numbers, FiniteFlights, CoveredHolds DEF Metered, RunCovered
    <3>2. Pool \in Nat /\ MaxSteps \in Nat /\ Cardinality(Extra(r)) \in Nat
      BY <2>2, FS_CardinalityType, FinOpsAssumption DEF FinOpsAssumption
    <3>3. MaxSteps - 1 + 1 * (Pool + Cardinality(Extra(r)))
            = MaxSteps - 1 + Pool + Cardinality(Extra(r))
      BY <3>2
    <3> QED BY <2>2, <3>1, <3>3
  <2>4. spent <= HardLimit - 1 + TopPrice * (Pool + Cardinality(Excess))
    <3>1. spent \in Nat /\ HardLimit \in Nat /\ TopPrice \in Nat
      BY <2>1, FinOpsAssumption DEF TypeOK, FinOpsAssumption
    <3> QED BY <2>1, <3>1, FiniteFlights, CoveredHolds DEF Metered, DayCovered
  <2> QED BY <2>3, <2>4 DEF CapsHold
<1> QED BY <1>1, Invariant, PTL

\* A request of a killed run that the control plane could be asked about is
\* never served (control_plane/app.py precheck, kill_run, run_end).
THEOREM KillsHold == Spec => []KillStops
<1>1. IInv => KillStops
  BY DEF IInv, Stopped, KillStops, Known
<1> QED BY <1>1, Invariant, PTL

\* The cache gives out only texts of checked, successful calls of the same
\* scope that governance did not object to (gateway/app.py cache_key).
THEOREM CacheHolds == Spec => []CacheSound
<1>1. IInv => CacheSound
  <2> SUFFICES ASSUME IInv, NEW q \in Known, request[q].hit
               PROVE  LET p == request[q].text
                      IN  /\ p # None /\ Clean(q) /\ Clean(p)
                          /\ request[p].text = p
                          /\ request[p].ask.space = request[q].ask.space
    BY DEF CacheSound
  <2>1. /\ request[q].cacheable /\ Clean(q)
        /\ Sound(request[q].text, request[q].ask.space)
    BY DEF IInv, Judged, Known
  <2>2. request[q].text # None
    BY <2>1, FinOpsAssumption DEF FinOpsAssumption, Sound, Known
  <2> QED BY <2>1, <2>2 DEF Sound
<1> QED BY <1>1, Invariant, PTL

-----------------------------------------------------------------------------
(* The ledger: what the rows hold beyond a run's total is the sum of what  *)
(* its calls in Between cost.  The sum is any function on sets of requests *)
(* that adds a weight per member (Sums).                                   *)
Charged(q) == q \in Known /\ ingest[q] \in {"inserted", "torn"}

Sums(w, s) ==
    /\ s[{}] = 0
    /\ \A S \in SUBSET Requests : \A q \in Requests \ S : s[S \cup {q}] = s[S] + w[q]

Balanced(r, w, s) ==
    /\ w \in [Requests -> Nat] /\ s \in [SUBSET Requests -> Nat] /\ Sums(w, s)
    /\ \A q \in Between(r) : w[q] = Cost(q)
    /\ ledger[r] = runs[r].cost + s[Between(r)]

Booked(r) ==
    /\ runs[r].status = "none" => runs[r].cost = 0 /\ Between(r) = {}
    /\ \E w, s : Balanced(r, w, s)

LInv == IInv /\ \A r \in Runs : Booked(r)

\* Weights and sums that count c for q, and the others as before.
Weighed(w, s, q, c) ==
    \E v \in [Requests -> Nat], t \in [SUBSET Requests -> Nat] :
        /\ Sums(v, t) /\ v[q] = c
        /\ \A o \in Requests \ {q} : v[o] = w[o]
        /\ \A S \in SUBSET Requests : q \notin S => t[S] = s[S] /\ t[S \cup {q}] = s[S] + c

\* A weight can be changed: the sums that count it change with it.
LEMMA Reweighed ==
    ASSUME NEW w \in [Requests -> Nat], NEW s \in [SUBSET Requests -> Nat], Sums(w, s),
           NEW q \in Requests, NEW c \in Nat
    PROVE  Weighed(w, s, q, c)
<1> DEFINE v == [w EXCEPT ![q] = c]
           t == [S \in SUBSET Requests |-> IF q \in S THEN s[S \ {q}] + c ELSE s[S]]
<1>1. v \in [Requests -> Nat] /\ v[q] = c /\ \A o \in Requests \ {q} : v[o] = w[o]
  OBVIOUS
<1>2. \A S \in SUBSET Requests : S \ {q} \in SUBSET Requests /\ s[S] \in Nat /\ s[S \ {q}] \in Nat
  OBVIOUS
<1>3. t \in [SUBSET Requests -> Nat]
  BY <1>2
<1>4. \A S \in SUBSET Requests : t[S] = IF q \in S THEN s[S \ {q}] + c ELSE s[S]
  OBVIOUS
<1> HIDE DEF t, v
<1>5. ASSUME NEW S \in SUBSET Requests, NEW o \in Requests \ S
      PROVE  t[S \cup {o}] = t[S] + v[o]
  <2>1. S \cup {o} \in SUBSET Requests
    OBVIOUS
  <2>2. CASE o = q
    <3>1. (S \cup {o}) \ {q} = S
      BY <2>2
    <3> QED BY <1>1, <1>4, <2>1, <2>2, <3>1
  <2>3. CASE o # q /\ q \in S
    <3>1. (S \cup {o}) \ {q} = (S \ {q}) \cup {o} /\ o \in Requests \ (S \ {q})
      BY <2>3
    <3>2. s[(S \ {q}) \cup {o}] = s[S \ {q}] + w[o]
      BY <1>2, <3>1 DEF Sums
    <3>3. w[o] \in Nat /\ v[o] = w[o]
      BY <1>1, <2>3
    <3>4. t[S \cup {o}] = s[S \ {q}] + w[o] + c /\ t[S] = s[S \ {q}] + c
      BY <1>4, <2>1, <2>3, <3>1, <3>2
    <3> QED BY <1>2, <3>3, <3>4
  <2>4. CASE o # q /\ q \notin S
    <3>1. t[S \cup {o}] = s[S \cup {o}] /\ t[S] = s[S] /\ v[o] = w[o]
      BY <1>1, <1>4, <2>1, <2>4
    <3> QED BY <3>1 DEF Sums
  <2> QED BY <2>2, <2>3, <2>4
<1>6. Sums(v, t)
  <2>1. t[{}] = 0
    BY <1>4 DEF Sums
  <2> QED BY <1>5, <2>1 DEF Sums
<1>7. ASSUME NEW S \in SUBSET Requests, q \notin S
      PROVE  t[S] = s[S] /\ t[S \cup {q}] = s[S] + c
  <2>1. (S \cup {q}) \ {q} = S /\ S \cup {q} \in SUBSET Requests
    BY <1>7
  <2> QED BY <1>4, <1>7, <2>1
<1> QED BY <1>1, <1>3, <1>6, <1>7 DEF Weighed

\* A step that leaves the charged calls and the totals alone.
Undisturbed(q) ==
    /\ Charged(q)' => Charged(q)
    /\ Charged(q) => /\ Charged(q)' /\ request'[q].ask = request[q].ask
                     /\ request'[q].hit = request[q].hit
                     /\ request'[q].model = request[q].model

LEMMA BookStays ==
    ASSUME LInv, NEW r \in Runs, \A q \in Requests : Undisturbed(q),
           ledger'[r] = ledger[r], runs'[r].cost = runs[r].cost,
           runs'[r].status = "none" => runs[r].status = "none"
    PROVE  Booked(r)'
<1>1. Booked(r)
  BY DEF LInv
<1>2. Between(r)' = Between(r)
  BY DEF Between, Undisturbed, Charged, Known
<1>3. \A q \in Between(r) : Cost(q)' = Cost(q)
  <2> TAKE q \in Between(r)
  <2>1. q \in Requests /\ Charged(q)
    BY DEF Between, Charged, Known
  <2>2. request'[q].hit = request[q].hit /\ request'[q].model = request[q].model
    BY <2>1 DEF Undisturbed
  <2> QED BY <2>2 DEF Cost
<1>4. PICK w, s : Balanced(r, w, s)
  BY <1>1 DEF Booked
<1>5. Balanced(r, w, s)'
  BY <1>2, <1>3, <1>4 DEF Balanced
<1> QED BY <1>1, <1>2, <1>5 DEF Booked

\* A step of one request whose ingest is not between its statements.
LEMMA OneUndisturbed ==
    ASSUME NEW q \in Requests,
           \A o \in Requests \ {q} : request'[o] = request[o] /\ ingest'[o] = ingest[o],
           Undisturbed(q)
    PROVE  \A o \in Requests : Undisturbed(o)
BY DEF Undisturbed, Charged, Known, At

LEMMA GatewayBooks ==
    ASSUME LInv, NEW q \in Requests,
           \/ \E a \in Asks : Begin(q, a)
           \/ GetsAnswer(q) \/ GetsRefusal(q) \/ GetsError(q) \/ StopsWaiting(q)
           \/ Hit(q) \/ Miss(q) \/ \E text : Answers(q, text)
           \/ ReportDone(q) \/ ReportFails(q) \/ ReportAbandoned(q) \/ Store(q)
    PROVE  \A r \in Runs : Booked(r)'
<1>0. TypeOK /\ Stage(q)
  BY DEF LInv, IInv, Staged
<1>1. UNCHANGED <<ledger, runs>>
  BY DEF Begin, GetsAnswer, GetsRefusal, GetsError, StopsWaiting, Hit, Miss, Answers,
     ReportDone, ReportFails, ReportAbandoned, Store
<1>2. CASE \/ \E a \in Asks : Begin(q, a)
           \/ GetsAnswer(q) \/ GetsRefusal(q) \/ GetsError(q) \/ StopsWaiting(q)
  <2>1. ingest' = ingest /\ ingest[q] = "none"
    BY <1>0, <1>2 DEF Begin, GetsAnswer, GetsRefusal, GetsError, StopsWaiting, Stage
  <2>2. \A o \in Requests \ {q} : request'[o] = request[o]
    BY <1>0, <1>2 DEF Begin, GetsAnswer, GetsRefusal, GetsError, StopsWaiting, Go, TypeOK
  <2> QED BY <1>1, <2>1, <2>2, OneUndisturbed, BookStays DEF Undisturbed, Charged
<1>3. CASE Hit(q) \/ Miss(q) \/ \E text : Answers(q, text)
  <2>1. ingest[q] = "none" /\ ingest'[q] \in {"none", "asked"}
    BY <1>0, <1>3 DEF Hit, Miss, Answers, Stage, At, TypeOK
  <2>2. \A o \in Requests \ {q} : request'[o] = request[o] /\ ingest'[o] = ingest[o]
    BY <1>0, <1>3 DEF Hit, Miss, Answers, Go, TypeOK
  <2> QED BY <1>1, <2>1, <2>2, OneUndisturbed, BookStays DEF Undisturbed, Charged
<1>4. CASE ReportDone(q) \/ ReportFails(q) \/ ReportAbandoned(q) \/ Store(q)
  <2>1. ingest' = ingest /\ ~At(q, "unsent")
    BY <1>4 DEF ReportDone, ReportFails, ReportAbandoned, Store, At
  <2>2. q \in Known /\ request[q] \in Request
    BY <1>0, <2>1, KnownTyped
  <2>3. PICK p, l : /\ p # "unsent"
                    /\ request' = [request EXCEPT ![q].point = p, ![q].late = l]
    <3>1. ASSUME NEW p, Go(q, p)
          PROVE  request' = [request EXCEPT ![q].point = p, ![q].late = request[q].late]
      BY <1>0, <2>2, <3>1 DEF Go, TypeOK, Request
    <3>2. AfterReport(q) # "unsent"
      BY DEF AfterReport
    <3>3. CASE ReportAbandoned(q)
      BY <3>2, <3>3 DEF ReportAbandoned
    <3>4. CASE ReportDone(q)
      BY <3>1, <3>2, <3>4 DEF ReportDone
    <3>5. CASE ReportFails(q)
      <4>1. Go(q, "failed")  BY <3>5 DEF ReportFails
      <4> QED BY <3>1, <4>1
    <3>6. CASE Store(q)
      <4>1. Go(q, "served")  BY <3>6 DEF Store
      <4> QED BY <3>1, <4>1
    <3> QED BY <1>4, <3>3, <3>4, <3>5, <3>6
  <2>4. /\ \A o \in Requests \ {q} : request'[o] = request[o]
        /\ request'[q].point = p /\ request'[q].ask = request[q].ask
        /\ request'[q].hit = request[q].hit /\ request'[q].model = request[q].model
    BY <1>0, <2>2, <2>3 DEF TypeOK, Request
  <2>5. Undisturbed(q)
    BY <2>1, <2>2, <2>3, <2>4 DEF Undisturbed, Charged, Known, At
  <2> QED BY <1>1, <2>1, <2>4, <2>5, OneUndisturbed, BookStays
<1> QED BY <1>2, <1>3, <1>4

LEMMA CheckBooks ==
    ASSUME LInv, NEW q \in Requests,
           ReadRun(q) \/ WriteLoop(q) \/ KillRun(q) \/ ReadBudget(q) \/ Decide(q)
             \/ CheckThrows(q)
    PROVE  \A r \in Runs : Booked(r)'
<1>0. TypeOK /\ \A r \in Runs : runs[r] \in Run /\ Booked(r)
  BY DEF LInv, IInv, TypeOK
<1>1. UNCHANGED <<request, ingest, ledger>>
  BY DEF ReadRun, WriteLoop, KillRun, ReadBudget, Decide, CheckThrows
<1>2. \A o \in Requests : Undisturbed(o)
  BY <1>1 DEF Undisturbed, Charged, Known, At
<1>3. ASSUME NEW r \in Runs
      PROVE  /\ runs'[r].cost = runs[r].cost
             /\ runs'[r].status = "none" => runs[r].status = "none"
  <2>1. CASE ReadRun(q)
    <3>1. runs' = [runs EXCEPT ![request[q].ask.run] = Opened(request[q].ask.run)]
      BY <2>1 DEF ReadRun
    <3>2. Opened(r).cost = runs[r].cost /\ Opened(r).status # "none"
      BY <1>0 DEF Opened, NoRun, Booked, Run
    <3> QED BY <1>0, <3>1, <3>2 DEF TypeOK
  <2>2. CASE WriteLoop(q)
    BY <1>0, <2>2 DEF WriteLoop, TypeOK, Run
  <2>3. CASE KillRun(q)
    BY <1>0, <2>3 DEF KillRun, TypeOK, Run
  <2>4. CASE ReadBudget(q) \/ Decide(q) \/ CheckThrows(q)
    BY <2>4 DEF ReadBudget, Decide, CheckThrows
  <2> QED BY <2>1, <2>2, <2>3, <2>4
<1> QED BY <1>1, <1>2, <1>3, BookStays

LEMMA AsideBooks ==
    ASSUME LInv,
           \/ \E r \in Runs : EndRun(r)
           \/ NewDay \/ SetCache \/ SetGovernance \/ Forget \/ GatewayRestarts
           \/ UNCHANGED vars
    PROVE  \A r \in Runs : Booked(r)'
<1>0. TypeOK /\ \A r \in Runs : runs[r] \in Run
  BY DEF LInv, IInv, TypeOK
<1>1. ingest' = ingest /\ ledger' = ledger
  BY DEF EndRun, NewDay, SetCache, SetGovernance, Forget, GatewayRestarts, vars
<1>2. ASSUME NEW o \in Requests PROVE Undisturbed(o)
  <2>1. CASE request' = request
    BY <1>1, <2>1 DEF Undisturbed, Charged, Known, At
  <2>2. CASE GatewayRestarts
    <3>1. request'[o] = IF o \in Live
                        THEN [request[o] EXCEPT !.point = "lost",
                                                !.late = @ \/ At(o, "reporting")]
                        ELSE request[o]
      BY <2>2 DEF GatewayRestarts
    <3>2. CASE o \notin Live
      BY <1>1, <3>1, <3>2 DEF Undisturbed, Charged, Known, At
    <3>3. CASE o \in Live
      <4>1. ~At(o, "unsent")
        BY <3>3 DEF Live, LivePoints, At
      <4>2. o \in Known /\ request[o] \in Request
        BY <1>0, <4>1, KnownTyped
      <4>3. /\ request'[o].point = "lost" /\ request'[o].ask = request[o].ask
            /\ request'[o].hit = request[o].hit /\ request'[o].model = request[o].model
        BY <3>1, <3>3, <4>2 DEF Request
      <4> QED BY <1>1, <4>2, <4>3 DEF Undisturbed, Charged, Known, At
    <3> QED BY <3>2, <3>3
  <2> QED BY <2>1, <2>2 DEF EndRun, NewDay, SetCache, SetGovernance, Forget, vars
<1>3. ASSUME NEW r \in Runs
      PROVE  /\ runs'[r].cost = runs[r].cost
             /\ runs'[r].status = "none" => runs[r].status = "none"
  <2>1. ASSUME NEW e \in Runs, EndRun(e)
        PROVE  /\ runs'[r].cost = runs[r].cost
               /\ runs'[r].status = "none" => runs[r].status = "none"
    BY <1>0, <2>1 DEF EndRun, TypeOK, Run
  <2> QED BY <2>1 DEF NewDay, SetCache, SetGovernance, Forget, GatewayRestarts, vars
<1> QED BY <1>1, <1>2, <1>3, BookStays

\* The statements of ingest: a row is inserted, the total follows or not.
LEMMA InsertBooks ==
    ASSUME LInv, NEW q \in Requests, InsertCall(q)
    PROVE  \A r \in Runs : Booked(r)'
<1>0. TypeOK /\ IInv /\ \A r \in Runs : runs[r] \in Run /\ Booked(r)
  BY DEF LInv, IInv, TypeOK
<1>1. PICK h : h = request[q].ask.run
  OBVIOUS
<1>2. /\ ingest[q] = "asked" /\ ingest' = [ingest EXCEPT ![q] = "inserted"]
      /\ request' = request
      /\ runs' = [runs EXCEPT ![h] = Opened(h)]
      /\ ledger' = [ledger EXCEPT ![h] = ledger[h] + Cost(q)]
  BY <1>0, <1>1 DEF InsertCall, TypeOK
<1>3. q \in Known /\ h \in Runs /\ Cost(q) \in Nat
  BY <1>0, <1>1, <1>2, Charging
<1>4. ingest'[q] = "inserted" /\ \A o \in Requests \ {q} : ingest'[o] = ingest[o]
  BY <1>0, <1>2 DEF TypeOK
<1>5. \A r \in Runs : /\ Opened(r).cost = runs[r].cost /\ Opened(r).status # "none"
                      /\ runs[r].cost \in Nat /\ ledger[r] \in Nat
  BY <1>0 DEF Opened, NoRun, Booked, Run, TypeOK
<1>6. /\ \A r \in Runs : runs'[r].cost = runs[r].cost
      /\ runs'[h].status # "none"
      /\ \A r \in Runs \ {h} : runs'[r] = runs[r] /\ ledger'[r] = ledger[r]
      /\ ledger'[h] = ledger[h] + Cost(q)
  BY <1>0, <1>2, <1>3, <1>5 DEF TypeOK
<1>7. \A o : Cost(o)' = Cost(o)
  BY <1>2 DEF Cost
<1>8. ASSUME NEW r \in Runs, r # h PROVE Booked(r)'
  <2>1. Between(r)' = Between(r)
    BY <1>1, <1>2, <1>4, <1>8 DEF Between, Known, At
  <2>2. PICK w, s : Balanced(r, w, s)
    BY <1>0 DEF Booked
  <2>3. Balanced(r, w, s)'
    BY <1>6, <1>7, <1>8, <2>1, <2>2 DEF Balanced
  <2> QED BY <1>0, <1>6, <1>8, <2>1, <2>3 DEF Booked
<1>9. Booked(h)'
  <2>1. q \notin Between(h) /\ Between(h) \in SUBSET Requests
    BY <1>2 DEF Between, Known
  <2>2. Between(h)' = Between(h) \cup {q}
    BY <1>1, <1>2, <1>3, <1>4 DEF Between, Known, At
  <2>3. PICK w, s : Balanced(h, w, s)
    BY <1>0, <1>3 DEF Booked
  <2>4. PICK v \in [Requests -> Nat], t \in [SUBSET Requests -> Nat] :
             /\ Sums(v, t) /\ v[q] = Cost(q)
             /\ \A o \in Requests \ {q} : v[o] = w[o]
             /\ \A S \in SUBSET Requests :
                  q \notin S => t[S] = s[S] /\ t[S \cup {q}] = s[S] + Cost(q)
    <3>1. /\ w \in [Requests -> Nat] /\ s \in [SUBSET Requests -> Nat] /\ Sums(w, s)
          /\ q \in Requests
      BY <1>3, <2>3 DEF Balanced, Known
    <3>2. Weighed(w, s, q, Cost(q))
      BY <1>3, <3>1, Reweighed
    <3> QED BY <3>2 DEF Weighed
  <2>5. t[Between(h) \cup {q}] = s[Between(h)] + Cost(q) /\ s[Between(h)] \in Nat
    BY <2>1, <2>3, <2>4 DEF Balanced
  <2>6. \A o \in Between(h) \cup {q} : v[o] = Cost(o)
    BY <2>1, <2>3, <2>4 DEF Balanced
  <2>7. ledger[h] = runs[h].cost + s[Between(h)]
    BY <2>3 DEF Balanced
  <2>8. ledger'[h] = runs'[h].cost + t[Between(h) \cup {q}]
    BY <1>3, <1>5, <1>6, <2>5, <2>7
  <2>9. Balanced(h, v, t)'
    BY <1>7, <2>2, <2>4, <2>6, <2>8 DEF Balanced
  <2> QED BY <1>6, <2>9 DEF Booked
<1> QED BY <1>8, <1>9

LEMMA UpdateBooks ==
    ASSUME LInv, NEW q \in Requests, UpdateRun(q)
    PROVE  \A r \in Runs : Booked(r)'
<1>0. TypeOK /\ IInv /\ \A r \in Runs : runs[r] \in Run /\ Booked(r)
  BY DEF LInv, IInv, TypeOK
<1>1. PICK h : h = request[q].ask.run
  OBVIOUS
<1>2. /\ ingest[q] = "inserted" /\ ingest' = [ingest EXCEPT ![q] = "done"]
      /\ request' = request /\ ledger' = ledger
      /\ runs' = [runs EXCEPT ![h].steps = @ + 1, ![h].cost = @ + Cost(q)]
  BY <1>1 DEF UpdateRun
<1>3. q \in Known /\ h \in Runs /\ Cost(q) \in Nat
  BY <1>0, <1>1, <1>2, Charging
<1>4. ingest'[q] = "done" /\ \A o \in Requests \ {q} : ingest'[o] = ingest[o]
  BY <1>0, <1>2 DEF TypeOK
<1>5. /\ \A r \in Runs \ {h} : runs'[r] = runs[r]
      /\ runs'[h].cost = runs[h].cost + Cost(q) /\ runs'[h].status = runs[h].status
      /\ runs[h].cost \in Nat
  BY <1>0, <1>2, <1>3 DEF TypeOK, Run
<1>6. \A o : Cost(o)' = Cost(o)
  BY <1>2 DEF Cost
<1>7. ASSUME NEW r \in Runs, r # h PROVE Booked(r)'
  <2>1. Between(r)' = Between(r)
    BY <1>1, <1>2, <1>4, <1>7 DEF Between, Known, At
  <2>2. PICK w, s : Balanced(r, w, s)
    BY <1>0 DEF Booked
  <2>3. Balanced(r, w, s)'
    BY <1>2, <1>5, <1>6, <1>7, <2>1, <2>2 DEF Balanced
  <2> QED BY <1>0, <1>5, <1>7, <2>1, <2>3 DEF Booked
<1>8. Booked(h)'
  <2>1. q \in Between(h) /\ Between(h) \in SUBSET Requests
    BY <1>1, <1>2, <1>3 DEF Between, Known
  <2>2. Between(h)' = Between(h) \ {q}
    BY <1>2, <1>3, <1>4 DEF Between, Known, At
  <2>3. PICK w, s : Balanced(h, w, s)
    BY <1>0, <1>3 DEF Booked
  <2> DEFINE B == Between(h) \ {q}
  <2>4. s[B \cup {q}] = s[B] + w[q] /\ B \cup {q} = Between(h) /\ s[B] \in Nat
    <3>1. B \in SUBSET Requests /\ q \in Requests \ B /\ B \cup {q} = Between(h)
      BY <2>1
    <3> HIDE DEF B
    <3> QED BY <2>3, <3>1 DEF Balanced, Sums
  <2>5. w[q] = Cost(q)
    BY <2>1, <2>3 DEF Balanced
  <2>6. ledger[h] = runs[h].cost + s[Between(h)]
    BY <2>3 DEF Balanced
  <2>7. ledger[h] = runs'[h].cost + s[B]
    BY <1>3, <1>5, <2>4, <2>5, <2>6
  <2>8. Balanced(h, w, s)'
    BY <1>2, <1>6, <2>2, <2>3, <2>7 DEF Balanced
  <2>9. runs[h].status # "none"
    BY <1>0, <1>3, <2>1 DEF Booked
  <2> QED BY <1>5, <2>8, <2>9 DEF Booked
<1> QED BY <1>7, <1>8

LEMMA ThrowsBooks ==
    ASSUME LInv, NEW q \in Requests, IngestThrows(q)
    PROVE  \A r \in Runs : Booked(r)'
<1>0. TypeOK
  BY DEF LInv, IInv
<1>1. UNCHANGED <<request, runs, ledger>>
  BY DEF IngestThrows
<1>2. Charged(q)' <=> Charged(q)
  BY <1>0, <1>1 DEF IngestThrows, Charged, Known, At, TypeOK
<1>3. \A o \in Requests \ {q} : request'[o] = request[o] /\ ingest'[o] = ingest[o]
  BY <1>0, <1>1 DEF IngestThrows, TypeOK
<1>4. Undisturbed(q)
  BY <1>1, <1>2 DEF Undisturbed
<1> QED BY <1>1, <1>3, <1>4, OneUndisturbed, BookStays

LEMMA InitBooks == ASSUME Init PROVE LInv
<1>1. IInv
  BY InitInv
<1> DEFINE w == [q \in Requests |-> 0]
           s == [S \in SUBSET Requests |-> 0]
<1>2. w \in [Requests -> Nat] /\ s \in [SUBSET Requests -> Nat] /\ Sums(w, s)
  BY DEF Sums
<1>3. ASSUME NEW r \in Runs PROVE Booked(r)
  <2>1. Between(r) = {} /\ runs[r].cost = 0 /\ ledger[r] = 0
    BY DEF Init, Between, Known, At, Unsent, NoRun
  <2>2. s[{}] = 0
    BY <1>2 DEF Sums
  <2> HIDE DEF w, s
  <2>3. Balanced(r, w, s)
    BY <1>2, <2>1, <2>2 DEF Balanced
  <2> QED BY <2>1, <2>3 DEF Booked
<1> QED BY <1>1, <1>3 DEF LInv

LEMMA NextBooks == ASSUME LInv, [Next]_vars PROVE LInv'
<1>1. IInv'
  BY NextInv DEF LInv
<1>2. \A r \in Runs : Booked(r)'
  <2>1. ASSUME NEW q \in Requests, Gateway(q) PROVE \A r \in Runs : Booked(r)'
    BY <2>1, GatewayBooks DEF Gateway, ProviderAnswers
  <2>2. ASSUME NEW q \in Requests, ControlPlane(q) PROVE \A r \in Runs : Booked(r)'
    BY <2>2, CheckBooks, InsertBooks, UpdateBooks DEF ControlPlane
  <2>3. CASE Event
    <3>1. ASSUME NEW q \in Requests,
                 \/ StopsWaiting(q) \/ CheckThrows(q) \/ ProviderFails(q)
                 \/ ReportAbandoned(q) \/ IngestThrows(q)
          PROVE  \A r \in Runs : Booked(r)'
      BY <3>1, GatewayBooks, CheckBooks, ThrowsBooks DEF ProviderFails
    <3> QED BY <2>3, <3>1, AsideBooks DEF Event
  <2> QED BY <2>1, <2>2, <2>3, AsideBooks DEF Next
<1> QED BY <1>1, <1>2 DEF LInv

\* The totals the limits are read from are those of the calls rows, but for
\* what stands between the two statements of ingest or was torn there,
\* whatever the prices and the number of calls (control_plane/app.py ingest).
THEOREM LedgerHolds == Spec => []LedgerAgrees
<1>1. LInv => LedgerAgrees
  <2> SUFFICES ASSUME LInv, NEW r \in Runs
               PROVE  /\ runs[r].cost <= ledger[r]
                      /\ Between(r) = {} => runs[r].cost = ledger[r]
    BY DEF LedgerAgrees
  <2>1. PICK w, s : Balanced(r, w, s)
    BY DEF LInv, Booked
  <2>2. Between(r) \in SUBSET Requests /\ runs[r].cost \in Nat
    BY DEF LInv, IInv, TypeOK, Run, Between, Known
  <2>3. /\ ledger[r] = runs[r].cost + s[Between(r)]
        /\ s[Between(r)] \in Nat /\ s[{}] = 0
    BY <2>1, <2>2 DEF Balanced, Sums
  <2> QED BY <2>2, <2>3
<1>2. LInv /\ [Next]_vars => LInv'
  BY NextBooks
<1>3. Init => LInv
  BY InitBooks
<1> QED BY <1>1, <1>2, <1>3, PTL DEF Spec

===============================================================================
