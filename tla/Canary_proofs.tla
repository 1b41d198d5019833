----------------------------- MODULE Canary_proofs -----------------------------
(***************************************************************************)
(* Canary: the candidate's traffic and its automatic promotion are earned, *)
(* decisions are recorded, and evaluations do not meet, for any number of  *)
(* deployments, calls, workers, windows and stalls.                        *)
(*                                                                         *)
(* TrafficEarned speaks of ACTIVE rows only, while the writes come from    *)
(* actors that hold an old copy of the row.  The strengthening Backed says *)
(* what each actor's copy and each actor's intention are worth in PASS     *)
(* gates; since gates are only added, it survives any interleaving.        *)
(*                                                                         *)
(* DecisionRecorded and OneEvaluation rest on the queue: QInv says that an *)
(* active job has one holder, so that a death leaves a trace, and that the *)
(* jobs of a deployment form one chain with at most one open link.         *)
(***************************************************************************)
EXTENDS Canary, TLAPS

\* A call of promote, which needs no gate.
ByHand(a) == a \in Calls /\ Kind[a] = "promote"

Backed(a) ==
    /\ At(a, "measure") => actor[a].seen <= Earned(Dep(a))
    /\ At(a, "advance") => NextTraffic(a) <= Earned(Dep(a))
    /\ At(a, "promote") \/ At(a, "recordPromote") =>
          ByHand(a) \/ MaxPct <= Earned(Dep(a))
    /\ ByHand(a) => actor[a].pc \in {"promote", "recordPromote", "done", "refused", "lost"}

\* A job that may still be delivered has not exceeded its stalls.
StallBound ==
    \A j \in JobIds : jobs[j] \in {"none", "waiting", "active"} => stalls[j] <= MaxStalled

IInv ==
    /\ TypeOK
    /\ StallBound
    /\ \A a \in Actors : Backed(a)
    /\ TrafficEarned
    /\ PromotionEarned

-----------------------------------------------------------------------------
LEMMA EvaluationType ==
    ASSUME TypeOK, NEW a \in Actors, EvaluationStep(a)
    PROVE  TypeOK'
<1> USE CanaryAssumption DEF TypeOK, rows, queue, At, Goto, Dep
<1>1. CASE Load(a)
  BY <1>1 DEF Load, ActorStates, Points
<1>2. CASE Gate(a)
  <2>1. PICK result \in Results :
          /\ passes' = [passes EXCEPT ![Dep(a)] = @ + (IF result = "PASS" THEN 1 ELSE 0)]
          /\ Goto(a, Verdict(a, result))
    BY <1>2 DEF Gate
  <2>2. Verdict(a, result) \in Points
    BY DEF Verdict, Points
  <2>3. passes' \in [Deployments -> Nat] /\ actor' \in [Actors -> ActorStates]
    BY <2>1, <2>2 DEF ActorStates
  <2> QED BY <1>2, <2>3 DEF Gate
<1>3. CASE Pause(a)
  BY <1>3 DEF Pause, Exit, ActorStates, Points, Statuses
<1>4. CASE Advance(a)
  BY <1>4 DEF Advance, NextTraffic, ActorStates, Points
<1>5. CASE Enqueue(a)
  <2>1. jobs' \in [JobIds -> JobStates]
    BY <1>5 DEF Enqueue, Added, JobStates
  <2>2. actor' \in [Actors -> ActorStates]
    BY <1>5 DEF Enqueue, Exit, ActorStates, Points
  <2> QED BY <1>5, <2>1, <2>2 DEF Enqueue
<1>6. CASE Promote(a)
  BY <1>6 DEF Promote, ActorStates, Points, Statuses
<1>7. CASE RollBack(a)
  BY <1>7 DEF RollBack, ActorStates, Points, Statuses
<1>8. CASE Record(a)
  BY <1>8 DEF Record, Exit, ActorStates, Points
<1> QED
  BY <1>1, <1>2, <1>3, <1>4, <1>5, <1>6, <1>7, <1>8 DEF EvaluationStep

LEMMA TypeStep == TypeOK /\ StallBound /\ [Next]_vars => TypeOK'
<1> SUFFICES ASSUME TypeOK, StallBound, [Next]_vars PROVE TypeOK'
  OBVIOUS
<1> USE CanaryAssumption DEF TypeOK, rows, queue, At, Goto, Dep, Actors
<1>1. ASSUME NEW c \in Calls, CallStep(c) PROVE TypeOK'
  <2>1. CASE CreateCheck(c)
    BY <2>1 DEF CreateCheck, ActorStates, Points
  <2>2. CASE CreateInsert(c)
    BY <2>2 DEF CreateInsert, ActorStates, Points, Statuses
  <2>3. CASE StartRead(c)
    BY <2>3 DEF StartRead, ActorStates, Points
  <2>4. CASE StartActivate(c)
    BY <2>4 DEF StartActivate, ActorStates, Points, Statuses
  <2>5. CASE DecisionRefused(c)
    BY <2>5 DEF DecisionRefused, ActorStates, Points
  <2>6. CASE EvaluationStep(c)
    BY <2>6, EvaluationType
  <2> QED BY <1>1, <2>1, <2>2, <2>3, <2>4, <2>5, <2>6 DEF CallStep
<1>2. ASSUME NEW c \in Calls, CallLost(c) PROVE TypeOK'
  BY <1>2 DEF CallLost, ActorStates, Points
<1>3. ASSUME NEW w \in Workers, WorkerStep(w) PROVE TypeOK'
  <2>1. ASSUME NEW j \in JobIds, Claim(w, j) PROVE TypeOK'
    <3>1. j[1] \in Deployments /\ j[2] \in 0..MaxWindow /\ j[3] \in Tries
      BY DEF JobIds, Windows
    <3> QED BY <2>1, <3>1 DEF Claim, ActorStates, Points, JobStates
  <2>2. CASE Defer(w)
    <3>1. jobs' \in [JobIds -> JobStates]
      BY <2>2 DEF Defer, Added, JobStates
    <3>2. actor' \in [Actors -> ActorStates]
      BY <2>2 DEF Defer, ActorStates, Points
    <3> QED BY <2>2, <3>1, <3>2 DEF Defer
  <2>3. CASE EvaluationStep(w)
    BY <2>3, EvaluationType
  <2>4. CASE EndJob(w)
    <3>1. jobs' \in [JobIds -> JobStates]
      BY <2>4 DEF EndJob, Forgotten, JobStates
    <3>2. actor' \in [Actors -> ActorStates]
      BY <2>4 DEF EndJob, Resting, Tries, ActorStates, Points
    <3> QED BY <2>4, <3>1, <3>2 DEF EndJob
  <2> QED BY <1>3, <2>1, <2>2, <2>3, <2>4 DEF WorkerStep
<1>4. ASSUME NEW w \in Workers, WorkerThrows(w) \/ WorkerCrash(w) PROVE TypeOK'
  <2>1. jobs' \in [JobIds -> JobStates]
    BY <1>4 DEF WorkerThrows, WorkerCrash, JobStates
  <2>2. actor' = [actor EXCEPT ![w] = Resting(Dep(w))]
    BY <1>4 DEF WorkerThrows, WorkerCrash
  <2>3. Resting(Dep(w)) \in ActorStates
    BY DEF Resting, Tries, ActorStates, Points
  <2>4. actor' \in [Actors -> ActorStates]
    BY <2>2, <2>3
  <2> QED BY <1>4, <2>1, <2>4 DEF WorkerThrows, WorkerCrash
<1>5. ASSUME NEW j \in JobIds, JobStalled(j) PROVE TypeOK'
  <2>1. jobs' \in [JobIds -> JobStates]
    BY <1>5 DEF JobStalled, JobStates
  <2>2. stalls' \in [JobIds -> 0..MaxStalled + 1]
    <3>1. stalls[j] \in 0..MaxStalled
      BY <1>5 DEF JobStalled, StallBound
    <3> QED BY <1>5, <3>1 DEF JobStalled
  <2> QED BY <1>5, <2>1, <2>2 DEF JobStalled
<1>6. CASE UNCHANGED vars
  BY <1>6 DEF vars
<1> QED BY <1>1, <1>2, <1>3, <1>4, <1>5, <1>6 DEF Next

\* Only a job that already counted below the limit becomes deliverable.
LEMMA StallStep == TypeOK /\ StallBound /\ [Next]_vars => StallBound'
<1> SUFFICES ASSUME TypeOK, StallBound, [Next]_vars,
                    NEW j \in JobIds, jobs'[j] \in {"none", "waiting", "active"}
             PROVE  stalls'[j] <= MaxStalled
  BY DEF StallBound
<1> USE CanaryAssumption DEF TypeOK, rows, queue
<1> DEFINE Kept == jobs[j] \in {"none", "waiting", "active"} /\ stalls' = stalls
<1>1. ASSUME NEW a \in Actors, EvaluationStep(a) PROVE Kept
  <2>1. CASE Enqueue(a)
    BY <2>1 DEF Enqueue, Added
  <2> QED
    BY <1>1, <2>1 DEF EvaluationStep, Load, Gate, Pause, Advance, Promote, RollBack, Record
<1>2. ASSUME NEW c \in Calls, CallStep(c) \/ CallLost(c) PROVE Kept
  <2>1. CASE EvaluationStep(c)
    BY <1>1, <2>1 DEF Actors
  <2> QED
    BY <1>2, <2>1 DEF CallStep, CreateCheck, CreateInsert, StartRead, StartActivate,
                      DecisionRefused, CallLost
<1>3. ASSUME NEW w \in Workers, WorkerStep(w) \/ WorkerThrows(w) \/ WorkerCrash(w)
      PROVE  stalls'[j] <= MaxStalled
  <2>1. CASE EvaluationStep(w)
    BY <1>1, <2>1 DEF Actors, StallBound
  <2>2. CASE Defer(w)
    BY <2>2 DEF Defer, Added, StallBound
  <2>3. ASSUME NEW i \in JobIds, Claim(w, i) PROVE stalls'[j] <= MaxStalled
    BY <2>3 DEF Claim, StallBound
  <2>4. CASE EndJob(w)
    BY <2>4 DEF EndJob, Forgotten, StallBound
  <2>5. CASE WorkerThrows(w) \/ WorkerCrash(w)
    BY <2>5 DEF WorkerThrows, WorkerCrash, StallBound
  <2> QED
    BY <1>3, <2>1, <2>2, <2>3, <2>4, <2>5 DEF WorkerStep
<1>4. ASSUME NEW i \in JobIds, JobStalled(i) PROVE stalls'[j] <= MaxStalled
  BY <1>4 DEF JobStalled, StallBound
<1>5. CASE UNCHANGED vars
  BY <1>5 DEF vars, StallBound
<1> QED
  BY <1>2, <1>3, <1>4, <1>5 DEF Next, StallBound

-----------------------------------------------------------------------------
(* What one step of actor a does to the copies, rows and records.          *)

PromotedPoints == {"recordPromote", "done", "lost"}

Earnings(a) ==
    /\ \A b \in Actors \ {a} : actor'[b] = actor[b]
    /\ ByHand(a) /\ actor[a].pc \in PromotedPoints =>
          actor'[a].pc \in PromotedPoints /\ actor'[a].dep = actor[a].dep
    /\ Backed(a)'
    /\ \A d \in Deployments :
          /\ Earned(d) <= Earned(d)'
          /\ status'[d] = "ACTIVE" =>
                \/ status[d] = "ACTIVE" /\ traffic'[d] = traffic[d]
                \/ traffic'[d] <= Earned(d)'
          /\ status'[d] = "PROMOTED" \/ "PROMOTE" \in records'[d] =>
                \/ status[d] = "PROMOTED" \/ "PROMOTE" \in records[d]
                \/ ManuallyPromoted(d)' \/ MaxPct <= Earned(d)'

LEMMA EarnedNat ==
    ASSUME TypeOK, NEW d \in Deployments
    PROVE  Earned(d) \in Nat /\ InitialPct <= Earned(d)
<1>1. ASSUME NEW m \in Nat, NEW n \in Nat PROVE m * n \in Nat
  BY <1>1
<1> QED BY <1>1, CanaryAssumption DEF Earned, TypeOK

\* A step that writes no PASS gate earns nothing and loses nothing.
LEMMA EarnedSame ==
    ASSUME TypeOK, UNCHANGED passes, NEW d \in Deployments
    PROVE  Earned(d)' = Earned(d) /\ Earned(d) <= Earned(d)'
<1> QED BY EarnedNat DEF Earned

\* Reading the row: an ACTIVE row's traffic is earned, so the copy is.
LEMMA LoadEarns ==
    ASSUME IInv, NEW a \in Actors, Load(a)
    PROVE  Earnings(a)
<1> USE DEF IInv, TypeOK, rows, queue, At, Goto, Dep
<1>1. ~ByHand(a) /\ Dep(a) \in Deployments
  BY DEF Load, Backed, ActorStates
<1>2. actor'[a].pc \in {"measure", "end", "refused"} /\ actor'[a].dep = actor[a].dep
  BY DEF Load, ActorStates
<1>3. actor'[a].pc = "measure" => status[Dep(a)] = "ACTIVE" /\ actor'[a].seen = traffic[Dep(a)]
  BY DEF Load, ActorStates
<1>4. Backed(a)'
  BY <1>1, <1>2, <1>3, EarnedSame DEF Load, Backed, TrafficEarned, ByHand
<1> QED BY <1>1, <1>4, EarnedSame DEF Load, Earnings

\* Recording the gate: a PASS earns exactly the step that its verdict adds.
LEMMA GateEarns ==
    ASSUME IInv, NEW a \in Actors, Gate(a)
    PROVE  Earnings(a)
<1> USE CanaryAssumption DEF IInv, TypeOK, rows, queue, At, Goto, Dep
<1>1. ~ByHand(a) /\ Dep(a) \in Deployments /\ actor[a].seen \in Nat
  BY DEF Gate, Backed, ActorStates
<1>2. PICK result \in Results :
        /\ passes' = [passes EXCEPT ![Dep(a)] = @ + (IF result = "PASS" THEN 1 ELSE 0)]
        /\ Goto(a, Verdict(a, result))
  BY DEF Gate
<1>3. actor[a].seen <= Earned(Dep(a))
  BY DEF Gate, Backed
<1>4. \A d \in Deployments : Earned(d) <= Earned(d)'
  <2>1. ASSUME NEW d \in Deployments, NEW n \in Nat
        PROVE  StepPct * n <= StepPct * (n + 1)
    BY <2>1
  <2> QED BY <1>2, <2>1, EarnedNat DEF Earned
<1>5. result = "PASS" => Earned(Dep(a))' = Earned(Dep(a)) + StepPct
  BY <1>1, <1>2, EarnedNat DEF Earned
<1>6. /\ actor'[a].pc = Verdict(a, result) /\ actor'[a].dep = actor[a].dep
      /\ actor'[a].seen = actor[a].seen
  BY <1>2 DEF ActorStates
<1>7. result = "PASS" => NextTraffic(a) <= Earned(Dep(a))'
  BY <1>1, <1>3, <1>5, EarnedNat DEF NextTraffic
<1>8. /\ Verdict(a, result) \in {"advance", "promote"} => result = "PASS"
      /\ Verdict(a, result) = "promote" => MaxPct <= NextTraffic(a)
      /\ Verdict(a, result) \notin {"measure", "recordPromote"}
  BY DEF Verdict
<1>9. NextTraffic(a)' = NextTraffic(a) /\ NextTraffic(a) \in Nat
  BY <1>1, <1>6 DEF NextTraffic
<1>10. Earned(Dep(a))' \in Nat /\ Earned(Dep(a)') = Earned(Dep(a))
  BY <1>1, <1>2, <1>6, EarnedNat DEF Earned
<1>11. Backed(a)'
  BY <1>1, <1>6, <1>7, <1>8, <1>9, <1>10 DEF Backed, ByHand
<1> QED BY <1>1, <1>2, <1>4, <1>11 DEF Gate, Earnings

\* Writing the advanced traffic: its gate was recorded before.
LEMMA AdvanceEarns ==
    ASSUME IInv, NEW a \in Actors, Advance(a)
    PROVE  Earnings(a)
<1> USE DEF IInv, TypeOK, rows, queue, At, Goto, Dep
<1>1. ~ByHand(a) /\ Dep(a) \in Deployments /\ NextTraffic(a) <= Earned(Dep(a))
  BY DEF Advance, Backed, ActorStates
<1>2. Backed(a)'
  BY <1>1 DEF Advance, Backed, ByHand, ActorStates
<1>3. ASSUME NEW d \in Deployments, status'[d] = "ACTIVE"
      PROVE  \/ status[d] = "ACTIVE" /\ traffic'[d] = traffic[d]
             \/ traffic'[d] <= Earned(d)'
  BY <1>1, <1>3, EarnedSame DEF Advance
<1> QED BY <1>1, <1>2, <1>3, EarnedSame DEF Advance, Earnings

\* Promoting: by hand, or because the gates reach maxTrafficPct.
LEMMA PromoteEarns ==
    ASSUME IInv, NEW a \in Actors, Promote(a)
    PROVE  Earnings(a)
<1> USE DEF IInv, TypeOK, rows, queue, At, Goto, Dep
<1>1. /\ Dep(a) \in Deployments /\ actor'[a].pc = "recordPromote"
      /\ actor'[a].dep = Dep(a)
      /\ ByHand(a) \/ MaxPct <= Earned(Dep(a))
  BY DEF Promote, Backed, ActorStates
<1>2. Earned(Dep(a))' = Earned(Dep(a))
  BY <1>1 DEF Promote, Earned
<1>3. Backed(a)'
  BY <1>1, <1>2 DEF Promote, Backed, ByHand, Earned
<1>4. ManuallyPromoted(Dep(a))' \/ MaxPct <= Earned(Dep(a))'
  BY <1>1, <1>2 DEF ManuallyPromoted, ByHand
<1>5. ASSUME NEW d \in Deployments, status'[d] = "PROMOTED"
      PROVE  status[d] = "PROMOTED" \/ ManuallyPromoted(d)' \/ MaxPct <= Earned(d)'
  BY <1>4, <1>5 DEF Promote
<1> QED BY <1>1, <1>3, <1>5, EarnedSame DEF Promote, Earnings, PromotedPoints

\* Recording a decision: the recorded promotion is the one that was written.
LEMMA RecordEarns ==
    ASSUME IInv, NEW a \in Actors, Record(a)
    PROVE  Earnings(a)
<1> USE CanaryAssumption DEF IInv, TypeOK, rows, queue, At, Goto, Dep
<1>1. /\ Dep(a) \in Deployments /\ actor'[a].pc = Exit(a) /\ actor'[a].dep = Dep(a)
      /\ ByHand(a) => actor[a].pc = "recordPromote" /\ Exit(a) = "done"
      /\ Exit(a) \in {"end", "done"}
  BY DEF Record, Backed, ActorStates, ByHand, Exit
<1>2. At(a, "recordPromote") => ByHand(a) \/ MaxPct <= Earned(Dep(a))
  BY DEF Backed
<1>3. Earned(Dep(a))' = Earned(Dep(a))
  BY <1>1 DEF Record, Earned
<1>4. Backed(a)'
  BY <1>1 DEF Backed, ByHand
<1>5. At(a, "recordPromote") => ManuallyPromoted(Dep(a))' \/ MaxPct <= Earned(Dep(a))'
  BY <1>1, <1>2, <1>3 DEF ManuallyPromoted, ByHand
<1>6. ASSUME NEW d \in Deployments, "PROMOTE" \in records'[d], "PROMOTE" \notin records[d]
      PROVE  d = Dep(a) /\ At(a, "recordPromote")
  BY <1>1, <1>6 DEF Record
<1> QED BY <1>1, <1>4, <1>5, <1>6, EarnedSame DEF Record, Earnings, PromotedPoints

\* The other steps leave an actor that holds no copy and intends nothing.
LEMMA RetireEarns ==
    ASSUME IInv, NEW a \in Actors,
           \A b \in Actors \ {a} : actor'[b] = actor[b],
           ByHand(a) => /\ actor'[a].pc \in {"done", "refused", "lost"}
                        /\ actor'[a].dep = actor[a].dep
                        /\ actor[a].pc \in PromotedPoints =>
                              actor'[a].pc \in PromotedPoints,
           actor'[a].pc \notin {"measure", "advance", "promote", "recordPromote"},
           UNCHANGED <<passes, records>>,
           \A d \in Deployments :
              /\ status'[d] = "ACTIVE" =>
                    \/ status[d] = "ACTIVE" /\ traffic'[d] = traffic[d]
                    \/ traffic'[d] = InitialPct
              /\ status'[d] = "PROMOTED" => status[d] = "PROMOTED"
    PROVE  Earnings(a)
<1>1. Backed(a)'
  BY DEF Backed, ByHand, At
<1> QED BY <1>1, EarnedNat, EarnedSame DEF Earnings, IInv

LEMMA EvaluationEarns ==
    ASSUME IInv, NEW a \in Actors, EvaluationStep(a)
    PROVE  Earnings(a)
<1> USE CanaryAssumption DEF rows, queue, At, Goto, Dep, Exit, PromotedPoints
<1>1. TypeOK /\ Backed(a)
  BY DEF IInv
<1>2. CASE Pause(a)
  BY <1>1, <1>2, RetireEarns DEF Pause, TypeOK, ActorStates, Backed, ByHand
<1>3. CASE Enqueue(a)
  BY <1>1, <1>3, RetireEarns DEF Enqueue, TypeOK, ActorStates, Backed, ByHand
<1>4. CASE RollBack(a)
  BY <1>1, <1>4, RetireEarns DEF RollBack, TypeOK, ActorStates, Backed, ByHand
<1> QED
  BY <1>2, <1>3, <1>4, LoadEarns, GateEarns, AdvanceEarns, PromoteEarns, RecordEarns
     DEF EvaluationStep

LEMMA CallEarns ==
    ASSUME IInv, NEW c \in Calls, CallStep(c) \/ CallLost(c)
    PROVE  Earnings(c)
<1> USE DEF rows, queue, At, Goto, Dep, PromotedPoints
<1>1. TypeOK /\ c \in Actors /\ Backed(c)
  BY DEF IInv, Actors
<1>2. CASE CreateCheck(c)
  BY <1>1, <1>2, RetireEarns DEF CreateCheck, TypeOK, ActorStates, Backed
<1>3. CASE CreateInsert(c)
  BY <1>1, <1>3, RetireEarns DEF CreateInsert, TypeOK, ActorStates, Backed
<1>4. CASE StartRead(c)
  BY <1>1, <1>4, RetireEarns DEF StartRead, TypeOK, ActorStates, Backed
<1>5. CASE StartActivate(c)
  BY <1>1, <1>5, RetireEarns DEF StartActivate, TypeOK, ActorStates, Backed
<1>6. CASE DecisionRefused(c)
  BY <1>1, <1>6, RetireEarns DEF DecisionRefused, TypeOK, ActorStates, Backed
<1>7. CASE CallLost(c)
  BY <1>1, <1>7, RetireEarns DEF CallLost, TypeOK, ActorStates, Backed
<1> QED
  BY <1>1, <1>2, <1>3, <1>4, <1>5, <1>6, <1>7, EvaluationEarns DEF CallStep

LEMMA WorkerEarns ==
    ASSUME IInv, NEW w \in Workers, WorkerStep(w) \/ WorkerThrows(w) \/ WorkerCrash(w)
    PROVE  Earnings(w)
<1> USE DEF rows, queue, At, Goto, Dep, PromotedPoints
<1>1. TypeOK /\ w \in Actors /\ ~ByHand(w)
  BY CanaryAssumption DEF IInv, Actors, ByHand
<1>2. ASSUME NEW j \in JobIds, Claim(w, j) PROVE Earnings(w)
  BY <1>1, <1>2, RetireEarns DEF Claim, TypeOK
<1>3. CASE Defer(w)
  BY <1>1, <1>3, RetireEarns DEF Defer, TypeOK, ActorStates
<1>4. CASE EndJob(w)
  BY <1>1, <1>4, RetireEarns DEF EndJob, TypeOK, Resting
<1>5. CASE WorkerCrash(w)
  BY <1>1, <1>5, RetireEarns DEF WorkerCrash, TypeOK, Resting
<1>6. CASE WorkerThrows(w)
  BY <1>1, <1>6, RetireEarns DEF WorkerThrows, TypeOK, Resting
<1> QED
  BY <1>1, <1>2, <1>3, <1>4, <1>5, <1>6, EvaluationEarns DEF WorkerStep

-----------------------------------------------------------------------------
\* A step with earnings keeps every part of the invariant.
LEMMA EarningsKeep ==
    ASSUME IInv, TypeOK', NEW a \in Actors, Earnings(a)
    PROVE  (\A b \in Actors : Backed(b))' /\ TrafficEarned' /\ PromotionEarned'
<1>1. \A d \in Deployments :
         /\ Earned(d) \in Nat /\ Earned(d)' \in Nat /\ Earned(d) <= Earned(d)'
  <2>1. \A d \in Deployments : Earned(d) \in Nat
    BY EarnedNat DEF IInv
  <2>2. \A d \in Deployments : Earned(d)' \in Nat
    <3>1. \A n \in Nat : StepPct * n \in Nat
      BY CanaryAssumption
    <3> QED BY <3>1, CanaryAssumption DEF TypeOK, Earned
  <2> QED BY <2>1, <2>2 DEF Earnings
<1>2. ASSUME NEW b \in Actors PROVE Backed(b)'
  <2>1. CASE b = a
    BY <2>1 DEF Earnings
  <2>2. CASE b # a
    <3>1. actor'[b] = actor[b] /\ Dep(b) \in Deployments /\ actor[b].seen \in Nat
      BY <2>2 DEF Earnings, IInv, TypeOK, ActorStates, Dep
    <3>2. Backed(b) /\ NextTraffic(b) \in Nat /\ NextTraffic(b)' = NextTraffic(b)
      BY <3>1, CanaryAssumption DEF IInv, NextTraffic
    <3> QED BY <1>1, <3>1, <3>2, CanaryAssumption DEF Backed, At, Dep, ByHand
  <2> QED BY <2>1, <2>2
<1>3. TrafficEarned'
  BY <1>1 DEF Earnings, IInv, TrafficEarned, TypeOK
<1>4. ASSUME NEW d \in Deployments, ManuallyPromoted(d) PROVE ManuallyPromoted(d)'
  <2>1. PICK c \in Calls : /\ Kind[c] = "promote" /\ Dep(c) = d
                           /\ actor[c].pc \in PromotedPoints
    BY <1>4 DEF ManuallyPromoted, PromotedPoints
  <2>2. actor'[c].pc \in PromotedPoints /\ actor'[c].dep = d
    BY <2>1 DEF Earnings, ByHand, Actors, Dep
  <2> QED BY <2>1, <2>2 DEF ManuallyPromoted, PromotedPoints, Dep
<1>5. PromotionEarned'
  BY <1>1, <1>4, CanaryAssumption DEF Earnings, IInv, PromotionEarned
<1> QED BY <1>2, <1>3, <1>5

LEMMA Inductive == IInv /\ [Next]_vars => IInv'
<1> SUFFICES ASSUME IInv, [Next]_vars PROVE IInv'
  OBVIOUS
<1>1. TypeOK' /\ StallBound'
  BY TypeStep, StallStep DEF IInv
<1>2. ASSUME NEW a \in Actors, Earnings(a) PROVE IInv'
  BY <1>1, <1>2, EarningsKeep DEF IInv
<1>3. ASSUME NEW c \in Calls, CallStep(c) \/ CallLost(c) PROVE IInv'
  BY <1>2, <1>3, CallEarns DEF Actors
<1>4. ASSUME NEW w \in Workers, WorkerStep(w) \/ WorkerThrows(w) \/ WorkerCrash(w)
      PROVE  IInv'
  BY <1>2, <1>4, WorkerEarns DEF Actors
<1>5. ASSUME UNCHANGED <<status, traffic, passes, records, actor>> PROVE IInv'
  BY <1>1, <1>5 DEF IInv, Backed, TrafficEarned, PromotionEarned, ManuallyPromoted,
                    Earned, NextTraffic, At, Dep
<1>6. ASSUME NEW j \in JobIds, JobStalled(j) PROVE IInv'
  BY <1>5, <1>6 DEF JobStalled, rows
<1>7. CASE UNCHANGED vars
  BY <1>5, <1>7 DEF vars
<1> QED BY <1>3, <1>4, <1>6, <1>7 DEF Next

LEMMA Initially == Init => IInv
<1> SUFFICES ASSUME Init PROVE IInv
  OBVIOUS
<1> USE CanaryAssumption DEF Init
<1>1. PICK d \in Deployments, named \in [Calls -> Windows] :
         actor = [a \in Actors |-> IF a \in Calls THEN Calling(a, named[a])
                                                  ELSE Resting(d)]
  OBVIOUS
<1>2. ASSUME NEW a \in Actors
      PROVE  /\ actor[a] \in ActorStates
             /\ actor[a].pc \in {"idle", "create", "start", "load", "promote", "rollback"}
             /\ At(a, "promote") => ByHand(a)
             /\ ByHand(a) => At(a, "promote")
  <2>1. CASE a \in Calls
    <3>1. actor[a] = Calling(a, named[a]) /\ Kind[a] \in Kinds /\ named[a] \in Windows
      BY <1>1, <2>1
    <3> DEFINE w == IF Kind[a] = "evaluate" THEN named[a] ELSE 0
    <3>2. actor[a] = [pc |-> Entry[Kind[a]], dep |-> Target[a], win |-> w, try |-> 0, seen |-> 0]
      BY <3>1 DEF Calling, Resting
    <3>3. w \in 0..MaxWindow /\ Target[a] \in Deployments
      BY <2>1, <3>1 DEF Windows
    <3>4. /\ Entry[Kind[a]] \in {"create", "start", "load", "promote", "rollback"}
          /\ Entry[Kind[a]] = "promote" <=> Kind[a] = "promote"
      BY <3>1 DEF Entry, Kinds
    <3> HIDE DEF w
    <3> QED
      BY <2>1, <3>2, <3>3, <3>4 DEF ByHand, At, ActorStates, Points, Tries
  <2>2. CASE a \in Workers
    BY <1>1, <2>2 DEF Resting, ActorStates, Points, Tries, ByHand, At
  <2> QED BY <2>1, <2>2 DEF Actors
<1>3. TypeOK /\ StallBound
  <2>1. actor \in [Actors -> ActorStates]
    BY <1>1, <1>2
  <2> QED BY <2>1 DEF TypeOK, StallBound, Statuses, JobStates
<1>4. \A a \in Actors : Backed(a)
  BY <1>2 DEF Backed, At
<1>5. TrafficEarned /\ PromotionEarned
  BY DEF TrafficEarned, PromotionEarned
<1> QED BY <1>3, <1>4, <1>5 DEF IInv

LEMMA Invariant == Spec => []IInv
<1> QED BY Initially, Inductive, PTL DEF Spec

-----------------------------------------------------------------------------
(* The queue and the decisions.  A job that is active is held by one worker *)
(* or nobody holds it and it will stall; the jobs of a deployment follow    *)
(* from the job of its first window, and one of them at most is open.       *)

Holds(w, j) == ~At(w, "idle") /\ Job(w) = j

Holding ==
    /\ \A w \in Workers : ~At(w, "idle") => Job(w) \in JobIds /\ jobs[Job(w)] = "active"
    /\ \A v, w \in Workers : ~At(v, "idle") /\ ~At(w, "idle") /\ Job(v) = Job(w) => v = w

\* Only an evaluation by hand names a window.
CallWindows ==
    \A c \in Calls : Kind[c] # "evaluate" => actor[c].win = 0

First(d) == <<d, 1, 0>>

\* A job that can still write the row or schedule another job.
Open(j) ==
    \/ jobs[j] = "waiting"
    \/ jobs[j] = "active" /\ \A w \in Workers : Holds(w, j) => ~At(w, "end")

Chain(d) ==
    /\ \A j \in JobIds : j[1] = d /\ jobs[j] # "none" => jobs[First(d)] # "none"
    /\ \A i, j \in JobIds : i[1] = d /\ j[1] = d /\ Open(i) /\ Open(j) => i = j

\* A call evaluated the deployment and has scheduled, or will, a job of its own.
HandScheduled(d) ==
    \E c \in Calls : /\ Kind[c] = "evaluate" /\ Dep(c) = d
                     /\ actor[c].pc \in {"enqueue", "done", "lost"}

Chains == \A d \in Deployments : HandScheduled(d) \/ Interrupted(d) \/ Chain(d)

QInv == Holding /\ CallWindows /\ Chains /\ DecisionRecorded

\* What the lemmas below take for granted: types, and the invariant so far.
LEMMA ActorFields ==
    ASSUME TypeOK, NEW a \in Actors
    PROVE  /\ actor[a] \in ActorStates /\ Dep(a) \in Deployments
           /\ actor[a].win \in 0..MaxWindow /\ actor[a].try \in Tries
           /\ Job(a)[1] = Dep(a)
BY DEF TypeOK, ActorStates, Dep, Job

LEMMA FirstJob ==
    ASSUME NEW d \in Deployments
    PROVE  First(d) \in JobIds /\ First(d)[1] = d
BY CanaryAssumption DEF First, JobIds, Windows, Tries

\* A deployment stays interrupted: what is lost, failed or stalled stays so,
\* and a job nobody holds is active until it stalls.
LEMMA InterruptedStays ==
    ASSUME TypeOK, TypeOK',
           \A c \in Calls : At(c, "lost") => actor'[c] = actor[c],
           \A j \in JobIds :
              /\ jobs[j] = "failed" => jobs'[j] = "failed"
              /\ stalls[j] <= stalls'[j]
              /\ jobs[j] = "active" /\ ~Held(j) =>
                    stalls'[j] > 0 \/ (jobs'[j] = "active" /\ ~Held(j)'),
           NEW d, Interrupted(d)
    PROVE  Interrupted(d)'
<1>1. CASE \E c \in Calls : At(c, "lost") /\ Dep(c) = d
  BY <1>1 DEF Interrupted, At, Dep
<1>2. ASSUME NEW j \in JobIds, j[1] = d,
             jobs[j] = "failed" \/ stalls[j] > 0 \/ (jobs[j] = "active" /\ ~Held(j))
      PROVE  Interrupted(d)'
  <2>1. stalls[j] \in Nat /\ stalls'[j] \in Nat
    BY CanaryAssumption DEF TypeOK
  <2>2. jobs'[j] = "failed" \/ stalls'[j] > 0 \/ (jobs'[j] = "active" /\ ~Held(j)')
    BY <1>2, <2>1
  <2> QED BY <1>2, <2>2 DEF Interrupted
<1> QED BY <1>1, <1>2 DEF Interrupted

\* A step after which no other job of the deployment exists or is open.  A
\* deferred job may have been forgotten, the first window's never is.
LEMMA ChainStays ==
    ASSUME NEW d \in Deployments, Chain(d),
           \A j \in JobIds : j[1] = d =>
              /\ Open(j)' => Open(j)
              /\ jobs[j] = "none" => jobs'[j] = "none",
           jobs'[First(d)] = "none" => jobs[First(d)] = "none"
    PROVE  Chain(d)'
BY FirstJob DEF Chain, First

\* The decision of a deployment is on its way as long as whoever made it goes
\* on or the deployment is interrupted.
Decides(a, d) ==
    /\ records[d] \subseteq records'[d]
    /\ Interrupted(d) => Interrupted(d)'
    /\ status'[d] = "PROMOTED" =>
          status[d] = "PROMOTED" \/ (At(a, "recordPromote") /\ Dep(a) = d)'
    /\ status'[d] = "ROLLED_BACK" =>
          status[d] = "ROLLED_BACK" \/ (At(a, "recordRollback") /\ Dep(a) = d)'
    /\ At(a, "recordPromote") /\ Dep(a) = d =>
          "PROMOTE" \in records'[d] \/ Interrupted(d)'
    /\ At(a, "recordRollback") /\ Dep(a) = d =>
          "ROLLBACK" \in records'[d] \/ Interrupted(d)'

LEMMA DecisionKept ==
    ASSUME DecisionRecorded, NEW a \in Actors,
           \A b \in Actors \ {a} : actor'[b] = actor[b],
           \A d \in Deployments : Decides(a, d)
    PROVE  DecisionRecorded'
<1> SUFFICES ASSUME NEW d \in Deployments
             PROVE  /\ status'[d] = "PROMOTED" =>
                          \/ "PROMOTE" \in records'[d] \/ Interrupted(d)'
                          \/ \E b \in Actors : (At(b, "recordPromote") /\ Dep(b) = d)'
                    /\ status'[d] = "ROLLED_BACK" =>
                          \/ "ROLLBACK" \in records'[d] \/ Interrupted(d)'
                          \/ \E b \in Actors : (At(b, "recordRollback") /\ Dep(b) = d)'
  BY DEF DecisionRecorded
<1>1. Decides(a, d)
  OBVIOUS
<1>2. \A b \in Actors, pc \in {"recordPromote", "recordRollback"} :
         b # a /\ At(b, pc) /\ Dep(b) = d => (At(b, pc) /\ Dep(b) = d)'
  BY DEF At, Dep
<1>3. ASSUME status'[d] = "PROMOTED"
      PROVE  \/ "PROMOTE" \in records'[d] \/ Interrupted(d)'
             \/ \E b \in Actors : (At(b, "recordPromote") /\ Dep(b) = d)'
  <2>1. CASE status[d] = "PROMOTED"
    BY <1>1, <1>2, <2>1 DEF Decides, DecisionRecorded
  <2>2. CASE (At(a, "recordPromote") /\ Dep(a) = d)'
    BY <2>2
  <2> QED BY <1>1, <1>3, <2>1, <2>2 DEF Decides
<1>4. ASSUME status'[d] = "ROLLED_BACK"
      PROVE  \/ "ROLLBACK" \in records'[d] \/ Interrupted(d)'
             \/ \E b \in Actors : (At(b, "recordRollback") /\ Dep(b) = d)'
  <2>1. CASE status[d] = "ROLLED_BACK"
    BY <1>1, <1>2, <2>1 DEF Decides, DecisionRecorded
  <2>2. CASE (At(a, "recordRollback") /\ Dep(a) = d)'
    BY <2>2
  <2> QED BY <1>1, <1>4, <2>1, <2>2 DEF Decides
<1> QED BY <1>3, <1>4

\* A deployment's chain holds, or somebody evaluated by hand or died.
Linked(d) == HandScheduled(d) \/ Interrupted(d) \/ Chain(d)

LEMMA HandStays ==
    ASSUME NEW d,
           \A c \in Calls : Kind[c] = "evaluate" /\ actor[c].pc \in {"enqueue", "done", "lost"} =>
              actor'[c].pc \in {"enqueue", "done", "lost"} /\ actor'[c].dep = actor[c].dep,
           HandScheduled(d)
    PROVE  HandScheduled(d)'
BY DEF HandScheduled, Dep

\* A step of an actor that leaves the queue alone and stays in its work.
Local(a) ==
    /\ UNCHANGED queue
    /\ \A b \in Actors \ {a} : actor'[b] = actor[b]
    /\ actor'[a].dep = actor[a].dep /\ actor'[a].win = actor[a].win
    /\ actor'[a].try = actor[a].try
    /\ a \in Workers => actor[a].pc \notin {"idle", "end"} /\ actor'[a].pc # "idle"
    /\ a \in Calls =>
          /\ ~At(a, "lost")
          /\ actor[a].pc \in {"enqueue", "done"} => actor'[a].pc \in {"enqueue", "done", "lost"}

\* A step of an actor that adds a job of its deployment, if it is a new one.
Adds(a, j) ==
    /\ jobs' = Added(j) /\ UNCHANGED <<stalls, rows>>
    /\ actor[a].pc \in {"measure", "enqueue"}
    /\ j[1] = Dep(a)
    /\ a \in Calls => At(a, "enqueue") /\ j = <<Dep(a), actor[a].win + 1, 0>>
    /\ Goto(a, Exit(a))

LEMMA LocalKeeps ==
    ASSUME TypeOK, TypeOK', QInv, NEW a \in Actors, Local(a)
    PROVE  /\ Holding' /\ CallWindows' /\ Chains'
           /\ \A d \in Deployments : Interrupted(d) => Interrupted(d)'
<1> USE CanaryAssumption
<1>1. /\ jobs' = jobs /\ stalls' = stalls
      /\ \A b \in Actors : Job(b)' = Job(b) /\ Dep(b)' = Dep(b) /\ actor'[b].win = actor[b].win
      /\ \A w \in Workers : At(w, "idle") <=> At(w, "idle")'
      /\ \A w \in Workers : At(w, "end") => At(w, "end")'
      /\ \A c \in Calls : At(c, "lost") => actor'[c] = actor[c]
  BY DEF Local, queue, Actors, Job, Dep, At
<1>2. Holding' /\ CallWindows'
  BY <1>1 DEF QInv, Holding, CallWindows, Actors
<1>3. \A j \in JobIds : Held(j) <=> Held(j)'
  BY <1>1 DEF Held, Actors
<1>4. \A j \in JobIds : stalls[j] <= stalls'[j]
  BY <1>1 DEF TypeOK
<1>5. \A d : Interrupted(d) => Interrupted(d)'
  BY <1>1, <1>3, <1>4, InterruptedStays
<1>6. \A d : HandScheduled(d) => HandScheduled(d)'
  BY <1>1, HandStays DEF Local, Actors, At
<1>7. \A j \in JobIds : Open(j)' => Open(j)
  BY <1>1 DEF Open, Holds, Actors
<1>8. \A d \in Deployments : Chain(d) => Chain(d)'
  BY <1>1, <1>7, FirstJob, ChainStays
<1> QED BY <1>2, <1>5, <1>6, <1>8 DEF QInv, Chains

LEMMA AddsKeeps ==
    ASSUME TypeOK, TypeOK', QInv, NEW a \in Actors, NEW j, Adds(a, j)
    PROVE  QInv'
<1> USE CanaryAssumption
<1>1. /\ actor' = [actor EXCEPT ![a].pc = Exit(a)] /\ actor \in [Actors -> ActorStates]
      /\ stalls' = stalls /\ Dep(a) \in Deployments
  BY ActorFields DEF Adds, Goto, TypeOK
<1>2. /\ \A b \in Actors : Job(b)' = Job(b) /\ Dep(b)' = Dep(b) /\ actor'[b].win = actor[b].win
      /\ \A b \in Actors \ {a} : actor'[b] = actor[b]
      /\ actor'[a].pc = Exit(a)
  BY <1>1 DEF Actors, Job, Dep, ActorStates
<1>3. /\ \A w \in Workers : At(w, "idle") <=> At(w, "idle")'
      /\ \A w \in Workers : At(w, "end") => At(w, "end")'
      /\ \A c \in Calls : At(c, "lost") => actor'[c] = actor[c]
      /\ a \in Workers => At(a, "end")' /\ ~At(a, "idle") /\ ~At(a, "end")
  BY <1>2 DEF Adds, Actors, At, Exit
<1>4. \A i \in JobIds :
         /\ jobs'[i] = jobs[i] \/ (i = j /\ jobs[i] = "none" /\ jobs'[i] = "waiting")
         /\ i = j => jobs'[i] # "none"
  BY DEF Adds, Added, TypeOK
<1>5. Holding'
  <2>1. \A w \in Workers : ~At(w, "idle") => jobs'[Job(w)] = "active"
    BY <1>4 DEF QInv, Holding
  <2> QED BY <1>2, <1>3, <2>1 DEF QInv, Holding, Actors
<1>6. CallWindows'
  BY <1>2 DEF QInv, CallWindows, Actors
<1>7. \A i \in JobIds : Held(i) <=> Held(i)'
  BY <1>2, <1>3 DEF Held, Actors
<1>8. \A i \in JobIds : stalls[i] <= stalls'[i]
  BY <1>1 DEF TypeOK
<1>9. \A d : Interrupted(d) => Interrupted(d)'
  BY <1>3, <1>4, <1>7, <1>8, InterruptedStays
<1>10. \A d : HandScheduled(d) => HandScheduled(d)'
  <2>1. \A c \in Calls : actor[c].pc \in {"enqueue", "done", "lost"} =>
           /\ actor'[c].pc \in {"enqueue", "done", "lost"}
           /\ actor'[c].dep = actor[c].dep
    BY <1>2 DEF Actors, Exit, Dep
  <2> QED BY <2>1, HandStays
<1>11. \A i \in JobIds : i # j => (Open(i)' => Open(i))
  BY <1>2, <1>3, <1>4 DEF Open, Holds, Actors
<1>12. \A d \in Deployments : d # Dep(a) /\ Chain(d) => Chain(d)'
  <2> SUFFICES ASSUME NEW d \in Deployments, d # Dep(a), Chain(d) PROVE Chain(d)'
    OBVIOUS
  <2>1. \A i \in JobIds : i[1] = d => i # j
    BY DEF Adds
  <2> QED BY <1>4, <1>11, <2>1, FirstJob, ChainStays
<1>13. ASSUME j \in JobIds, jobs[j] = "none" PROVE Chains'
  <2>0. PICK d \in Deployments : d = Dep(a)
    BY <1>1
  <2>1. /\ \A i \in JobIds : i # j => jobs'[i] = jobs[i]
        /\ jobs'[j] = "waiting" /\ d \in Deployments /\ First(d) \in JobIds /\ j[1] = d
    BY <1>1, <1>4, <1>13, <2>0, FirstJob DEF JobStates, Adds
  <2>2. CASE a \in Workers
    <3>0. PICK k \in JobIds : k = Job(a)
      BY <1>3, <2>2 DEF QInv, Holding
    <3>1. /\ jobs[k] = "active" /\ k[1] = d
          /\ \A w \in Workers : Holds(w, k) => w = a
      BY <1>3, <2>0, <2>2, <3>0, ActorFields DEF QInv, Holding, Holds
    <3>2. Open(k)
      BY <1>3, <3>1 DEF Open
    <3>3. ~Open(k)'
      <4>1. jobs'[k] = "active"
        BY <1>13, <2>1, <3>1
      <4>2. Holds(a, k)' /\ At(a, "end")'
        BY <1>2, <1>3, <2>2, <3>0 DEF Holds
      <4> QED BY <2>2, <4>1, <4>2 DEF Open
    <3>4. ASSUME Chain(d) PROVE Chain(d)'
      <4>1. \A i \in JobIds : i[1] = d /\ Open(i)' => i = j
        BY <1>11, <3>1, <3>2, <3>3, <3>4 DEF Chain
      <4>2. jobs'[First(d)] # "none"
        BY <1>4, <3>1, <3>4, <2>1 DEF Chain
      <4> QED BY <4>1, <4>2 DEF Chain, First
    <3> QED BY <1>9, <1>10, <1>12, <2>0, <3>4 DEF QInv, Chains
  <2>3. CASE a \in Calls
    <3>1. CASE Kind[a] = "evaluate"
      <4>1. HandScheduled(d)'
        BY <1>2, <2>0, <2>3, <3>1 DEF HandScheduled, Exit, Actors
      <4> QED BY <1>9, <1>10, <1>12, <2>0, <4>1 DEF QInv, Chains
    <3>2. CASE Kind[a] # "evaluate"
      <4>1. j = First(d)
        BY <2>0, <2>3, <3>2 DEF QInv, CallWindows, Adds, First
      <4>2. ASSUME Chain(d) PROVE Chain(d)'
        <5>1. \A i \in JobIds : i[1] = d /\ i # j => jobs'[i] = "none"
          BY <1>13, <2>1, <4>1, <4>2 DEF Chain
        <5>2. \A i \in JobIds : i[1] = d /\ Open(i)' => i = j
          BY <5>1 DEF Open
        <5> QED BY <2>1, <4>1, <5>2 DEF Chain, First
      <4> QED BY <1>9, <1>10, <1>12, <2>0, <4>2 DEF QInv, Chains
    <3> QED BY <3>1, <3>2
  <2> QED BY <2>2, <2>3 DEF Actors
<1>14. ASSUME jobs' = jobs PROVE Chains'
  <2>1. \A i \in JobIds : Open(i)' => Open(i)
    BY <1>2, <1>3, <1>14 DEF Open, Holds, Actors
  <2>2. \A d \in Deployments : Chain(d) => Chain(d)'
    BY <1>14, <2>1, FirstJob, ChainStays
  <2> QED BY <1>9, <1>10, <2>2 DEF QInv, Chains
<1>15. Chains'
  <2>1. jobs' = jobs \/ (j \in JobIds /\ jobs[j] = "none")
    BY DEF Adds, Added, TypeOK
  <2> QED BY <1>13, <1>14, <2>1
<1>16. DecisionRecorded'
  BY <1>2, <1>9, DecisionKept DEF QInv, Adds, Decides, rows, At
<1> QED BY <1>5, <1>6, <1>15, <1>16 DEF QInv

LEMMA ClaimKeeps ==
    ASSUME TypeOK, TypeOK', QInv, NEW w \in Workers, NEW k \in JobIds, Claim(w, k)
    PROVE  QInv'
<1> USE CanaryAssumption
<1>1. /\ jobs' = [jobs EXCEPT ![k] = "active"] /\ jobs[k] = "waiting" /\ At(w, "idle")
      /\ stalls' = stalls /\ w \in Actors /\ w \notin Calls
      /\ \A b \in Actors \ {w} : actor'[b] = actor[b]
      /\ actor'[w] = [pc |-> "load", dep |-> k[1], win |-> k[2], try |-> k[3], seen |-> 0]
  BY DEF Claim, TypeOK, Actors
<1>2. /\ Job(w)' = k /\ At(w, "load")'
      /\ \A b \in Actors \ {w} : Job(b)' = Job(b) /\ Dep(b)' = Dep(b)
  <2>1. k = <<k[1], k[2], k[3]>>
    BY DEF JobIds
  <2> QED BY <1>1, <2>1 DEF Job, Dep, At
<1>3. Holding'
  <2>1. \A i \in JobIds : jobs[i] = "active" => jobs'[i] = "active" /\ i # k
    BY <1>1 DEF TypeOK
  <2>2. jobs'[k] = "active"
    BY <1>1 DEF TypeOK
  <2> QED BY <1>1, <1>2, <2>1, <2>2 DEF QInv, Holding, At, Actors
<1>4. CallWindows'
  BY <1>1 DEF QInv, CallWindows, Actors
<1>5. \A i \in JobIds : i # k => (Held(i) <=> Held(i)') /\ jobs'[i] = jobs[i]
  BY <1>1, <1>2 DEF Held, At, Actors, TypeOK
<1>6. \A d : Interrupted(d) => Interrupted(d)'
  <2>1. \A i \in JobIds : stalls[i] <= stalls'[i]
    BY <1>1 DEF TypeOK
  <2> QED BY <1>1, <1>5, <2>1, InterruptedStays DEF Actors
<1>7. \A d : HandScheduled(d) => HandScheduled(d)'
  <2>1. \A c \in Calls : actor'[c] = actor[c]
    BY <1>1 DEF Actors
  <2> QED BY <2>1, HandStays
<1>8. \A i \in JobIds : Open(i)' => Open(i)
  <2>1. ASSUME NEW i \in JobIds, i # k, Open(i)' PROVE Open(i)
    <3>1. \A v \in Workers : Holds(v, i) /\ At(v, "end") => (Holds(v, i) /\ At(v, "end"))'
      BY <1>1, <1>2 DEF Holds, At, Actors
    <3> QED BY <1>5, <2>1, <3>1 DEF Open
  <2>2. Open(k)
    BY <1>1 DEF Open
  <2> QED BY <2>1, <2>2
<1>9. \A i \in JobIds : jobs[i] = "none" <=> jobs'[i] = "none"
  BY <1>1 DEF TypeOK
<1>10. \A d \in Deployments : Chain(d) => Chain(d)'
  BY <1>8, <1>9, FirstJob, ChainStays
<1>11. DecisionRecorded'
  BY <1>1, <1>6, DecisionKept DEF QInv, Claim, Decides, rows, At
<1> QED BY <1>3, <1>4, <1>6, <1>7, <1>10, <1>11 DEF QInv, Chains

LEMMA LeaveKeeps ==
    ASSUME TypeOK, TypeOK', QInv, NEW w \in Workers,
           EndJob(w) \/ WorkerThrows(w) \/ WorkerCrash(w)
    PROVE  QInv'
<1> USE CanaryAssumption
<1>1. /\ ~At(w, "idle") /\ w \in Actors /\ w \notin Calls
      /\ actor' = [actor EXCEPT ![w] = Resting(Dep(w))] /\ UNCHANGED <<rows, stalls>>
      /\ actor \in [Actors -> ActorStates]
  BY DEF EndJob, WorkerThrows, WorkerCrash, At, Actors, TypeOK, rows, queue
<1>2. PICK k \in JobIds : k = Job(w)
  BY <1>1 DEF QInv, Holding
<1>3. PICK d \in Deployments : d = Dep(w)
  BY <1>1, ActorFields
<1>4. /\ k[1] = d /\ jobs[k] = "active"
      /\ \A v \in Workers : ~At(v, "idle") /\ Job(v) = k => v = w
  BY <1>1, <1>2, <1>3, ActorFields DEF QInv, Holding
<1>5. /\ At(w, "idle")' /\ \A b \in Actors \ {w} : actor'[b] = actor[b]
      /\ \A b \in Actors \ {w} : Job(b)' = Job(b) /\ Dep(b)' = Dep(b)
  BY <1>1 DEF At, Job, Dep, Resting
<1>6. \E s \in {"none", "done", "failed", "active"} :
         /\ jobs' = [jobs EXCEPT ![k] = s]
         /\ s \in {"none", "done"} => EndJob(w)
         /\ s = "none" => Forgotten(k)
         /\ s = "active" => jobs' = jobs
  BY <1>2, <1>4 DEF EndJob, WorkerThrows, WorkerCrash, rows, queue, TypeOK
<1>7. /\ \A i \in JobIds : i # k => jobs'[i] = jobs[i]
      /\ jobs'[k] \in {"none", "done", "failed", "active"}
      /\ jobs'[k] \in {"none", "done"} => At(w, "end")
      /\ jobs'[k] = "none" => k[3] > 0
  BY <1>6 DEF EndJob, TypeOK, Forgotten
<1>8. ~Held(k)'
  BY <1>4, <1>5 DEF Held, At, Actors
<1>9. \A i \in JobIds : i # k => (Held(i) <=> Held(i)')
  BY <1>2, <1>5 DEF Held, At, Actors
<1>10. Holding'
  <2>1. \A v \in Workers : ~At(v, "idle")' =>
           v # w /\ ~At(v, "idle") /\ Job(v)' = Job(v)
    BY <1>5 DEF At, Actors
  <2>2. \A v \in Workers : ~At(v, "idle")' => Job(v) \in JobIds /\ jobs'[Job(v)] = "active"
    BY <1>4, <1>7, <2>1 DEF QInv, Holding
  <2> QED BY <2>1, <2>2 DEF QInv, Holding
<1>11. CallWindows'
  BY <1>1, <1>5 DEF QInv, CallWindows, Actors
<1>12. \A e : Interrupted(e) => Interrupted(e)'
  <2>1. \A i \in JobIds : stalls[i] <= stalls'[i]
    BY <1>1 DEF TypeOK
  <2>2. Held(k) /\ jobs[k] # "failed"
    BY <1>1, <1>2, <1>4 DEF Held
  <2> QED BY <1>1, <1>5, <1>7, <1>9, <2>1, <2>2, InterruptedStays DEF Actors
<1>13. \A e : HandScheduled(e) => HandScheduled(e)'
  <2>1. \A c \in Calls : actor'[c] = actor[c]
    BY <1>1, <1>5 DEF Actors
  <2> QED BY <2>1, HandStays
<1>14. jobs'[k] \notin {"none", "done"} => Interrupted(d)'
  BY <1>4, <1>7, <1>8 DEF Interrupted
<1>15. \A i \in JobIds : i # k => (Open(i)' => Open(i))
  <2> SUFFICES ASSUME NEW i \in JobIds, i # k, Open(i)' PROVE Open(i)
    OBVIOUS
  <2>1. \A v \in Workers : Holds(v, i) /\ At(v, "end") => (Holds(v, i) /\ At(v, "end"))'
    BY <1>2, <1>5 DEF Holds, At, Actors
  <2> QED BY <1>7, <2>1 DEF Open
<1>16. /\ \A i \in JobIds : jobs[i] = "none" => jobs'[i] = "none"
       /\ \A e \in Deployments : jobs'[First(e)] = "none" => jobs[First(e)] = "none"
  <2>1. \A e \in Deployments : First(e) \in JobIds /\ First(e)[3] = 0
    BY FirstJob DEF First
  <2> QED BY <1>4, <1>7, <2>1
<1>17. Chains'
  <2> SUFFICES ASSUME NEW e \in Deployments, Chain(e), ~Interrupted(e)' PROVE Chain(e)'
    BY <1>12, <1>13 DEF QInv, Chains
  <2>1. \A i \in JobIds : i[1] = e => (Open(i)' => Open(i))
    <3>1. k[1] = e => ~Open(k)'
      BY <1>4, <1>14 DEF Open
    <3> QED BY <1>15, <3>1
  <2> QED BY <1>16, <2>1, FirstJob, ChainStays
<1>18. DecisionRecorded'
  <2>1. \A e \in Deployments : Decides(w, e)
    <3> SUFFICES ASSUME NEW e \in Deployments PROVE Decides(w, e)
      OBVIOUS
    <3>1. At(w, "recordPromote") \/ At(w, "recordRollback") => Interrupted(d)'
      BY <1>7, <1>14 DEF At
    <3> QED BY <1>1, <1>3, <1>12, <3>1 DEF Decides, rows
  <2> QED BY <1>1, <1>5, <2>1, DecisionKept DEF QInv
<1> QED BY <1>10, <1>11, <1>17, <1>18 DEF QInv

LEMMA StalledKeeps ==
    ASSUME TypeOK, TypeOK', StallBound, QInv, NEW k \in JobIds, JobStalled(k)
    PROVE  QInv'
<1> USE CanaryAssumption
<1>1. /\ jobs[k] = "active" /\ ~Held(k) /\ UNCHANGED <<rows, actor>>
      /\ stalls' = [stalls EXCEPT ![k] = @ + 1]
      /\ \A i \in JobIds : i # k => jobs'[i] = jobs[i]
      /\ jobs'[k] \in {"waiting", "failed"}
  BY DEF JobStalled, TypeOK
<1>2. stalls'[k] > 0 /\ \A i \in JobIds : stalls[i] <= stalls'[i]
  BY <1>1 DEF TypeOK
<1>3. k[1] \in Deployments /\ Interrupted(k[1])'
  BY <1>2 DEF Interrupted, JobIds
<1>4. \A i \in JobIds : Held(i) <=> Held(i)'
  BY <1>1 DEF Held, At, Job
<1>5. Holding'
  BY <1>1 DEF QInv, Holding, Held, At, Job
<1>6. CallWindows'
  BY <1>1 DEF QInv, CallWindows
<1>7. \A d : Interrupted(d) => Interrupted(d)'
  BY <1>1, <1>2, <1>4, InterruptedStays DEF At
<1>8. \A d : HandScheduled(d) => HandScheduled(d)'
  BY <1>1, HandStays
<1>9. \A i \in JobIds : i # k => (Open(i)' => Open(i)) /\ (jobs[i] = "none" <=> jobs'[i] = "none")
  BY <1>1 DEF Open, Holds, At, Job
<1>10. \A d \in Deployments : d # k[1] /\ Chain(d) => Chain(d)'
  BY <1>9, FirstJob, ChainStays
<1>11. DecisionRecorded'
  BY <1>1, <1>7 DEF QInv, DecisionRecorded, rows, At, Dep
<1> QED BY <1>3, <1>5, <1>6, <1>7, <1>8, <1>10, <1>11 DEF QInv, Chains

\* Steps that move an actor on: what they do to the decision of a deployment.
Moves(a) ==
    \/ CreateCheck(a) \/ CreateInsert(a) \/ StartRead(a) \/ StartActivate(a)
    \/ DecisionRefused(a) \/ Load(a) \/ Gate(a) \/ Pause(a) \/ Advance(a)
    \/ Promote(a) \/ RollBack(a) \/ Record(a)

LEMMA MovesLocal ==
    ASSUME TypeOK, NEW a \in Actors, Moves(a)
    PROVE  Local(a)
<1> USE CanaryAssumption DEF At, Goto, rows, queue
<1>1. actor \in [Actors -> ActorStates] /\ actor[a] \in ActorStates
  BY DEF TypeOK
<1>2. \E pc \in Points \ {"idle"}, n \in Nat :
         actor' = [actor EXCEPT ![a].pc = pc, ![a].seen = n]
  <2>1. ASSUME NEW pc \in Points \ {"idle"}, actor' = [actor EXCEPT ![a].pc = pc]
        PROVE  \E n \in Nat : actor' = [actor EXCEPT ![a].pc = pc, ![a].seen = n]
    <3>1. actor[a].seen \in Nat
      BY <1>1 DEF ActorStates
    <3>2. [actor EXCEPT ![a].pc = pc, ![a].seen = actor[a].seen] = [actor EXCEPT ![a].pc = pc]
      BY <1>1 DEF ActorStates
    <3> QED BY <2>1, <3>1, <3>2
  <2>2. CASE Load(a)
    <3>1. CASE actor' = [actor EXCEPT ![a].pc = "measure", ![a].seen = traffic[Dep(a)]]
      <4>1. traffic[Dep(a)] \in Nat /\ "measure" \in Points \ {"idle"}
        BY <1>1, ActorFields DEF TypeOK, Points
      <4> QED BY <3>1, <4>1
    <3>2. CASE \E pc \in {"end", "refused"} : actor' = [actor EXCEPT ![a].pc = pc]
      BY <2>1, <3>2 DEF Points
    <3> QED BY <2>2, <3>1, <3>2 DEF Load
  <2>3. CASE Gate(a)
    <3>1. PICK result \in Results : actor' = [actor EXCEPT ![a].pc = Verdict(a, result)]
      BY <2>3 DEF Gate
    <3>2. Verdict(a, result) \in Points \ {"idle"}
      BY DEF Verdict, Points
    <3> QED BY <2>1, <3>1, <3>2
  <2>4. CASE CreateCheck(a) \/ CreateInsert(a) \/ StartRead(a) \/ StartActivate(a)
    <3>1. \E pc \in {"refused", "insert", "done", "activate", "enqueue"} :
             actor' = [actor EXCEPT ![a].pc = pc]
      BY <2>4 DEF CreateCheck, CreateInsert, StartRead, StartActivate
    <3> QED BY <2>1, <3>1 DEF Points
  <2>5. CASE DecisionRefused(a) \/ Pause(a) \/ Advance(a) \/ Promote(a) \/ RollBack(a) \/ Record(a)
    <3>1. \E pc \in {"refused", "end", "done", "enqueue", "recordPromote", "recordRollback"} :
             actor' = [actor EXCEPT ![a].pc = pc]
      BY <2>5 DEF DecisionRefused, Pause, Advance, Promote, RollBack, Record, Exit
    <3> QED BY <2>1, <3>1 DEF Points
  <2> QED BY <2>2, <2>3, <2>4, <2>5 DEF Moves
<1>3. PICK pc \in Points \ {"idle"}, n \in Nat :
         actor' = [actor EXCEPT ![a].pc = pc, ![a].seen = n]
  BY <1>2
<1>4. /\ actor'[a].dep = actor[a].dep /\ actor'[a].win = actor[a].win
      /\ actor'[a].try = actor[a].try /\ actor'[a].pc # "idle"
      /\ \A b \in Actors \ {a} : actor'[b] = actor[b]
  BY <1>1, <1>3 DEF ActorStates
<1>5. actor[a].pc \notin {"idle", "end", "enqueue", "done", "lost"}
  BY DEF Moves, CreateCheck, CreateInsert, StartRead, StartActivate, DecisionRefused, Load, Gate,
         Pause, Advance, Promote, RollBack, Record
<1>6. UNCHANGED queue
  BY DEF Moves, CreateCheck, CreateInsert, StartRead, StartActivate, DecisionRefused, Load, Gate,
         Pause, Advance, Promote, RollBack, Record
<1> QED BY <1>4, <1>5, <1>6 DEF Local

LEMMA MovesDecide ==
    ASSUME TypeOK, NEW a \in Actors, Moves(a), NEW d \in Deployments,
           Interrupted(d) => Interrupted(d)'
    PROVE  Decides(a, d)
<1> USE DEF At, Goto, rows
<1>1. /\ actor[a] \in ActorStates /\ Dep(a) \in Deployments /\ Dep(a)' = Dep(a)
      /\ actor \in [Actors -> ActorStates]
      /\ status \in [Deployments -> Statuses]
      /\ records \in [Deployments -> SUBSET {"PROMOTE", "ROLLBACK"}]
  BY ActorFields, MovesLocal DEF Local, Dep, TypeOK
<1>2. CASE Promote(a)
  BY <1>1, <1>2 DEF Promote, Decides, ActorStates
<1>3. CASE RollBack(a)
  BY <1>1, <1>3 DEF RollBack, Decides, ActorStates
<1>4. CASE Record(a)
  BY <1>1, <1>4 DEF Record, Decides
<1>5. ASSUME UNCHANGED records, actor[a].pc \notin {"recordPromote", "recordRollback"},
             status'[d] \in {"PROMOTED", "ROLLED_BACK"} => status'[d] = status[d]
      PROVE  Decides(a, d)
  BY <1>5 DEF Decides
<1>6. CASE CreateInsert(a) \/ StartActivate(a) \/ Pause(a)
  BY <1>1, <1>5, <1>6 DEF CreateInsert, StartActivate, Pause
<1>7. CASE CreateCheck(a) \/ StartRead(a) \/ DecisionRefused(a) \/ Load(a) \/ Gate(a) \/ Advance(a)
  BY <1>5, <1>7 DEF CreateCheck, StartRead, DecisionRefused, Load, Gate, Advance
<1> QED BY <1>2, <1>3, <1>4, <1>6, <1>7 DEF Moves

LEMMA MovesKeep ==
    ASSUME TypeOK, TypeOK', QInv, NEW a \in Actors, Moves(a)
    PROVE  QInv'
<1>1. Local(a)
  BY MovesLocal
<1>2. /\ Holding' /\ CallWindows' /\ Chains'
      /\ \A d \in Deployments : Interrupted(d) => Interrupted(d)'
  BY <1>1, LocalKeeps
<1>3. DecisionRecorded'
  BY <1>1, <1>2, MovesDecide, DecisionKept DEF QInv, Local
<1> QED BY <1>2, <1>3 DEF QInv

LEMMA LostKeeps ==
    ASSUME TypeOK, TypeOK', QInv, NEW c \in Calls, CallLost(c)
    PROVE  QInv'
<1>1. c \in Actors /\ actor[c] \in ActorStates /\ actor' = [actor EXCEPT ![c].pc = "lost"]
      /\ UNCHANGED <<rows, queue>> /\ c \notin Workers
  BY CanaryAssumption DEF CallLost, Goto, Actors, TypeOK
<1>2. Local(c) /\ At(c, "lost")' /\ Dep(c)' = Dep(c)
  BY <1>1 DEF CallLost, InFlight, Local, At, Dep, TypeOK, ActorStates
<1>3. /\ Holding' /\ CallWindows' /\ Chains'
      /\ \A d \in Deployments : Interrupted(d) => Interrupted(d)'
  BY <1>1, <1>2, LocalKeeps
<1>4. \A d : Dep(c) = d => Interrupted(d)'
  BY <1>2 DEF Interrupted
<1>5. DecisionRecorded'
  BY <1>1, <1>2, <1>3, <1>4, DecisionKept DEF QInv, Local, Decides, rows
<1> QED BY <1>3, <1>5 DEF QInv

LEMMA AddingSteps ==
    ASSUME TypeOK, TypeOK', QInv, NEW a \in Actors,
           Enqueue(a) \/ (a \in Workers /\ Defer(a))
    PROVE  QInv'
<1>1. CASE Enqueue(a)
  <2>1. Adds(a, <<Dep(a), actor[a].win + 1, 0>>)
    BY <1>1 DEF Enqueue, Adds, At, rows
  <2> QED BY <2>1, AddsKeeps
<1>2. CASE a \in Workers /\ Defer(a)
  <2>1. PICK t \in FreshTries(a) : jobs' = Added(<<Dep(a), actor[a].win, t>>)
    BY <1>2 DEF Defer
  <2>2. a \notin Calls
    BY <1>2, CanaryAssumption
  <2>3. Adds(a, <<Dep(a), actor[a].win, t>>)
    BY <1>2, <2>1, <2>2 DEF Defer, Adds, Exit, At, rows
  <2> QED BY <2>3, AddsKeeps
<1> QED BY <1>1, <1>2

LEMMA QueueInit == Init => QInv
<1> SUFFICES ASSUME Init PROVE QInv
  OBVIOUS
<1>1. PICK d \in Deployments, named \in [Calls -> Windows] :
         actor = [a \in Actors |-> IF a \in Calls THEN Calling(a, named[a])
                                                  ELSE Resting(d)]
  BY DEF Init
<1>2. \A w \in Workers : At(w, "idle")
  BY <1>1, CanaryAssumption DEF Actors, Resting, At
<1>3. Holding
  BY <1>2 DEF Holding
<1>4. CallWindows
  <2>1. ASSUME NEW c \in Calls, Kind[c] # "evaluate" PROVE actor[c].win = 0
    BY <1>1, <2>1 DEF Actors, Calling, Resting
  <2> QED BY <2>1 DEF CallWindows
<1>5. \A j \in JobIds : jobs[j] = "none"
  BY DEF Init
<1>6. Chains
  BY <1>5 DEF Chains, Chain, Open
<1>7. DecisionRecorded
  BY DEF Init, DecisionRecorded
<1> QED BY <1>3, <1>4, <1>6, <1>7 DEF QInv

LEMMA QueueNext == IInv /\ IInv' /\ QInv /\ [Next]_vars => QInv'
<1> SUFFICES ASSUME IInv, IInv', QInv, [Next]_vars PROVE QInv'
  OBVIOUS
<1>1. TypeOK /\ TypeOK' /\ StallBound
  BY DEF IInv
<1>2. ASSUME NEW a \in Actors, EvaluationStep(a) PROVE QInv'
  BY <1>1, <1>2, MovesKeep, AddingSteps DEF EvaluationStep, Moves
<1>3. ASSUME NEW c \in Calls, CallStep(c) \/ CallLost(c) PROVE QInv'
  BY <1>1, <1>2, <1>3, MovesKeep, LostKeeps DEF CallStep, Moves, Actors
<1>4. ASSUME NEW w \in Workers, WorkerStep(w) \/ WorkerThrows(w) \/ WorkerCrash(w) PROVE QInv'
  BY <1>1, <1>2, <1>4, ClaimKeeps, AddingSteps, LeaveKeeps DEF WorkerStep, Actors
<1>5. ASSUME NEW j \in JobIds, JobStalled(j) PROVE QInv'
  BY <1>1, <1>5, StalledKeeps
<1>6. CASE UNCHANGED vars
  BY <1>6 DEF vars, QInv, Holding, CallWindows, Chains, Chain, HandScheduled, Interrupted, Open,
              Holds, Held, At, Job, Dep, DecisionRecorded
<1> QED BY <1>3, <1>4, <1>5, <1>6 DEF Next

LEMMA QueueInvariant == Spec => []QInv
<1> QED BY Invariant, QueueInit, QueueNext, PTL DEF Spec

\* Two evaluations past their read of the row would be two open jobs.
LEMMA OneOpenJob ==
    ASSUME TypeOK, QInv
    PROVE  OneEvaluation
<1> SUFFICES ASSUME NEW d \in Deployments, ~HandScheduled(d), ~Interrupted(d),
                    NEW v \in Workers, NEW w \in Workers,
                    Acting(v), Acting(w), Dep(v) = d, Dep(w) = d
             PROVE  v = w
  BY DEF OneEvaluation, HandScheduled, At
<1>1. Chain(d)
  BY DEF QInv, Chains
<1>2. ASSUME NEW x \in Workers, Acting(x), Dep(x) = d
      PROVE  ~At(x, "idle") /\ Job(x) \in JobIds /\ Job(x)[1] = d /\ Open(Job(x))
  <2>1. ~At(x, "idle") /\ ~At(x, "end")
    BY <1>2 DEF Acting, At
  <2>2. Job(x) \in JobIds /\ jobs[Job(x)] = "active"
    BY <2>1 DEF QInv, Holding
  <2>3. \A y \in Workers : Holds(y, Job(x)) => y = x
    BY <2>1 DEF QInv, Holding, Holds
  <2>4. Job(x)[1] = d
    BY <1>2, ActorFields DEF Actors
  <2> QED BY <2>1, <2>2, <2>3, <2>4 DEF Open
<1>3. Job(v) = Job(w)
  BY <1>1, <1>2 DEF Chain
<1> QED BY <1>2, <1>3 DEF QInv, Holding


-----------------------------------------------------------------------------
\* Every variable of the canary model keeps its type, the stall counters of
\* the queue included.
THEOREM TypeCorrect == Spec => []TypeOK
<1>1. IInv => TypeOK
  BY DEF IInv
<1> QED BY Invariant, <1>1, PTL

\* The traffic of an ACTIVE canary is covered by the gates that passed, in
\* every interleaving of starts, evaluations, deferrals, crashes and calls.
THEOREM TrafficIsEarned == Spec => []TrafficEarned
<1>1. IInv => TrafficEarned
  BY DEF IInv
<1> QED BY Invariant, <1>1, PTL

\* A promotion nobody asked for is covered by gates up to maxTrafficPct.
THEOREM PromotionIsEarned == Spec => []PromotionEarned
<1>1. IInv => PromotionEarned
  BY DEF IInv
<1> QED BY Invariant, <1>1, PTL

\* A decision that a row shows is recorded, or the actor that took it is about
\* to record it, or something died on the deployment: no interleaving of
\* calls and evaluations loses a record.
THEOREM DecisionIsRecorded == Spec => []DecisionRecorded
<1>1. QInv => DecisionRecorded
  BY DEF QInv
<1> QED BY QueueInvariant, <1>1, PTL

\* With no evaluation by hand and nothing stalled or dead, second starts and
\* deferred windows never bring two evaluations of a deployment together.
THEOREM OneEvaluationAtATime == Spec => []OneEvaluation
<1>1. IInv /\ QInv => OneEvaluation
  BY OneOpenJob DEF IInv
<1> QED BY Invariant, QueueInvariant, <1>1, PTL
===============================================================================
