-------------------------- MODULE PackLifecycle_proofs --------------------------
(***************************************************************************)
(* PackLifecycle: a version is imported by one run only and a settled      *)
(* block stands, for any number of jobs, runs, calls, attempts and stalls. *)
(*                                                                         *)
(* ImportedOnce speaks of two runs that both own the version's row.  What  *)
(* makes it inductive is that owning implies the row exists (OwnersRow),   *)
(* and that the queue gives a job to one live run at a time (Holding),     *)
(* which the counters of attempts and stalls of TypeOK need as well.       *)
(***************************************************************************)
EXTENDS PackLifecycle, TLAPS

Live(s) == ~At(s, "idle") /\ ~run[s].orphan

Holding ==
    /\ \A s \in Slots : Live(s) => jobs[Job(s)] = "active"
    /\ \A s, t \in Slots : Live(s) /\ Live(t) /\ Job(s) = Job(t) => s = t
    /\ \A s \in Slots : At(s, "audit") => ~run[s].orphan

Budget ==
    \A j \in Jobs : jobs[j] \in {"none", "waiting", "active"} =>
        tries[j] < MaxAttempts /\ stalls[j] <= MaxStalled

OwnersRow ==
    /\ \A s \in Slots : OwnsVersion(s) => status # "NONE"
    /\ \A s \in Slots : At(s, "audit") => published
    /\ \A c \in Calls : In(c, "write") => call[c].to # "NONE"

QInv == TypeOK /\ Holding /\ Budget
IInv == QInv /\ OwnersRow /\ ImportedOnce /\ CompletedMeansPublished

-----------------------------------------------------------------------------
(* The pipeline's steps, by what they do to the queue.                     *)

\* The steps of a run that leave the queue alone and stay in the run or end it.
Quiet(s) ==
    \/ FindPack(s) \/ FindVersion(s) \/ CreatePack(s) \/ CreateVersion(s)
    \/ Validate(s) \/ Scan(s) \/ Certify(s) \/ MarkCertified(s) \/ Sign(s)
    \/ Publish(s)

\* What a quiet step does to run and to the queue.
Moved(s) ==
    /\ ~At(s, "idle") /\ ~At(s, "audit")
    /\ UNCHANGED queue
    /\ \/ run' = [run EXCEPT ![s] = Resting]
       \/ \E pc \in RunPoints \ {"idle"} :
             /\ run' = [run EXCEPT ![s].pc = pc]
             /\ pc = "audit" => ~run[s].orphan

LEMMA GotoMoves ==
    ASSUME NEW s \in Slots, ~At(s, "idle"), ~At(s, "audit"), UNCHANGED queue,
           NEW pc \in RunPoints \ {"idle"}, pc = "audit" => ~run[s].orphan,
           Goto(s, pc)
    PROVE  Moved(s)
BY DEF Moved, Goto

LEMMA NextStageMoves ==
    ASSUME NEW s \in Slots, ~At(s, "idle"), ~At(s, "audit"), UNCHANGED queue,
           NEW pc \in RunPoints \ {"idle"}, NextStage(s, pc)
    PROVE  Moved(s)
BY GotoMoves DEF NextStage, Leave, Moved

LEMMA QuietMoves ==
    ASSUME NEW s \in Slots, Quiet(s)
    PROVE  Moved(s)
<1>0. /\ Quiet(s) => ~At(s, "idle") /\ ~At(s, "audit") /\ UNCHANGED queue
      /\ \A pc \in {"findVersion", "createPack", "createVersion", "validate", "scan",
                    "certify", "markCertified", "sign", "publish", "audit"} :
            pc \in RunPoints \ {"idle"}
  BY DEF Quiet, FindPack, FindVersion, CreatePack, CreateVersion, Validate, Scan,
         Certify, MarkCertified, Sign, Publish, Write, At, RunPoints, Owning
<1>1. CASE FindPack(s)
  BY <1>0, <1>1, GotoMoves DEF FindPack
<1>2. CASE FindVersion(s)
  BY <1>0, <1>2, GotoMoves DEF FindVersion
<1>3. CASE CreatePack(s)
  BY <1>0, <1>3, GotoMoves DEF CreatePack
<1>4. CASE CreateVersion(s)
  BY <1>0, <1>4, NextStageMoves DEF CreateVersion
<1>5. CASE Validate(s)
  BY <1>0, <1>5, NextStageMoves DEF Validate, Write
<1>6. CASE Scan(s)
  BY <1>0, <1>6, NextStageMoves DEF Scan, Write
<1>7. CASE Certify(s)
  BY <1>0, <1>7, GotoMoves DEF Certify
<1>8. CASE MarkCertified(s)
  BY <1>0, <1>8, NextStageMoves DEF MarkCertified, Write
<1>9. CASE Sign(s)
  BY <1>0, <1>9, NextStageMoves DEF Sign
<1>10. CASE Publish(s)
  BY <1>0, <1>10, NextStageMoves DEF Publish
<1> QED BY <1>1, <1>2, <1>3, <1>4, <1>5, <1>6, <1>7, <1>8, <1>9, <1>10 DEF Quiet

\* The parts of TypeOK.
RowsType ==
    /\ pack \in BOOLEAN /\ published \in BOOLEAN
    /\ status \in Statuses \cup {"NONE"}
    /\ certs \subseteq CertIds
    /\ installed \subseteq Tenants

RunType ==
    /\ run \in [Slots -> [pc : RunPoints, job : Jobs \cup {"none"}, orphan : BOOLEAN]]
    /\ \A s \in Slots : run[s].job = "none" => run[s].pc = "idle"

QueueType ==
    /\ jobs \in [Jobs -> JobStates]
    /\ tries \in [Jobs -> 0..MaxAttempts]
    /\ stalls \in [Jobs -> 0..MaxStalled + 1]

CallType ==
    call \in [Calls -> [pc : CallPoints, to : Statuses \cup {"NONE"},
                        cert : CertIds \cup {"none"}, seen : Statuses \cup {"NONE"}]]

LEMMA TypeParts == TypeOK <=> RowsType /\ RunType /\ QueueType /\ CallType
BY DEF TypeOK, RowsType, RunType, QueueType, CallType

LEMMA TypePartsNext == TypeOK' <=> RowsType' /\ RunType' /\ QueueType' /\ CallType'
BY DEF TypeOK, RowsType, RunType, QueueType, CallType

LEMMA QuietRows ==
    ASSUME RowsType, NEW s \in Slots, Quiet(s)
    PROVE  RowsType' /\ call' = call
<1> USE DEF RowsType, Write, Statuses, CertIds, rows
<1>1. CASE FindPack(s)       BY <1>1 DEF FindPack
<1>2. CASE FindVersion(s)    BY <1>2 DEF FindVersion
<1>3. CASE CreatePack(s)     BY <1>3 DEF CreatePack
<1>4. CASE CreateVersion(s)  BY <1>4 DEF CreateVersion
<1>5. CASE Validate(s)       BY <1>5 DEF Validate
<1>6. CASE Scan(s)           BY <1>6 DEF Scan
<1>7. CASE Certify(s)        BY <1>7 DEF Certify
<1>8. CASE MarkCertified(s)  BY <1>8 DEF MarkCertified
<1>9. CASE Sign(s)           BY <1>9 DEF Sign
<1>10. CASE Publish(s)       BY <1>10 DEF Publish
<1> QED BY <1>1, <1>2, <1>3, <1>4, <1>5, <1>6, <1>7, <1>8, <1>9, <1>10 DEF Quiet

LEMMA MovedKeeps ==
    ASSUME RunType, QueueType, Holding, Budget, NEW s \in Slots, Moved(s)
    PROVE  RunType' /\ QueueType' /\ Holding' /\ Budget'
<1> USE DEF RunType, QueueType, Moved, At, Job, Live, queue
<1>1. QueueType' /\ Budget'
  BY DEF Budget
<1>2. CASE run' = [run EXCEPT ![s] = Resting]
  <2>1. RunType'
    BY <1>2 DEF Resting, RunPoints
  <2>2. Holding'
    BY <1>2 DEF Resting, RunPoints, Holding
  <2> QED BY <1>1, <2>1, <2>2
<1>3. ASSUME NEW pc \in RunPoints \ {"idle"}, run' = [run EXCEPT ![s].pc = pc],
             pc = "audit" => ~run[s].orphan
      PROVE  RunType' /\ Holding'
  <2>1. RunType'
    BY <1>3
  <2>2. Holding'
    BY <1>3 DEF Holding
  <2> QED BY <2>1, <2>2
<1> QED BY <1>1, <1>2, <1>3

-----------------------------------------------------------------------------
(* The calls touch neither run nor queue.                                  *)

CallRecord == [pc : CallPoints, to : Statuses \cup {"NONE"},
               cert : CertIds \cup {"none"}, seen : Statuses \cup {"NONE"}]

\* One call moves; one that is about to write has a status to write.
CallMoved(c) ==
    \E r \in CallRecord :
        call' = [call EXCEPT ![c] = r] /\ (r.pc = "write" => r.to # "NONE")

LEMMA MovesMoved ==
    ASSUME CallType, NEW c \in Calls, NEW pc \in CallPoints \ {"write"}, Moves(c, pc)
    PROVE  CallMoved(c)
<1>1. [call[c] EXCEPT !.pc = pc] \in CallRecord
  BY DEF CallType, CallRecord
<1>2. call' = [call EXCEPT ![c] = [call[c] EXCEPT !.pc = pc]]
  BY DEF Moves
<1>3. [call[c] EXCEPT !.pc = pc].pc # "write"
  BY DEF CallType
<1> QED BY <1>1, <1>2, <1>3 DEF CallMoved

LEMMA EndsMoved ==
    ASSUME NEW c \in Calls, Ends(c)
    PROVE  CallMoved(c)
<1>1. Over \in CallRecord /\ Over.pc # "write"
  BY DEF Over, Fresh, CallRecord, CallPoints
<1> QED BY <1>1 DEF Ends, CallMoved

LEMMA CallMoves ==
    ASSUME RowsType, CallType, NEW c \in Calls, CallStep(c)
    PROVE  CallMoved(c)
<1>0. {"certify", "mark", "delete", "count", "revert", "findInstall", "install",
       "uninstall"} \subseteq CallPoints \ {"write"}
  BY DEF CallPoints
<1>1. CASE TransitionRead(c)
  <2>1. PICK r \in Requests :
          IF CanTransition(status, r.to, r.role)
          THEN call' = [call EXCEPT ![c].pc = "write", ![c].to = r.to]
          ELSE Ends(c)
    BY <1>1 DEF TransitionRead
  <2>2. r.to \in Statuses
    BY PackAssumption
  <2>3. CASE call' = [call EXCEPT ![c].pc = "write", ![c].to = r.to]
    <3>1. call' = [call EXCEPT ![c] = [call[c] EXCEPT !.pc = "write", !.to = r.to]]
      BY <2>3
    <3>2. /\ [call[c] EXCEPT !.pc = "write", !.to = r.to] \in CallRecord
          /\ [call[c] EXCEPT !.pc = "write", !.to = r.to].to # "NONE"
      BY <2>2 DEF CallType, CallRecord, CallPoints, Statuses
    <3> QED BY <3>1, <3>2 DEF CallMoved
  <2> QED BY <2>1, <2>3, EndsMoved
<1>2. CASE CertifyRead(c)
  <2>1. CASE call' = [call EXCEPT ![c].pc = "certify", ![c].seen = status]
    <3>1. call' = [call EXCEPT ![c] = [call[c] EXCEPT !.pc = "certify", !.seen = status]]
      BY <2>1
    <3>2. /\ [call[c] EXCEPT !.pc = "certify", !.seen = status] \in CallRecord
          /\ [call[c] EXCEPT !.pc = "certify", !.seen = status].pc # "write"
      BY DEF CallType, CallRecord, CallPoints, RowsType
    <3> QED BY <3>1, <3>2 DEF CallMoved
  <2> QED BY <1>2, <2>1, EndsMoved DEF CertifyRead
<1>3. CASE RevokeRead(c)
  <2>1. PICK k \in certs :
          call' = [call EXCEPT ![c].pc = "delete", ![c].cert = k, ![c].seen = status]
    BY <1>3 DEF RevokeRead
  <2>2. call' = [call EXCEPT ![c] = [call[c] EXCEPT !.pc = "delete", !.cert = k,
                                                    !.seen = status]]
    BY <2>1
  <2>3. k \in CertIds
    BY DEF RowsType
  <2>4. /\ [call[c] EXCEPT !.pc = "delete", !.cert = k, !.seen = status] \in CallRecord
        /\ [call[c] EXCEPT !.pc = "delete", !.cert = k, !.seen = status].pc # "write"
    BY <2>3 DEF CallType, CallRecord, CallPoints, RowsType
  <2> QED BY <2>2, <2>4 DEF CallMoved
<1>4. CASE (\E pc \in CallPoints \ {"write"} : Moves(c, pc)) \/ Ends(c)
  BY <1>4, MovesMoved, EndsMoved
<1> QED
  BY <1>0, <1>1, <1>2, <1>3, <1>4 DEF CallStep, TransitionWrite, CertifyCreate,
     CertifyMark, RevokeDelete, RevokeCount, RevokeRevert, InstallRead,
     InstallFind, InstallCreate, UninstallFind, UninstallDelete, CallFails

\* What a call does to the rows.
LEMMA CallRows ==
    ASSUME RowsType, CallType, OwnersRow, NEW c \in Calls, CallStep(c)
    PROVE  /\ RowsType'
           /\ UNCHANGED <<queue, run>>
           /\ status # "NONE" => status' # "NONE"
           /\ published => published'
<1> USE DEF RowsType, Sets, rows
<1>1. CASE TransitionRead(c)   BY <1>1 DEF TransitionRead
<1>2. CASE TransitionWrite(c)
  <2>1. call[c].to \in Statuses
    BY <1>2 DEF TransitionWrite, OwnersRow, CallType
  <2>2. status' = call[c].to /\ published' = (published \/ call[c].to = "PUBLISHED")
    BY <1>2 DEF TransitionWrite
  <2> QED BY <1>2, <2>1, <2>2 DEF TransitionWrite, Statuses
<1>3. CASE CertifyRead(c)      BY <1>3 DEF CertifyRead
<1>4. CASE CertifyCreate(c)    BY <1>4 DEF CertifyCreate, CertIds
<1>5. CASE CertifyMark(c)      BY <1>5 DEF CertifyMark, Statuses
<1>6. CASE RevokeRead(c)       BY <1>6 DEF RevokeRead
<1>7. CASE RevokeDelete(c)     BY <1>7 DEF RevokeDelete
<1>8. CASE RevokeCount(c)      BY <1>8 DEF RevokeCount
<1>9. CASE RevokeRevert(c)     BY <1>9 DEF RevokeRevert, Statuses
<1>10. CASE InstallRead(c)     BY <1>10 DEF InstallRead
<1>11. CASE InstallFind(c)     BY <1>11 DEF InstallFind
<1>12. CASE InstallCreate(c)   BY <1>12, PackAssumption DEF InstallCreate
<1>13. CASE UninstallFind(c)   BY <1>13 DEF UninstallFind
<1>14. CASE UninstallDelete(c) BY <1>14 DEF UninstallDelete
<1>15. CASE CallFails(c)       BY <1>15 DEF CallFails
<1> QED BY <1>1, <1>2, <1>3, <1>4, <1>5, <1>6, <1>7, <1>8, <1>9, <1>10, <1>11,
           <1>12, <1>13, <1>14, <1>15 DEF CallStep

LEMMA CallKeeps ==
    ASSUME TypeOK, OwnersRow, NEW c \in Calls, CallStep(c)
    PROVE  /\ RowsType' /\ CallType'
           /\ UNCHANGED <<queue, run>>
<1>1. CallMoved(c)
  BY CallMoves, TypeParts
<1>2. CallType'
  BY <1>1, TypeParts DEF CallMoved, CallType, CallRecord
<1> QED BY <1>2, CallRows, TypeParts

-----------------------------------------------------------------------------
(* The steps that move a job.                                              *)

LEMMA AttemptKeeps ==
    ASSUME QInv, NEW s \in Slots, ~At(s, "idle"),
           IF run[s].orphan THEN UNCHANGED queue ELSE AttemptFails(Job(s)),
           Leave(s) \/ (~At(s, "audit") /\ run' = [run EXCEPT ![s].orphan = TRUE])
    PROVE  RunType' /\ QueueType' /\ Holding' /\ Budget'
<1> USE PackAssumption, TypeParts DEF QInv, At, Job, Live, queue
<1>0. RunType'
  <2>1. CASE Leave(s)
    BY <2>1 DEF RunType, Leave, Resting, RunPoints
  <2>2. CASE run' = [run EXCEPT ![s].orphan = TRUE]
    BY <2>2 DEF RunType
  <2> QED BY <2>1, <2>2
<1>1. CASE run[s].orphan
  <2>1. \A t \in Slots : Live(t)' => Live(t) /\ run'[t] = run[t]
    BY <1>1 DEF RunType, Leave, Resting
  <2>2. \A t \in Slots : At(t, "audit")' => run'[t] = run[t]
    BY DEF RunType, Leave, Resting
  <2>3. Holding'
    BY <1>1, <2>1, <2>2 DEF Holding
  <2> QED BY <1>0, <1>1, <2>3 DEF QueueType, Budget
<1>2. CASE ~run[s].orphan
  <2>0. /\ Job(s) \in Jobs /\ AttemptFails(Job(s))
        /\ jobs[Job(s)] = "active" /\ tries[Job(s)] < MaxAttempts
    BY <1>2 DEF RunType, Holding, Budget
  <2>1. QueueType'
    BY <2>0 DEF QueueType, AttemptFails, JobStates
  <2>2. Budget'
    BY <2>0 DEF QueueType, AttemptFails, Budget
  <2>3. \A t \in Slots : Live(t)' => t # s /\ Live(t) /\ run'[t] = run[t]
    BY DEF RunType, Leave, Resting
  <2>4. \A t \in Slots : Live(t)' => Job(t) # Job(s) /\ jobs'[Job(t)] = jobs[Job(t)]
    BY <1>2, <2>0, <2>3 DEF Holding, RunType, QueueType, AttemptFails
  <2>5. \A t \in Slots : At(t, "audit")' => t # s /\ run'[t] = run[t]
    BY DEF RunType, Leave, Resting
  <2>6. Holding'
    BY <2>3, <2>4, <2>5 DEF Holding
  <2> QED BY <1>0, <2>1, <2>2, <2>6
<1> QED BY <1>1, <1>2

LEMMA RunQueueKeeps ==
    ASSUME QInv, NEW s \in Slots,
           (\E j \in Jobs : Claim(s, j)) \/ Complete(s) \/ WorkerCrash(s)
    PROVE  RunType' /\ QueueType' /\ Holding' /\ Budget'
<1> USE PackAssumption, TypeParts DEF QInv, At, Job, Live, queue
<1>1. ASSUME NEW j \in Jobs, Claim(s, j)
      PROVE  RunType' /\ QueueType' /\ Holding' /\ Budget'
  <2>1. RunType' /\ QueueType' /\ Budget'
    BY <1>1 DEF Claim, RunType, QueueType, Budget, RunPoints, JobStates
  <2>2. Holding'
    BY <1>1 DEF Claim, RunType, QueueType, Holding
  <2> QED BY <2>1, <2>2
<1>2. CASE Complete(s)
  <2>0. Job(s) \in Jobs /\ Live(s)
    BY <1>2 DEF Complete, Holding, RunType
  <2>1. RunType' /\ QueueType' /\ Budget'
    BY <1>2 DEF Complete, Leave, Resting, RunType, QueueType, Budget, RunPoints, JobStates
  <2>2. Holding'
    BY <1>2, <2>0 DEF Complete, Leave, Resting, RunType, QueueType, Holding
  <2> QED BY <2>1, <2>2
<1>3. CASE WorkerCrash(s)
  <2>1. RunType' /\ QueueType' /\ Budget'
    BY <1>3 DEF WorkerCrash, Leave, Resting, RunType, QueueType, Budget, RunPoints
  <2>2. Holding'
    BY <1>3 DEF WorkerCrash, Leave, Resting, RunType, Holding
  <2> QED BY <2>1, <2>2
<1> QED BY <1>1, <1>2, <1>3

LEMMA JobQueueKeeps ==
    ASSUME QInv, NEW j \in Jobs, Import(j) \/ JobStalled(j)
    PROVE  RunType' /\ QueueType' /\ Holding' /\ Budget'
<1> USE PackAssumption, TypeParts DEF QInv, At, Job, Live, queue
<1>1. CASE Import(j)
  <2>1. RunType' /\ QueueType' /\ Budget'
    BY <1>1 DEF Import, RunType, QueueType, Budget, JobStates
  <2>2. Holding'
    BY <1>1 DEF Import, RunType, QueueType, Holding
  <2> QED BY <2>1, <2>2
<1>2. CASE JobStalled(j)
  <2>1. RunType' /\ QueueType' /\ Budget'
    BY <1>2 DEF JobStalled, RunType, QueueType, Budget, JobStates
  <2>2. Holding'
    BY <1>2 DEF JobStalled, Held, RunType, QueueType, Holding
  <2> QED BY <2>1, <2>2
<1> QED BY <1>1, <1>2

\* Next, by the lemma that handles the step.
LEMMA NextCases ==
    ASSUME Next
    PROVE  \/ \E s \in Slots : Quiet(s)
           \/ \E s \in Slots : Reject(s) \/ Throws(s) \/ Timeout(s)
           \/ \E s \in Slots, j \in Jobs : Claim(s, j)
           \/ \E s \in Slots : Complete(s) \/ WorkerCrash(s)
           \/ \E j \in Jobs : Import(j) \/ JobStalled(j)
           \/ \E c \in Calls : CallStep(c)
BY DEF Next, RunStep, StageStep, Quiet

LEMMA QueueInvariant == QInv /\ OwnersRow /\ [Next]_vars => QInv'
<1> SUFFICES ASSUME QInv, OwnersRow, [Next]_vars PROVE QInv'
  OBVIOUS
<1> SUFFICES (RowsType /\ RunType /\ QueueType /\ CallType)' /\ Holding' /\ Budget'
  BY TypePartsNext DEF QInv
<1>0. RowsType /\ RunType /\ QueueType /\ CallType /\ Holding /\ Budget
  BY TypeParts DEF QInv
<1>1. CASE UNCHANGED vars
  BY <1>0, <1>1 DEF vars, rows, queue, RowsType, RunType, QueueType, CallType,
     Holding, Budget, Live, At, Job
<1>2. ASSUME NEW s \in Slots, Quiet(s)
      PROVE  (RowsType /\ RunType /\ QueueType /\ CallType)' /\ Holding' /\ Budget'
  BY <1>0, <1>2, QuietMoves, QuietRows, MovedKeeps DEF CallType
<1>3. ASSUME NEW s \in Slots, Reject(s) \/ Throws(s) \/ Timeout(s)
      PROVE  (RowsType /\ RunType /\ QueueType /\ CallType)' /\ Holding' /\ Budget'
  <2>1. /\ ~At(s, "idle")
        /\ IF run[s].orphan THEN UNCHANGED queue ELSE AttemptFails(Job(s))
        /\ Leave(s) \/ (~At(s, "audit") /\ run' = [run EXCEPT ![s].orphan = TRUE])
    BY <1>3 DEF Reject, Throws, Timeout, At
  <2>2. RowsType' /\ CallType'
    BY <1>0, <1>3 DEF Reject, Throws, Timeout, RowsType, CallType, Statuses, rows
  <2> QED BY <2>1, <2>2, AttemptKeeps
<1>4. ASSUME NEW s \in Slots,
             (\E j \in Jobs : Claim(s, j)) \/ Complete(s) \/ WorkerCrash(s)
      PROVE  (RowsType /\ RunType /\ QueueType /\ CallType)' /\ Holding' /\ Budget'
  <2>1. RowsType' /\ CallType'
    BY <1>0, <1>4 DEF Claim, Complete, WorkerCrash, RowsType, CallType, rows
  <2> QED BY <1>4, <2>1, RunQueueKeeps
<1>6. ASSUME NEW j \in Jobs, Import(j) \/ JobStalled(j)
      PROVE  (RowsType /\ RunType /\ QueueType /\ CallType)' /\ Holding' /\ Budget'
  <2>1. RowsType' /\ CallType'
    BY <1>0, <1>6 DEF Import, JobStalled, RowsType, CallType, rows
  <2> QED BY <1>6, <2>1, JobQueueKeeps
<1>5. ASSUME NEW c \in Calls, CallStep(c)
      PROVE  (RowsType /\ RunType /\ QueueType /\ CallType)' /\ Holding' /\ Budget'
  <2>1. RowsType' /\ CallType' /\ UNCHANGED <<queue, run>>
    BY <1>5, CallKeeps DEF QInv
  <2> QED BY <1>0, <2>1 DEF RunType, QueueType, Holding, Budget, Live, At, Job, queue
<1> QED BY <1>1, <1>2, <1>3, <1>4, <1>5, NextCases, <1>6

-----------------------------------------------------------------------------
(* One import.                                                             *)

\* What every step but the creation of the row and the end of a job does.
Tame ==
    /\ status # "NONE" => status' # "NONE"
    /\ published => published'
    /\ \A t \in Slots : OwnsVersion(t)' => OwnsVersion(t)
    /\ \A t \in Slots : At(t, "audit")' => published'
    /\ \A j \in Jobs : jobs'[j] = "completed" => jobs[j] = "completed"
    /\ \A c \in Calls : In(c, "write")' => call'[c].to # "NONE"

LEMMA StepEffects ==
    ASSUME IInv, Next
    PROVE  \/ \E s \in Slots : CreateVersion(s) \/ Complete(s)
           \/ Tame
<1>0. RunType /\ QueueType /\ CallType /\ OwnersRow
  BY TypeParts DEF IInv, QInv
<1> USE <1>0, PackAssumption DEF OwnsVersion, At, Goto, Leave, Resting, Owning, In
<1>1. ASSUME NEW s \in Slots, Quiet(s), ~CreateVersion(s)
      PROVE  Tame
  <2>1. CASE FindPack(s)       BY <2>1 DEF FindPack, Tame, RunType, OwnersRow, rows, queue
  <2>2. CASE FindVersion(s)    BY <2>2 DEF FindVersion, Tame, RunType, OwnersRow, rows, queue
  <2>3. CASE CreatePack(s)     BY <2>3 DEF CreatePack, Tame, RunType, OwnersRow, rows, queue
  <2>4. CASE Validate(s)
    BY <2>4 DEF Validate, Write, NextStage, Tame, RunType, OwnersRow, rows, queue
  <2>5. CASE Scan(s)
    BY <2>5 DEF Scan, Write, NextStage, Tame, RunType, OwnersRow, rows, queue
  <2>6. CASE Certify(s)        BY <2>6 DEF Certify, Tame, RunType, OwnersRow, rows, queue
  <2>7. CASE MarkCertified(s)
    BY <2>7 DEF MarkCertified, Write, NextStage, Tame, RunType, OwnersRow, rows, queue
  <2>8. CASE Sign(s)           BY <2>8 DEF Sign, NextStage, Tame, RunType, OwnersRow, rows, queue
  <2>9. CASE Publish(s)        BY <2>9 DEF Publish, NextStage, Tame, RunType, OwnersRow, rows, queue
  <2> QED BY <1>1, <2>1, <2>2, <2>3, <2>4, <2>5, <2>6, <2>7, <2>8, <2>9 DEF Quiet
<1>2. ASSUME NEW s \in Slots, Reject(s) \/ Throws(s) \/ Timeout(s)
      PROVE  Tame
  <2>1. UNCHANGED queue \/ (Job(s) \in Jobs /\ AttemptFails(Job(s)))
    BY <1>2 DEF Reject, Throws, Timeout, RunType, Job
  <2>2. \A j \in Jobs : jobs'[j] = "completed" => jobs[j] = "completed"
    BY <2>1 DEF queue, AttemptFails, QueueType
  <2> QED BY <1>2, <2>2 DEF Reject, Throws, Timeout, Tame, RunType, OwnersRow, rows
<1>3. ASSUME NEW s \in Slots, (\E j \in Jobs : Claim(s, j)) \/ WorkerCrash(s)
      PROVE  Tame
  BY <1>3 DEF Claim, WorkerCrash, Tame, RunType, QueueType, OwnersRow, rows, queue
<1>4. ASSUME NEW j \in Jobs, Import(j) \/ JobStalled(j)
      PROVE  Tame
  BY <1>4 DEF Import, JobStalled, Tame, QueueType, OwnersRow, rows
<1>5. ASSUME NEW c \in Calls, CallStep(c)
      PROVE  Tame
  <2>1. /\ UNCHANGED <<queue, run>>
        /\ status # "NONE" => status' # "NONE"
        /\ published => published'
    BY <1>5, CallRows, TypeParts DEF IInv, QInv
  <2>2. \A d \in Calls : In(d, "write")' => call'[d].to # "NONE"
    BY <1>5, CallMoves, TypeParts DEF IInv, QInv, CallMoved, CallType, OwnersRow
  <2> QED BY <2>1, <2>2 DEF Tame, OwnersRow, queue
<1> QED BY <1>1, <1>2, <1>3, <1>4, <1>5, NextCases

LEMMA OwnershipStep == IInv /\ [Next]_vars =>
                          OwnersRow' /\ ImportedOnce' /\ CompletedMeansPublished'
<1> SUFFICES ASSUME IInv, [Next]_vars
             PROVE  OwnersRow' /\ ImportedOnce' /\ CompletedMeansPublished'
  OBVIOUS
<1>0. RunType /\ QueueType /\ OwnersRow /\ ImportedOnce /\ CompletedMeansPublished
  BY TypeParts DEF IInv, QInv
<1> USE <1>0
<1>1. CASE UNCHANGED vars
  BY <1>1 DEF vars, rows, queue, OwnersRow, ImportedOnce, CompletedMeansPublished,
     OwnsVersion, At, In
<1>2. CASE Tame
  BY <1>2 DEF Tame, OwnersRow, ImportedOnce, CompletedMeansPublished, QueueType
<1>3. ASSUME NEW s \in Slots, CreateVersion(s)
      PROVE  OwnersRow' /\ ImportedOnce' /\ CompletedMeansPublished'
  <2>1. /\ status = "NONE" /\ status' = "DRAFT"
        /\ UNCHANGED <<published, jobs, call>>
        /\ \A t \in Slots \ {s} : run'[t] = run[t]
        /\ run'[s].pc # "audit"
    BY <1>3 DEF CreateVersion, NextStage, Leave, Goto, Resting, RunType, At, queue
  <2>2. \A t \in Slots : ~OwnsVersion(t)
    BY <2>1 DEF OwnersRow
  <2>3. \A j \in Jobs : jobs[j] # "completed"
    BY <2>1 DEF CompletedMeansPublished
  <2>4. \A t \in Slots : OwnsVersion(t)' => t = s
    BY <2>1, <2>2 DEF OwnsVersion
  <2>5. OwnersRow'
    BY <2>1 DEF OwnersRow, At, In
  <2> QED BY <2>1, <2>3, <2>4, <2>5 DEF ImportedOnce, CompletedMeansPublished
<1>4. ASSUME NEW s \in Slots, Complete(s)
      PROVE  OwnersRow' /\ ImportedOnce' /\ CompletedMeansPublished'
  <2>1. /\ jobs' = [jobs EXCEPT ![Job(s)] = "completed"]
        /\ UNCHANGED <<pack, status, published, certs, installed, call>>
        /\ run' = [run EXCEPT ![s] = Resting]
        /\ At(s, "audit")
    BY <1>4 DEF Complete, Leave, rows
  <2>2. OwnsVersion(s) /\ status # "NONE" /\ published
    BY <2>1 DEF OwnsVersion, At, Owning, OwnersRow
  <2>3. \A t \in Slots : ~OwnsVersion(t)'
    BY <2>1, <2>2 DEF ImportedOnce, RunType, OwnsVersion, Resting, Owning
  <2>4. \A j \in Jobs : jobs'[j] = "completed" => j = Job(s)
    BY <2>1, <2>2 DEF ImportedOnce, QueueType
  <2>5. OwnersRow'
    BY <2>1, <2>3 DEF OwnersRow, OwnsVersion, At, In, Owning
  <2> QED BY <2>1, <2>2, <2>3, <2>4, <2>5 DEF ImportedOnce, CompletedMeansPublished
<1> QED BY <1>1, <1>2, <1>3, <1>4, StepEffects

LEMMA Initially == Init => IInv
<1> SUFFICES ASSUME Init PROVE IInv
  OBVIOUS
<1>1. /\ \A s \in Slots : run[s] = Resting
      /\ \A c \in Calls : call[c] = Fresh
      /\ \A j \in Jobs : jobs[j] = "none" /\ tries[j] = 0 /\ stalls[j] = 0
      /\ status = "NONE" /\ published = FALSE
  BY DEF Init
<1>2. RowsType
  BY DEF Init, RowsType
<1>3. RunType
  BY DEF Init, RunType, Resting, RunPoints
<1>4. QueueType
  BY PackAssumption DEF Init, QueueType, JobStates
<1>5. CallType
  BY DEF Init, CallType, Fresh, CallPoints
<1>6. Holding /\ Budget
  BY <1>1, PackAssumption DEF Holding, Budget, Live, At, Resting
<1>7. OwnersRow /\ ImportedOnce /\ CompletedMeansPublished
  BY <1>1 DEF OwnersRow, ImportedOnce, CompletedMeansPublished, OwnsVersion, Owning,
     At, In, Resting, Fresh
<1> QED BY <1>2, <1>3, <1>4, <1>5, <1>6, <1>7, TypeParts DEF IInv, QInv

LEMMA Invariance == Spec => []IInv
<1>1. IInv /\ [Next]_vars => IInv'
  BY QueueInvariant, OwnershipStep DEF IInv
<1> QED BY <1>1, Initially, PTL DEF Spec

\* Every variable keeps its type: attempts and stalls are counted within their
\* limits although orphans, crashes and redeliveries overlap (main.ts:41).
THEOREM TypeCorrect == Spec => []TypeOK
BY Invariance, PTL DEF IInv, QInv

\* One run at most owns the version, and none once a job has completed.
THEOREM VersionImportedOnce == Spec => []ImportedOnce
BY Invariance, PTL DEF IInv

\* A job that completes has published the version.
THEOREM CompletedIsPublished == Spec => []CompletedMeansPublished
BY Invariance, PTL DEF IInv

-----------------------------------------------------------------------------
(* The block.                                                              *)

LEMMA BlockStep ==
    ASSUME IInv, BlockSettled, Next
    PROVE  BlockSettled'
<1>0. RowsType /\ RunType /\ CallType /\ status = "BLOCKED"
  BY TypeParts DEF IInv, QInv, BlockSettled
<1> USE <1>0
<1>1. CASE Tame /\ UNCHANGED <<status, call>>
  BY <1>1 DEF Tame, BlockSettled, Overwriting
<1>2. ASSUME NEW s \in Slots, CreateVersion(s) \/ Complete(s) PROVE FALSE
  BY <1>2 DEF CreateVersion, Complete, BlockSettled, OwnsVersion, Owning, At
<1>3. ASSUME NEW s \in Slots, Quiet(s) \/ Reject(s) \/ Throws(s) \/ Timeout(s)
                             \/ (\E j \in Jobs : Claim(s, j)) \/ WorkerCrash(s)
      PROVE  UNCHANGED <<status, call>>
  BY <1>3 DEF Quiet, FindPack, FindVersion, CreatePack, CreateVersion, Validate, Scan,
     Certify, MarkCertified, Sign, Publish, Write, Reject, Throws, Timeout, Claim,
     WorkerCrash, BlockSettled, OwnsVersion, Owning, At, rows
<1>4. ASSUME NEW j \in Jobs, Import(j) \/ JobStalled(j) PROVE UNCHANGED <<status, call>>
  BY <1>4 DEF Import, JobStalled, rows
<1>5. ASSUME NEW c \in Calls, CallStep(c) PROVE BlockSettled'
  <2> USE DEF BlockSettled, Overwriting, In, Moves, Ends, Over, Fresh, Sets, Asks, rows,
              OwnsVersion, CallType
  <2>1. CASE TransitionRead(c)
    <3>1. \A r \in Requests : ~CanTransition(status, r.to, r.role)
      BY DEF CanTransition, Targets
    <3> QED BY <2>1, <3>1 DEF TransitionRead
  <2>2. CASE CertifyRead(c)     BY <2>2 DEF CertifyRead
  <2>3. CASE RevokeRead(c)      BY <2>3 DEF RevokeRead
  <2>4. CASE RevokeDelete(c)    BY <2>4 DEF RevokeDelete
  <2>5. CASE RevokeCount(c)     BY <2>5 DEF RevokeCount
  <2>6. CASE InstallRead(c)     BY <2>6 DEF InstallRead
  <2>7. CASE InstallFind(c)     BY <2>7 DEF InstallFind
  <2>8. CASE InstallCreate(c)   BY <2>8 DEF InstallCreate
  <2>9. CASE UninstallFind(c)   BY <2>9 DEF UninstallFind
  <2>10. CASE UninstallDelete(c) BY <2>10 DEF UninstallDelete
  <2>11. CASE CallFails(c)      BY <2>11 DEF CallFails
  <2>12. ~TransitionWrite(c) /\ ~CertifyCreate(c) /\ ~CertifyMark(c) /\ ~RevokeRevert(c)
    BY DEF TransitionWrite, CertifyCreate, CertifyMark, RevokeRevert
  <2> QED BY <1>5, <2>1, <2>2, <2>3, <2>4, <2>5, <2>6, <2>7, <2>8, <2>9, <2>10,
             <2>11, <2>12 DEF CallStep
<1>6. CASE \E c \in Calls : CallStep(c)
  BY <1>5, <1>6
<1>7. CASE ~\E c \in Calls : CallStep(c)
  <2>1. UNCHANGED <<status, call>>
    BY <1>3, <1>4, <1>7, NextCases, <1>2
  <2>2. Tame
    BY <1>2, StepEffects
  <2> QED BY <1>1, <2>1, <2>2
<1> QED BY <1>6, <1>7

\* Once the writers that were under way are gone, a block stands.
THEOREM BlocksStand == Spec => BlockStands
<1>1. IInv /\ [Next]_vars => [BlockSettled => BlockSettled']_vars
  BY BlockStep
<1> QED BY <1>1, Invariance, PTL DEF Spec, BlockStands
===============================================================================
