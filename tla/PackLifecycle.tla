----------------------------- MODULE PackLifecycle -----------------------------
(***************************************************************************)
(* One version of a pack: the import jobs whose manifests name it run the  *)
(* nine-stage pipeline in the worker, while the API transitions, certifies,*)
(* revokes, installs and uninstalls it.  Every stage races a timer; a      *)
(* stage that loses goes on by itself (an orphan) while its job is         *)
(* retried.  No update of the status has a condition on the status.        *)
(*                                                                         *)
(* Abstracted: manifests, checksums and audit rows; the stages that keep   *)
(* no row (fetch, parse) end in Claim or Throws, and the install stage is  *)
(* skipped, as importPack never asks for it.                               *)
(***************************************************************************)
EXTENDS Naturals, FiniteSets

CONSTANTS
    Jobs,       \* import jobs that name this pack and version
    Slots,      \* bound: pipeline runs alive at a time, orphans included
    Calls,      \* calls of the pack and certification API
    Requests,   \* what a call may ask for: records [kind, to, role]
    Tenants,
    TenantOf,   \* the tenant of each call's user
    MaxAttempts, \* attempts of an import job, 3 in importPack
    MaxStalled   \* BullMQ maxStalledCount

Statuses == {"DRAFT", "IMPORTED", "VALIDATED", "CERTIFIED", "PUBLISHED",
             "DEPRECATED", "BLOCKED"}
Roles    == {"OPERATOR", "TENANT_ADMIN", "PLATFORM_ADMIN"}
Kinds    == {"transition", "certify", "revoke", "install", "uninstall"}

ASSUME PackAssumption ==
    /\ Requests \subseteq [kind : Kinds, to : Statuses, role : Roles]
    /\ TenantOf \in [Calls -> Tenants]
    /\ MaxAttempts \in Nat \ {0} /\ MaxStalled \in Nat
    /\ "none" \notin Jobs \cup Slots \cup Calls

VARIABLES
    pack,       \* the Pack row exists
    status,     \* PackVersion.status; "NONE" before the row exists
    published,  \* PackVersion.publishedAt is set
    certs,      \* Certification rows of the version, by who created them
    installed,  \* tenants with a PackInstallation of the version
    jobs,       \* queue state of each import job
    tries,      \* attempts of the job that failed
    stalls,     \* BullMQ's stalled counter of each job
    run,        \* where each pipeline run is
    call        \* where each call is

rows  == <<pack, status, published, certs, installed>>
queue == <<jobs, tries, stalls>>
vars  == <<rows, queue, run, call>>

-----------------------------------------------------------------------------
JobStates == {"none", "waiting", "active", "completed", "failed"}

\* The points of a run that come after its own PackVersion row.
Owning == {"validate", "scan", "certify", "markCertified", "sign",
           "publish", "audit"}
RunPoints == {"idle", "findPack", "findVersion", "createPack", "createVersion"}
              \cup Owning
CallPoints == {"begin", "write", "certify", "mark", "delete", "count", "revert",
               "findInstall", "install", "uninstall", "done"}

CertIds == Slots \cup Calls

TypeOK ==
    /\ pack \in BOOLEAN /\ published \in BOOLEAN
    /\ status \in Statuses \cup {"NONE"}
    /\ certs \subseteq CertIds
    /\ installed \subseteq Tenants
    /\ jobs \in [Jobs -> JobStates]
    /\ tries \in [Jobs -> 0..MaxAttempts]
    /\ stalls \in [Jobs -> 0..MaxStalled + 1]
    /\ run \in [Slots -> [pc : RunPoints, job : Jobs \cup {"none"}, orphan : BOOLEAN]]
    /\ \A s \in Slots : run[s].job = "none" => run[s].pc = "idle"
    /\ call \in [Calls -> [pc : CallPoints, to : Statuses \cup {"NONE"},
                           cert : CertIds \cup {"none"}, seen : Statuses \cup {"NONE"}]]

Resting == [pc |-> "idle", job |-> "none", orphan |-> FALSE]
Fresh   == [pc |-> "begin", to |-> "NONE", cert |-> "none", seen |-> "NONE"]
Over    == [Fresh EXCEPT !.pc = "done"]

Init ==
    /\ pack = FALSE /\ status = "NONE" /\ published = FALSE
    /\ certs = {} /\ installed = {}
    /\ jobs = [j \in Jobs |-> "none"]
    /\ tries = [j \in Jobs |-> 0]
    /\ stalls = [j \in Jobs |-> 0]
    /\ run = [s \in Slots |-> Resting]
    /\ call = [c \in Calls |-> Fresh]

-----------------------------------------------------------------------------
(* The state machine of pack-domain.ts.                                    *)

Targets(from) ==
    CASE from = "DRAFT"      -> {"IMPORTED", "BLOCKED"}
      [] from = "IMPORTED"   -> {"VALIDATED", "BLOCKED"}
      [] from = "VALIDATED"  -> {"CERTIFIED", "BLOCKED"}
      [] from = "CERTIFIED"  -> {"PUBLISHED", "BLOCKED"}
      [] from = "PUBLISHED"  -> {"DEPRECATED", "BLOCKED"}
      [] from = "DEPRECATED" -> {"BLOCKED"}
      [] OTHER               -> {}

RolesFor(to) ==
    CASE to = "BLOCKED" -> {"PLATFORM_ADMIN"}
      [] to \in {"IMPORTED", "VALIDATED"} -> Roles
      [] OTHER -> {"PLATFORM_ADMIN", "TENANT_ADMIN"}

CanTransition(from, to, role) == to \in Targets(from) /\ role \in RolesFor(to)

-----------------------------------------------------------------------------
(* The queue and the runner.                                               *)

At(s, pc) == run[s].pc = pc
Goto(s, pc) == run' = [run EXCEPT ![s].pc = pc]
Job(s) == run[s].job

Leave(s) == run' = [run EXCEPT ![s] = Resting]

\* The runner takes up the next stage unless it has given up on this one.
NextStage(s, pc) == IF run[s].orphan THEN Leave(s) ELSE Goto(s, pc)

\* PackService.importPack.
Import(j) ==
    /\ jobs[j] = "none"
    /\ jobs' = [jobs EXCEPT ![j] = "waiting"]
    /\ UNCHANGED <<rows, tries, stalls, run, call>>

Claim(s, j) ==
    /\ At(s, "idle")
    /\ jobs[j] = "waiting"
    /\ jobs' = [jobs EXCEPT ![j] = "active"]
    /\ run' = [run EXCEPT ![s] = [pc |-> "findPack", job |-> j, orphan |-> FALSE]]
    /\ UNCHANGED <<rows, tries, stalls, call>>

\* The handler threw: BullMQ retries until the attempts are used up.
AttemptFails(j) ==
    /\ tries' = [tries EXCEPT ![j] = @ + 1]
    /\ jobs' = [jobs EXCEPT ![j] = IF tries[j] + 1 < MaxAttempts THEN "waiting" ELSE "failed"]
    /\ UNCHANGED stalls

\* A stage throws (its check, a database call, updateProgress, the audit row).
\* What an orphan throws nobody hears.
Throws(s) ==
    /\ ~At(s, "idle")
    /\ IF run[s].orphan THEN UNCHANGED queue ELSE AttemptFails(Job(s))
    /\ Leave(s)
    /\ UNCHANGED <<rows, call>>

\* The timer of the stage wins: the job fails, the stage goes on.
Timeout(s) ==
    /\ run[s].pc \notin {"idle", "audit"}
    /\ ~run[s].orphan
    /\ AttemptFails(Job(s))
    /\ run' = [run EXCEPT ![s].orphan = TRUE]
    /\ UNCHANGED <<rows, call>>

-----------------------------------------------------------------------------
(* The stages.                                                             *)

FindPack(s) ==
    /\ At(s, "findPack")
    /\ Goto(s, IF pack THEN "findVersion" ELSE "createPack")
    /\ UNCHANGED <<rows, queue, call>>

\* Mutant: a version that exists counts as imported.
FindVersionAccepts(s) ==
    /\ At(s, "findVersion")
    /\ Goto(s, IF status = "NONE" THEN "createVersion" ELSE "audit")
    /\ UNCHANGED <<rows, queue, call>>

\* A version that exists makes the stage throw "already exists".
FindVersion(s) ==
    /\ At(s, "findVersion")
    /\ status = "NONE"
    /\ Goto(s, "createVersion")
    /\ UNCHANGED <<rows, queue, call>>

\* Pack.key and (packId, version) are unique: the second create throws.
CreatePack(s) ==
    /\ At(s, "createPack")
    /\ ~pack
    /\ pack' = TRUE
    /\ Goto(s, "createVersion")
    /\ UNCHANGED <<status, published, certs, installed, queue, call>>

\* Mutant: the version is upserted.
UpsertVersion(s) ==
    /\ At(s, "createVersion")
    /\ status' = "DRAFT"
    /\ NextStage(s, "validate")
    /\ UNCHANGED <<pack, published, certs, installed, queue, call>>

CreateVersion(s) ==
    /\ At(s, "createVersion")
    /\ status = "NONE"
    /\ status' = "DRAFT"
    /\ NextStage(s, "validate")
    /\ UNCHANGED <<pack, published, certs, installed, queue, call>>

\* The transitions of the pipeline check the literal statuses they name, which
\* are always legal for PLATFORM_ADMIN, and write whatever the row has become.
Write(s, to, next) ==
    /\ status' = to
    /\ NextStage(s, next)
    /\ UNCHANGED <<pack, published, certs, installed, queue, call>>

Validate(s) == At(s, "validate") /\ Write(s, "IMPORTED", "scan")

\* Business rules fail: DRAFT is written and the stage throws.
Reject(s) ==
    /\ At(s, "validate")
    /\ status' = "DRAFT"
    /\ IF run[s].orphan THEN UNCHANGED queue ELSE AttemptFails(Job(s))
    /\ Leave(s)
    /\ UNCHANGED <<pack, published, certs, installed, call>>

Scan(s) == At(s, "scan") /\ Write(s, "VALIDATED", "certify")

Certify(s) ==
    /\ At(s, "certify")
    /\ certs' = certs \cup {s}
    /\ Goto(s, "markCertified")
    /\ UNCHANGED <<pack, status, published, installed, queue, call>>

MarkCertified(s) == At(s, "markCertified") /\ Write(s, "CERTIFIED", "sign")

Sign(s) ==
    /\ At(s, "sign")
    /\ NextStage(s, "publish")
    /\ UNCHANGED <<rows, queue, call>>

Publish(s) ==
    /\ At(s, "publish")
    /\ status' = "PUBLISHED" /\ published' = TRUE
    /\ NextStage(s, "audit")
    /\ UNCHANGED <<pack, certs, installed, queue, call>>

\* The audit row is written inside the handler's try block: if it throws, a
\* published import is retried (Throws).
Complete(s) ==
    /\ At(s, "audit")
    /\ jobs' = [jobs EXCEPT ![Job(s)] = "completed"]
    /\ Leave(s)
    /\ UNCHANGED <<rows, tries, stalls, call>>

-----------------------------------------------------------------------------
(* The API.                                                                *)

In(c, pc) == call[c].pc = pc
Moves(c, pc) == call' = [call EXCEPT ![c].pc = pc]
Ends(c) == call' = [call EXCEPT ![c] = Over]
Sets(to) == status' = to /\ UNCHANGED <<pack, certs, installed, queue, run>>
Asks(c, kind) == In(c, "begin") /\ \E r \in Requests : r.kind = kind

\* PackService.transitionVersionStatus: read and check, then write.
TransitionRead(c) ==
    /\ In(c, "begin")
    /\ \E r \in Requests :
          /\ r.kind = "transition"
          /\ IF CanTransition(status, r.to, r.role)
             THEN call' = [call EXCEPT ![c].pc = "write", ![c].to = r.to]
             ELSE Ends(c)
    /\ UNCHANGED <<rows, queue, run>>

TransitionWrite(c) ==
    /\ In(c, "write")
    /\ Sets(call[c].to)
    /\ published' = (published \/ call[c].to = "PUBLISHED")
    /\ Ends(c)

\* Mutant: any version may be certified.
CertifyReadAny(c) ==
    /\ Asks(c, "certify")
    /\ call' = [call EXCEPT ![c].pc = "certify", ![c].seen = "VALIDATED"]
    /\ UNCHANGED <<rows, queue, run>>

CertifyRead(c) ==
    /\ Asks(c, "certify")
    /\ IF status \in {"VALIDATED", "CERTIFIED"}
       THEN call' = [call EXCEPT ![c].pc = "certify", ![c].seen = status]
       ELSE Ends(c)
    /\ UNCHANGED <<rows, queue, run>>

CertifyCreate(c) ==
    /\ In(c, "certify")
    /\ certs' = certs \cup {c}
    /\ IF call[c].seen = "VALIDATED" THEN Moves(c, "mark") ELSE Ends(c)
    /\ UNCHANGED <<pack, status, published, installed, queue, run>>

CertifyMark(c) ==
    /\ In(c, "mark")
    /\ Sets("CERTIFIED")
    /\ Ends(c)
    /\ UNCHANGED published

\* The certification is read with its version, whose status is used later.
RevokeRead(c) ==
    /\ Asks(c, "revoke")
    /\ \E k \in certs :
          call' = [call EXCEPT ![c].pc = "delete", ![c].cert = k, ![c].seen = status]
    /\ UNCHANGED <<rows, queue, run>>

RevokeDelete(c) ==
    /\ In(c, "delete")
    /\ call[c].cert \in certs
    /\ certs' = certs \ {call[c].cert}
    /\ Moves(c, "count")
    /\ UNCHANGED <<pack, status, published, installed, queue, run>>

RevokeCount(c) ==
    /\ In(c, "count")
    /\ IF certs = {} /\ call[c].seen = "CERTIFIED" THEN Moves(c, "revert") ELSE Ends(c)
    /\ UNCHANGED <<rows, queue, run>>

RevokeRevert(c) ==
    /\ In(c, "revert")
    /\ Sets("VALIDATED")
    /\ Ends(c)
    /\ UNCHANGED published

InstallRead(c) ==
    /\ Asks(c, "install")
    /\ IF status \in {"PUBLISHED", "CERTIFIED"} THEN Moves(c, "findInstall") ELSE Ends(c)
    /\ UNCHANGED <<rows, queue, run>>

InstallFind(c) ==
    /\ In(c, "findInstall")
    /\ IF TenantOf[c] \in installed THEN Ends(c) ELSE Moves(c, "install")
    /\ UNCHANGED <<rows, queue, run>>

\* (tenantId, packId, packVersionId) is unique.
InstallCreate(c) ==
    /\ In(c, "install")
    /\ TenantOf[c] \notin installed
    /\ installed' = installed \cup {TenantOf[c]}
    /\ Ends(c)
    /\ UNCHANGED <<pack, status, published, certs, queue, run>>

UninstallFind(c) ==
    /\ Asks(c, "uninstall")
    /\ TenantOf[c] \in installed
    /\ Moves(c, "uninstall")
    /\ UNCHANGED <<rows, queue, run>>

UninstallDelete(c) ==
    /\ In(c, "uninstall")
    /\ TenantOf[c] \in installed
    /\ installed' = installed \ {TenantOf[c]}
    /\ Ends(c)
    /\ UNCHANGED <<pack, status, published, certs, queue, run>>

\* A call's database access throws (a row that is gone, a row that exists, a
\* lost connection), or its process dies.
CallFails(c) ==
    /\ ~In(c, "done")
    /\ Ends(c)
    /\ UNCHANGED <<rows, queue, run>>

-----------------------------------------------------------------------------
(* Crash of a run's process and BullMQ's stalled jobs.                     *)

WorkerCrash(s) ==
    /\ ~At(s, "idle")
    /\ Leave(s)
    /\ UNCHANGED <<rows, queue, call>>

Held(j) == \E s \in Slots : ~At(s, "idle") /\ ~run[s].orphan /\ Job(s) = j

\* Mutant: the lock of a job that is being worked on is not renewed.
JobStalledHeld(j) ==
    /\ jobs[j] = "active"
    /\ stalls' = [stalls EXCEPT ![j] = @ + 1]
    /\ jobs' = [jobs EXCEPT ![j] = IF stalls[j] < MaxStalled THEN "waiting" ELSE "failed"]
    /\ UNCHANGED <<rows, tries, run, call>>

JobStalled(j) ==
    /\ jobs[j] = "active" /\ ~Held(j)
    /\ stalls' = [stalls EXCEPT ![j] = @ + 1]
    /\ jobs' = [jobs EXCEPT ![j] = IF stalls[j] < MaxStalled THEN "waiting" ELSE "failed"]
    /\ UNCHANGED <<rows, tries, run, call>>

-----------------------------------------------------------------------------
StageStep(s) ==
    \/ FindPack(s) \/ FindVersion(s) \/ CreatePack(s)
    \/ CreateVersion(s) \/ Validate(s) \/ Reject(s) \/ Scan(s)
    \/ Certify(s) \/ MarkCertified(s) \/ Sign(s) \/ Publish(s) \/ Complete(s)

RunStep(s) ==
    \/ \E j \in Jobs : Claim(s, j)
    \/ StageStep(s) \/ Throws(s)

CallStep(c) ==
    \/ TransitionRead(c) \/ TransitionWrite(c)
    \/ CertifyRead(c) \/ CertifyCreate(c) \/ CertifyMark(c)
    \/ RevokeRead(c) \/ RevokeDelete(c) \/ RevokeCount(c) \/ RevokeRevert(c)
    \/ InstallRead(c) \/ InstallFind(c) \/ InstallCreate(c)
    \/ UninstallFind(c) \/ UninstallDelete(c) \/ CallFails(c)

Next ==
    \/ \E j \in Jobs : Import(j) \/ JobStalled(j)
    \/ \E s \in Slots : RunStep(s) \/ Timeout(s) \/ WorkerCrash(s)
    \/ \E c \in Calls : CallStep(c)

Spec == Init /\ [][Next]_vars

-----------------------------------------------------------------------------
(* Properties.                                                             *)

\* Imports of the same manifest race and are retried beside orphaned stages of
\* earlier attempts; one run at most is past normalize, and after a job has
\* completed none is (pack-import-pipeline.ts:126 and the unique constraints).
OwnsVersion(s) == run[s].pc \in Owning

ImportedOnce ==
    /\ \A s, t \in Slots : OwnsVersion(s) /\ OwnsVersion(t) => s = t
    /\ \A j \in Jobs : jobs[j] = "completed" =>
          /\ \A s \in Slots : ~OwnsVersion(s)
          /\ \A k \in Jobs : jobs[k] = "completed" => k = j

\* A completed import published the version itself: no retry, stall or timer
\* ends a job in success on the strength of what another run did.
CompletedMeansPublished ==
    \A j \in Jobs : jobs[j] = "completed" => published /\ status # "NONE"

\* BLOCKED has no way out (pack-domain.ts:78).  The unconditional updates of
\* runs and calls that were under way can still overwrite it, but once they are
\* gone nothing that begins later gets past its check: the block stands.
Overwriting(c) ==
    \/ call[c].pc \in {"write", "certify", "mark", "revert"}
    \/ call[c].pc \in {"delete", "count"} /\ call[c].seen = "CERTIFIED"

BlockSettled ==
    /\ status = "BLOCKED"
    /\ \A s \in Slots : ~OwnsVersion(s)
    /\ \A c \in Calls : ~Overwriting(c)

BlockStands == [][BlockSettled => BlockSettled']_vars
===============================================================================
