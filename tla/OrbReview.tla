----------------------------- MODULE OrbReview -----------------------------
(***************************************************************************)
(* The governance of one workflow: its stored definition with optimistic   *)
(* versioning (WorkflowPersistenceService), the fingerprints of            *)
(* definitions (GovernanceFingerprintService), the ORB reviews             *)
(* (OrbReviewMachineService), the patches a review injects, the drift      *)
(* check, and the promotion that publishes an immutable version.           *)
(*                                                                         *)
(* Definitions with the same hash are one Body here, so the comparison of  *)
(* two hashes is that of two bodies.  What the hash does not cover decides *)
(* nothing below: the patches (config.governance; the profiler reads       *)
(* config.policyCheckpoint), and the name and launch URL of a sub-agent,   *)
(* all that updateSubAgent changes, which is therefore no action.          *)
(*                                                                         *)
(* Every API call reads, works and writes in separate database accesses,   *)
(* so calls interleave between any two of their steps and any of them can  *)
(* fail between two steps.  The policy version, a part of the hash, does   *)
(* not change in the model; the sandbox score is any score.                *)
(***************************************************************************)
EXTENDS Integers, Sequences, FiniteSets, SequencesExt

CONSTANTS
    Reviews,        \* review rows, all of the same workflow
    Calls,          \* API calls that can be under way together
    Bodies,         \* the definitions, told apart as far as the fingerprint does
    Nobody,         \* no review, no fingerprint
    Enforce,        \* GOVERNANCE_PUBLISH_ENFORCE
    MaxEdits,       \* bound on the saves of the definition
    MaxVersions     \* bound on the published versions

ASSUME BoundsAssumption ==
    Enforce \in BOOLEAN /\ MaxEdits \in Nat /\ MaxVersions \in Nat
ASSUME NobodyAssumption == Nobody \notin Reviews /\ Nobody \notin Bodies

Statuses == {"NONE", "TEMP_REGISTERED", "NODE_RESOLVED", "FINGERPRINTED",
             "SANDBOX_REPLAYED", "AUTO_SCORED", "NEEDS_REPAIR", "POLICY_INJECTED",
             "HUMAN_REVIEW", "APPROVED", "PROMOTED", "ACTIVE", "REJECTED",
             "DRIFT_DETECTED"}
Approved == {"APPROVED", "PROMOTED", "ACTIVE"}

(* The rows of TRANSITIONS for the statuses some code writes. *)
Transitions ==
    [s \in Statuses |->
       CASE s = "TEMP_REGISTERED"  -> {"NODE_RESOLVED", "REJECTED"}
         [] s = "NODE_RESOLVED"    -> {"FINGERPRINTED", "REJECTED"}
         [] s = "FINGERPRINTED"    -> {"SANDBOX_REPLAYED", "REJECTED"}
         [] s = "SANDBOX_REPLAYED" -> {"AUTO_SCORED", "REJECTED"}
         [] s = "AUTO_SCORED"      -> {"NEEDS_REPAIR", "HUMAN_REVIEW", "APPROVED", "REJECTED"}
         [] s = "NEEDS_REPAIR"     -> {"POLICY_INJECTED", "REJECTED"}
         [] s = "POLICY_INJECTED"  -> {"FINGERPRINTED", "REJECTED"}
         [] s = "HUMAN_REVIEW"     -> {"APPROVED", "REJECTED"}
         [] s = "APPROVED"         -> {"PROMOTED", "DRIFT_DETECTED"}
         [] s = "PROMOTED"         -> {"ACTIVE", "DRIFT_DETECTED"}
         [] s = "ACTIVE"           -> {"DRIFT_DETECTED"}
         [] s = "DRIFT_DETECTED"   -> {"FINGERPRINTED"}
         [] OTHER                  -> {}]

VARIABLES
    def,        \* the stored definition
    rows,       \* how often the node rows were replaced (their ids are new then)
    edits,      \* how often the nodes or the edges were saved, replaced or not
    versions,   \* the immutable WorkflowVersion rows, by number
    active,     \* number of the active version, 0 before the first
    prints,     \* GovernanceFingerprint.status by hash
    approvals,  \* <<a, b>>: b has a later approvedAt than a, if both have one
    status,     \* OrbGovernanceReview.status
    last,       \* the target of the last entry of historyJson
    printOf,    \* OrbGovernanceReview.fingerprintHash
    promoted,   \* OrbGovernanceReview.promotedVersionId, as a number
    call        \* per call: its step and what it has read

workflow == <<def, rows, edits, versions, active>>
registry == <<prints, approvals>>
reviews == <<status, last, printOf, promoted>>
vars == <<def, rows, edits, versions, active, prints, approvals,
          status, last, printOf, promoted, call>>

Idle == [pc |-> "idle", review |-> Nobody, seen |-> "NONE", print |-> Nobody,
         def |-> Nobody, mark |-> 0, base |-> 0, number |-> 0]

Init ==
    /\ def \in Bodies
    /\ rows = 0 /\ edits = 0 /\ versions = << >> /\ active = 0
    /\ prints = [b \in Bodies |-> "NONE"] /\ approvals = {}
    /\ status = [r \in Reviews |-> "NONE"] /\ last = [r \in Reviews |-> "NONE"]
    /\ printOf = [r \in Reviews |-> Nobody] /\ promoted = [r \in Reviews |-> 0]
    /\ call = [c \in Calls |-> Idle]

At(c, step) == call[c].pc = step
End(c) == call' = [call EXCEPT ![c] = Idle]
Goto(c, step) == call' = [call EXCEPT ![c].pc = step]

(* assertTransition, on the status the call has read. *)
Allowed(s, next) == next \in Transitions[s]

(* getReview and assertTransition: the call remembers what it uses of the row. *)
Read(c, from, r, next, step) ==
    /\ At(c, from)
    /\ status[r] # "NONE" /\ Allowed(status[r], next)
    /\ call' = [call EXCEPT ![c].pc = step, ![c].review = r, ![c].seen = status[r],
                            ![c].print = IF step \in {"approve", "compare"} THEN printOf[r]
                                         ELSE Nobody]
    /\ UNCHANGED <<workflow, registry, reviews>>

(* The update of a review: status and history in one write, unconditional,
   the history being the one that was read with a new entry. *)
Write(c, next) ==
    /\ status' = [status EXCEPT ![call[c].review] = next]
    /\ last' = [last EXCEPT ![call[c].review] = next]

----------------------------------------------------------------------------
(* Registration, fingerprint, scoring, patches *)

Register(c, r) ==
    /\ At(c, "idle") /\ status[r] = "NONE"
    /\ status' = [status EXCEPT ![r] = "TEMP_REGISTERED"]
    /\ last' = [last EXCEPT ![r] = "TEMP_REGISTERED"]
    /\ call' = [call EXCEPT ![c].pc = "registered", ![c].review = r]
    /\ UNCHANGED <<workflow, registry, printOf, promoted>>

ResolveRead(c) == Read(c, "registered", call[c].review, "NODE_RESOLVED", "resolve")

ResolveWrite(c) ==
    /\ At(c, "resolve")
    /\ Write(c, "NODE_RESOLVED") /\ End(c)
    /\ UNCHANGED <<workflow, registry, printOf, promoted>>

FingerprintRead(c, r) == Read(c, "idle", r, "FINGERPRINTED", "print")

(* createForWorkflow keeps a fingerprint that exists, whatever its status. *)
FingerprintCreate(c) ==
    /\ At(c, "print")
    /\ prints' = [prints EXCEPT ![def] = IF @ = "NONE" THEN "DRAFT" ELSE @]
    /\ call' = [call EXCEPT ![c].pc = "printed", ![c].print = def]
    /\ UNCHANGED <<workflow, approvals, reviews>>

FingerprintWrite(c) ==
    /\ At(c, "printed")
    /\ Write(c, "FINGERPRINTED") /\ End(c)
    /\ printOf' = [printOf EXCEPT ![call[c].review] = call[c].print]
    /\ UNCHANGED <<workflow, registry, promoted>>

ScoreRead(c, r) ==
    /\ printOf[r] # Nobody
    /\ Read(c, "idle", r, "SANDBOX_REPLAYED", "score")

(* replayAndScore writes three history entries and the branch of the score:
   90, 75 and 60 are the thresholds. *)
ScoreWrite(c) ==
    /\ At(c, "score")
    /\ \E next \in {"APPROVED", "HUMAN_REVIEW", "NEEDS_REPAIR", "REJECTED"} : Write(c, next)
    /\ End(c)
    /\ UNCHANGED <<workflow, registry, printOf, promoted>>

PatchRead(c, r) == Read(c, "idle", r, "POLICY_INJECTED", "patch")

PatchPlan(c) ==
    /\ At(c, "patch")
    /\ call' = [call EXCEPT ![c].pc = "inject", ![c].mark = rows]
    /\ UNCHANGED <<workflow, registry, reviews>>

(* The node rows are updated by id, which throws when an edit has replaced
   them meanwhile. *)
PatchInject(c) ==
    /\ At(c, "inject") /\ rows = call[c].mark
    /\ call' = [call EXCEPT ![c].pc = "patched", ![c].mark = 0]
    /\ UNCHANGED <<workflow, registry, reviews>>

PatchWrite(c) ==
    /\ At(c, "patched")
    /\ Write(c, "POLICY_INJECTED") /\ End(c)
    /\ UNCHANGED <<workflow, registry, printOf, promoted>>

----------------------------------------------------------------------------
(* Approval by a reviewer *)

ApproveRead(c, r) ==
    /\ printOf[r] # Nobody
    /\ Read(c, "idle", r, "APPROVED", "approve")

ApprovePrint(c) ==
    /\ At(c, "approve")
    /\ LET b == call[c].print
       IN  /\ prints' = [prints EXCEPT ![b] = "APPROVED"]
           /\ approvals' = (approvals \ ({b} \X Bodies)) \union ((Bodies \ {b}) \X {b})
    /\ call' = [call EXCEPT ![c].pc = "approved", ![c].print = Nobody]
    /\ UNCHANGED <<workflow, reviews>>

ApproveWrite(c) ==
    /\ At(c, "approved")
    /\ Write(c, "APPROVED") /\ End(c)
    /\ UNCHANGED <<workflow, registry, printOf, promoted>>

----------------------------------------------------------------------------
(* Promotion *)

(* Only the status is tested, not that of the fingerprint. *)
PromoteRead(c, r) ==
    /\ status[r] = "APPROVED" /\ printOf[r] # Nobody
    /\ Read(c, "idle", r, "PROMOTED", "compare")

\* Mutant: the hash is computed and not compared.
PromoteCompareSkipped(c) ==
    /\ At(c, "compare")
    /\ call' = [call EXCEPT ![c].pc = "publish", ![c].mark = edits]
    /\ UNCHANGED <<workflow, registry, reviews>>

(* The definition as it is now against the approved hash. *)
PromoteCompare(c) ==
    /\ At(c, "compare")
    /\ call' = [call EXCEPT ![c].pc = IF def = call[c].print THEN "publish" ELSE "drift",
                            ![c].mark = edits]
    /\ UNCHANGED <<workflow, registry, reviews>>

PromoteDriftRead(c) == Read(c, "drift", call[c].review, "DRIFT_DETECTED", "drifting")

PromoteDriftWrite(c) ==
    /\ At(c, "drifting")
    /\ Write(c, "DRIFT_DETECTED") /\ End(c)
    /\ UNCHANGED <<workflow, registry, printOf, promoted>>

(* publish reads the workflow once more, with the number of its newest version. *)
Snapshot(c, step) ==
    /\ Len(versions) < MaxVersions
    /\ call' = [call EXCEPT ![c].pc = step, ![c].def = def, ![c].base = edits,
                            ![c].number = Len(versions) + 1]
    /\ UNCHANGED <<workflow, registry, reviews>>

\* Mutant: the number is not unique, the later row of a number wins.
CommitUpsert(c) ==
    /\ versions' = [n \in 1..(IF Len(versions) < call[c].number THEN call[c].number
                              ELSE Len(versions))
                      |-> IF n = call[c].number THEN call[c].def ELSE versions[n]]
    /\ active' = call[c].number
    /\ UNCHANGED <<def, rows, edits, registry, reviews>>

(* The transaction: the version row, whose number is unique, and the workflow. *)
Commit(c) ==
    /\ call[c].number = Len(versions) + 1
    /\ versions' = Append(versions, call[c].def)
    /\ active' = call[c].number
    /\ UNCHANGED <<def, rows, edits, registry, reviews>>

PromoteSnapshot(c) == At(c, "publish") /\ Snapshot(c, "commit")
PromoteCommit(c) ==
    /\ At(c, "commit")
    /\ Commit(c)
    /\ call' = [call EXCEPT ![c] = [Idle EXCEPT !.pc = "bind", !.review = call[c].review,
                                               !.number = call[c].number]]

(* The fingerprint row gets the version's id, which nothing reads back. *)
PromoteMarkRead(c) == Read(c, "bind", call[c].review, "PROMOTED", "promote")

PromoteMark(c) ==
    /\ At(c, "promote")
    /\ Write(c, "PROMOTED")
    /\ call' = [call EXCEPT ![c].pc = "serve", ![c].number = 0]
    /\ promoted' = [promoted EXCEPT ![call[c].review] = call[c].number]
    /\ UNCHANGED <<workflow, registry, printOf>>

\* Mutant: the activation does not assert the transition.
ActivateReadUnchecked(c) ==
    /\ At(c, "serve")
    /\ call' = [call EXCEPT ![c].pc = "activate", ![c].seen = status[call[c].review]]
    /\ UNCHANGED <<workflow, registry, reviews>>

ActivateRead(c) == Read(c, "serve", call[c].review, "ACTIVE", "activate")

Activate(c) ==
    /\ At(c, "activate")
    /\ Write(c, "ACTIVE") /\ End(c)
    /\ UNCHANGED <<workflow, registry, printOf, promoted>>

----------------------------------------------------------------------------
(* Drift check: the sweep runs it for every workflow with an approved review *)

DriftRead(c) ==
    /\ At(c, "idle")
    /\ call' = [call EXCEPT ![c].pc = "check", ![c].def = def]
    /\ UNCHANGED <<workflow, registry, reviews>>

(* findApproved: the fingerprint approved last among those still approved. *)
Newest(b) ==
    /\ prints[b] = "APPROVED"
    /\ \A a \in Bodies \ {b} : prints[a] = "APPROVED" => <<a, b>> \in approvals

DriftFind(c) ==
    /\ At(c, "check")
    /\ \/ \E b \in Bodies \ {call[c].def} :
            Newest(b) /\ call' = [call EXCEPT ![c].pc = "mark", ![c].def = Nobody,
                                                ![c].print = b]
       \/ /\ \A b \in Bodies : Newest(b) => b = call[c].def
          /\ End(c)
    /\ UNCHANGED <<workflow, registry, reviews>>

\* Mutant: the fingerprint gets the status of the review.
DriftMarkConfused(c) ==
    /\ At(c, "mark")
    /\ prints' = [prints EXCEPT ![call[c].print] = "DRIFT_DETECTED"]
    /\ status' = [r \in Reviews |-> IF status[r] \in Approved THEN "DRIFT_DETECTED"
                                    ELSE status[r]]
    /\ End(c)
    /\ UNCHANGED <<workflow, approvals, last, printOf, promoted>>

(* One transaction; the history is not written. *)
DriftMark(c) ==
    /\ At(c, "mark")
    /\ prints' = [prints EXCEPT ![call[c].print] = "DRIFTED"]
    /\ status' = [r \in Reviews |-> IF status[r] \in Approved THEN "DRIFT_DETECTED"
                                    ELSE status[r]]
    /\ End(c)
    /\ UNCHANGED <<workflow, approvals, last, printOf, promoted>>

----------------------------------------------------------------------------
(* The editor, and the sub-agents of the master-data screen *)

(* update compares the version a request expects with the one it reads, and
   writes in a transaction that does not test it again: for the request that
   passes, Workflow.version guards nothing, and it is no variable here. *)
EditRead(c) ==
    /\ At(c, "idle") /\ edits < MaxEdits
    /\ Goto(c, "edit")
    /\ UNCHANGED <<workflow, registry, reviews>>

Save(d) ==
    /\ edits < MaxEdits
    /\ def' = d /\ edits' = edits + 1
    /\ UNCHANGED <<versions, active, registry, reviews>>

(* Nodes and edges are replaced independently: without nodes in the request
   the node rows stay. *)
EditWrite(c) ==
    /\ At(c, "edit")
    /\ \E b \in Bodies : Save(b)
    /\ rows' \in {rows, rows + 1}
    /\ End(c)

(* restoreVersion: the snapshot becomes the definition, without a check. *)
Restore(c) ==
    /\ At(c, "idle")
    /\ \E n \in 1..Len(versions) : Save(versions[n])
    /\ rows' = rows + 1
    /\ UNCHANGED call

(* One more node row, under a key that is free, or one less: no version is
   compared or raised, and no review is looked at. *)
AddSubAgent(c) ==
    /\ At(c, "idle")
    /\ \E b \in Bodies : Save(b)
    /\ UNCHANGED <<rows, call>>

DeleteSubAgent(c) ==
    /\ At(c, "idle")
    /\ \E b \in Bodies : Save(b)
    /\ UNCHANGED <<rows, call>>

(* Publishing without promotion. *)
PublishRead(c) == At(c, "idle") /\ Snapshot(c, "guard")

PublishGuard(c) ==
    /\ At(c, "guard")
    /\ IF Enforce /\ \A r \in Reviews : status[r] \notin Approved
       THEN End(c)
       ELSE Goto(c, "release")
    /\ UNCHANGED <<workflow, registry, reviews>>

PublishCommit(c) == At(c, "release") /\ Commit(c) /\ End(c)

(* A call ends at any step: an access throws (the unique number among them),
   an assertion fails on what a later read found, the process dies. *)
CallFails(c) ==
    /\ ~At(c, "idle")
    /\ End(c)
    /\ UNCHANGED <<workflow, registry, reviews>>

----------------------------------------------------------------------------
ReviewCall(c, r) ==
    \/ Register(c, r) \/ FingerprintRead(c, r) \/ ScoreRead(c, r)
    \/ PatchRead(c, r) \/ ApproveRead(c, r) \/ PromoteRead(c, r)

ReviewStep(c) ==
    \/ ResolveRead(c) \/ ResolveWrite(c)
    \/ FingerprintCreate(c) \/ FingerprintWrite(c) \/ ScoreWrite(c)
    \/ PatchPlan(c) \/ PatchInject(c) \/ PatchWrite(c)
    \/ ApprovePrint(c) \/ ApproveWrite(c)

PromoteStep(c) ==
    \/ PromoteCompare(c) \/ PromoteDriftRead(c) \/ PromoteDriftWrite(c)
    \/ PromoteSnapshot(c) \/ PromoteCommit(c)
    \/ PromoteMarkRead(c) \/ PromoteMark(c) \/ ActivateRead(c) \/ Activate(c)

OtherStep(c) ==
    \/ DriftRead(c) \/ DriftFind(c) \/ DriftMark(c)
    \/ EditRead(c) \/ EditWrite(c) \/ Restore(c)
    \/ AddSubAgent(c) \/ DeleteSubAgent(c)
    \/ PublishRead(c) \/ PublishGuard(c) \/ PublishCommit(c)
    \/ CallFails(c)

Next ==
    \E c \in Calls :
        \/ \E r \in Reviews : ReviewCall(c, r)
        \/ ReviewStep(c) \/ PromoteStep(c) \/ OtherStep(c)

Spec == Init /\ [][Next]_vars

----------------------------------------------------------------------------
(* Every variable holds values of its type. *)
Steps == {"idle", "registered", "resolve", "print", "printed", "score", "patch",
          "inject", "patched", "approve", "approved", "compare", "publish", "drift",
          "drifting", "commit", "bind", "promote", "serve", "activate", "check",
          "mark", "edit", "guard", "release"}

TypeOK ==
    /\ def \in Bodies
    /\ rows \in Nat /\ edits \in 0..MaxEdits
    /\ versions \in Seq(Bodies) /\ Len(versions) <= MaxVersions
    /\ active \in 0..MaxVersions
    /\ prints \in [Bodies -> {"NONE", "DRAFT", "APPROVED", "DRIFTED"}]
    /\ approvals \in SUBSET (Bodies \X Bodies)
    /\ status \in [Reviews -> Statuses] /\ last \in [Reviews -> Statuses]
    /\ printOf \in [Reviews -> Bodies \union {Nobody}]
    /\ promoted \in [Reviews -> 0..MaxVersions]
    /\ call \in [Calls -> [pc : Steps, review : Reviews \union {Nobody},
                           seen : Statuses, print : Bodies \union {Nobody},
                           def : Bodies \union {Nobody},
                           mark : Nat, base : Nat, number : Nat]]

(* The history tells where a review stands although calls write back the
   history they read earlier: it ends with the status of the row, but for a
   drift, which is found on approved reviews only and is not written to it. *)
HistoryTells ==
    \A r \in Reviews :
        \/ status[r] = last[r]
        \/ status[r] = "DRIFT_DETECTED" /\ last[r] \in Approved

(* A detected drift sends the review back to its fingerprint: any other status
   can replace it only through a call that had read the review before. *)
DriftLeft ==
    \A r \in Reviews :
        status[r] = "DRIFT_DETECTED" /\ status'[r] # status[r] =>
           \/ status'[r] = "FINGERPRINTED"
           \/ \E c \in Calls :
                /\ call'[c] # call[c]
                /\ call[c].review = r /\ call[c].seen # "DRIFT_DETECTED"

\* No step of the routes or of the drift check leaves a drift in another way.
DriftStands == [][DriftLeft]_vars

(* What a promotion publishes has the hash of the review it read, unless the
   definition was saved between the comparison and the snapshot, by an edit
   of nodes or of edges alone, a restore or a change of the sub-agents: promote
   does not look again.  Patches injected, drift checks and other promotions in
   between do not matter.  And a review that says it is
   promoted names a version that exists. *)
PromotionHolds ==
    /\ \A c \in Calls :
         At(c, "commit") /\ call[c].mark = call[c].base =>
            call[c].def = call[c].print
    /\ \A r \in Reviews :
         status[r] \in {"PROMOTED", "ACTIVE"} => promoted[r] \in 1..Len(versions)

(* What a review row says is true: its history and the promotion it names.  *)
ReviewHolds == HistoryTells /\ PromotionHolds

(* Versions are immutable and numbered without gaps although two calls can
   compute the same number, and the newest one is active after it. *)
VersionAdded ==
    /\ IsPrefix(versions, versions')
    /\ versions' # versions =>
          Len(versions') = Len(versions) + 1 /\ active' = Len(versions')
    /\ versions' = versions => active' = active

\* Every step of a promotion, a publication or an edit keeps the versions so.
VersionsStand == [][VersionAdded]_vars

(* "Only versions whose fingerprint matches an APPROVED fingerprint may be
   promoted to ACTIVE" (governance-fingerprint.service.ts:9). *)
PromotedIsApproved ==
    [][\A c \in Calls :
          At(c, "commit") /\ versions' # versions /\ call'[c] # call[c] =>
             prints[call[c].print] = "APPROVED"]_vars
=============================================================================
