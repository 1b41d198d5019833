--------------------------- MODULE OrbReview_proofs ---------------------------
(***************************************************************************)
(* OrbReview: what a review row says is true, a drift stands, and versions *)
(* are immutable and numbered without gaps, for any number of reviews,     *)
(* calls, bodies, edits and versions.                                      *)
(*                                                                         *)
(* The properties speak of rows; what makes them inductive is what a call  *)
(* still knows of what it read before other calls wrote: the status it     *)
(* asserted (Asserted), the fingerprint it compared as long as nobody has  *)
(* saved the definition since (Window), and the version number it computed *)
(* or published (Numbered).                                                *)
(***************************************************************************)
EXTENDS OrbReview, TLAPS

\* The steps of a call that belongs to a review.
Reviewing == {"registered", "resolve", "print", "printed", "score", "patch",
              "inject", "patched", "approve", "approved", "compare", "publish",
              "drift", "drifting", "commit", "bind", "promote", "serve", "activate"}

\* The steps before a write whose transition does not start at a drift.
Asserting == {"resolve", "score", "patch", "inject", "patched", "approve",
              "approved", "compare", "drifting", "promote", "activate"}

\* A call in the middle of a review has one, and read it before it drifted.
Asserted(c) ==
    /\ call[c].pc \in Reviewing => call[c].review \in Reviews
    /\ call[c].pc \in Asserting => call[c].seen # "DRIFT_DETECTED"
    /\ At(c, "approve") => call[c].print \in Bodies

\* What a call compared is still so while nobody has saved the definition.
Window(c) ==
    /\ call[c].pc \in {"commit", "release", "guard"} => call[c].def \in Bodies
    /\ At(c, "publish") => call[c].mark <= edits
    /\ At(c, "publish") /\ call[c].mark = edits => def = call[c].print
    /\ At(c, "commit") /\ call[c].mark = call[c].base =>
          call[c].def = call[c].print

\* A number a call computed is within the bound, one it published exists.
Numbered(c) ==
    /\ call[c].pc \in {"commit", "release", "guard"} => call[c].number \in 1..MaxVersions
    /\ call[c].pc \in {"bind", "promote"} => call[c].number \in 1..Len(versions)
    /\ call[c].pc \in {"serve", "activate"} => promoted[call[c].review] \in 1..Len(versions)

CallOK(c) == Asserted(c) /\ Window(c) /\ Numbered(c)

IInv ==
    /\ TypeOK
    /\ \A c \in Calls : CallOK(c)
    /\ HistoryTells
    /\ PromotionHolds

-----------------------------------------------------------------------------
(* Types of the rows and of the calls.                                      *)

CallRecords == [pc : Steps, review : Reviews \union {Nobody},
                seen : Statuses, print : Bodies \union {Nobody},
                def : Bodies \union {Nobody},
                mark : Nat, base : Nat, number : Nat]

RowsType ==
    /\ def \in Bodies
    /\ rows \in Nat /\ edits \in 0..MaxEdits
    /\ versions \in Seq(Bodies) /\ Len(versions) <= MaxVersions
    /\ active \in 0..MaxVersions
    /\ prints \in [Bodies -> {"NONE", "DRAFT", "APPROVED", "DRIFTED"}]
    /\ approvals \in SUBSET (Bodies \X Bodies)
    /\ status \in [Reviews -> Statuses] /\ last \in [Reviews -> Statuses]
    /\ printOf \in [Reviews -> Bodies \union {Nobody}]
    /\ promoted \in [Reviews -> 0..MaxVersions]

\* A review that says it is promoted names a version that exists.
PromotedRows ==
    \A r \in Reviews :
        status[r] \in {"PROMOTED", "ACTIVE"} => promoted[r] \in 1..Len(versions)

\* What no step may do to what other calls know.
Kept ==
    /\ edits <= edits' /\ (edits' = edits => def' = def)
    /\ Len(versions) <= Len(versions')
    /\ \A r \in Reviews : promoted[r] \in 1..Len(versions) => promoted'[r] \in 1..Len(versions')

LEMMA TypeParts == TypeOK <=> RowsType /\ call \in [Calls -> CallRecords]
BY DEF TypeOK, RowsType, CallRecords

LEMMA InvParts ==
    IInv <=> /\ RowsType /\ call \in [Calls -> CallRecords]
             /\ \A c \in Calls : CallOK(c)
             /\ HistoryTells /\ PromotedRows
BY TypeParts DEF IInv, PromotionHolds, PromotedRows, CallOK, Window

LEMMA CallFields ==
    ASSUME NEW s \in CallRecords
    PROVE  /\ s.pc \in Steps /\ s.review \in Reviews \union {Nobody}
           /\ s.seen \in Statuses /\ s.print \in Bodies \union {Nobody}
           /\ s.def \in Bodies \union {Nobody}
           /\ s.mark \in Nat /\ s.base \in Nat /\ s.number \in Nat
BY DEF CallRecords

LEMMA IdleRecord == Idle \in CallRecords
BY DEF Idle, CallRecords, Steps, Statuses

\* An idle call knows nothing.
LEMMA IdleOK ==
    ASSUME NEW c \in Calls, call[c] = Idle
    PROVE  CallOK(c)
BY DEF CallOK, Asserted, Window, Numbered, At, Idle, Reviewing, Asserting

\* A call keeps what it knows through the steps of others.
LEMMA OthersKeep ==
    ASSUME RowsType, RowsType', call \in [Calls -> CallRecords],
           NEW x \in Calls, CallOK(x), call'[x] = call[x], Kept
    PROVE  CallOK(x)'
<1>1. /\ call[x].mark \in Nat /\ edits \in Nat /\ edits' \in Nat
      /\ Len(versions) \in Nat /\ Len(versions') \in Nat
      /\ call[x].number \in Nat
  BY CallFields, BoundsAssumption DEF RowsType
<1>2. Asserted(x)'
  BY DEF CallOK, Asserted, At
<1>3. Window(x)'
  <2>1. call[x].mark <= edits /\ edits <= edits' => (call[x].mark = edits' => edits' = edits)
    BY <1>1
  <2> QED BY <1>1, <2>1 DEF CallOK, Window, At, Kept
<1>4. Numbered(x)'
  <2>1. \A n \in Nat : n \in 1..Len(versions) => n \in 1..Len(versions')
    BY <1>1 DEF Kept
  <2>2. call[x].pc \in {"serve", "activate"} => call[x].review \in Reviews
    BY DEF CallOK, Asserted, Reviewing
  <2> QED BY <1>1, <2>1, <2>2 DEF CallOK, Numbered, Kept
<1> QED BY <1>2, <1>3, <1>4 DEF CallOK

\* One step of one call: its record changes, the others keep theirs.
LEMMA Stepped ==
    ASSUME IInv, NEW c \in Calls, NEW s \in CallRecords,
           call' = [call EXCEPT ![c] = s],
           RowsType', Kept, CallOK(c)', HistoryTells', PromotedRows'
    PROVE  IInv'
<1>1. RowsType /\ call \in [Calls -> CallRecords] /\ \A x \in Calls : CallOK(x)
  BY InvParts
<1>2. call' \in [Calls -> CallRecords] /\ \A x \in Calls : x # c => call'[x] = call[x]
  BY <1>1
<1>3. ASSUME NEW x \in Calls PROVE CallOK(x)'
  <2>1. CASE x = c
    BY <2>1
  <2>2. CASE x # c
    BY <1>1, <1>2, <2>2, OthersKeep
  <2> QED BY <2>1, <2>2
<1> QED BY <1>2, <1>3, InvParts DEF IInv, TypeOK, PromotionHolds, PromotedRows, RowsType,
            CallRecords, HistoryTells, CallOK, Window, At

\* A step that ends the call.
LEMMA EndsCall ==
    ASSUME IInv, NEW c \in Calls, End(c), RowsType', Kept, HistoryTells', PromotedRows'
    PROVE  IInv'
<1>1. call' = [call EXCEPT ![c] = Idle] /\ call'[c] = Idle
  BY InvParts DEF End
<1>2. CallOK(c)'
  BY <1>1 DEF CallOK, Asserted, Window, Numbered, At, Idle, Reviewing, Asserting
<1> QED BY <1>1, <1>2, IdleRecord, Stepped

-----------------------------------------------------------------------------
(* Steps that write no row.                                                 *)

LEMMA NoWrite ==
    ASSUME IInv, UNCHANGED <<workflow, registry, reviews>>
    PROVE  RowsType' /\ Kept /\ HistoryTells' /\ PromotedRows'
<1>1. RowsType /\ HistoryTells /\ PromotedRows
  BY InvParts
<1>2. edits \in Nat /\ Len(versions) \in Nat
  BY <1>1, BoundsAssumption DEF RowsType
<1>3. RowsType' /\ HistoryTells' /\ PromotedRows'
  BY <1>1 DEF RowsType, HistoryTells, PromotedRows, workflow, registry, reviews
<1>4. Kept
  BY <1>2 DEF Kept, workflow, registry, reviews
<1> QED BY <1>3, <1>4

LEMMA ReadOnly ==
    ASSUME IInv, UNCHANGED <<workflow, registry, reviews>>,
           NEW c \in Calls, NEW s \in CallRecords,
           call' = [call EXCEPT ![c] = s], CallOK(c)'
    PROVE  IInv'
BY NoWrite, Stepped

LEMMA EndsQuietly ==
    ASSUME IInv, UNCHANGED <<workflow, registry, reviews>>, NEW c \in Calls, End(c)
    PROVE  IInv'
BY NoWrite, EndsCall

\* After a drift the table allows nothing but a new fingerprint.
LEMMA AfterDrift == Transitions["DRIFT_DETECTED"] = {"FINGERPRINTED"}
<1>1. "DRIFT_DETECTED" \in Statuses
  BY DEF Statuses
<1> QED BY <1>1 DEF Transitions

\* What a read leaves a call with.
LEMMA ReadInv ==
    ASSUME IInv, NEW c \in Calls, NEW r \in Reviews, NEW from, NEW next, NEW step,
           step \in {"resolve", "print", "score", "patch", "approve", "compare",
                     "drifting", "promote", "activate"},
           step = "print" \/ next # "FINGERPRINTED",
           step = "approve" => printOf[r] # Nobody,
           step = "promote" => call[c].number \in 1..Len(versions),
           step = "activate" => promoted[r] \in 1..Len(versions),
           Read(c, from, r, next, step)
    PROVE  IInv'
<1> DEFINE s == [call[c] EXCEPT !.pc = step, !.review = r, !.seen = status[r],
                                !.print = IF step \in {"approve", "compare"} THEN printOf[r]
                                          ELSE Nobody]
<1>1. RowsType /\ call \in [Calls -> CallRecords] /\ UNCHANGED <<workflow, registry, reviews>>
  BY InvParts DEF Read
<1>2. call' = [call EXCEPT ![c] = s]
  BY <1>1 DEF Read, CallRecords
<1>3. s \in CallRecords
  <2>1. status[r] \in Statuses /\ printOf[r] \in Bodies \union {Nobody} /\ call[c] \in CallRecords
    BY <1>1 DEF RowsType
  <2>2. step \in Steps
    BY DEF Steps
  <2> QED BY <2>1, <2>2 DEF CallRecords
<1>4. s.pc = step /\ s.review = r /\ s.seen = status[r]
      /\ (step = "approve" => s.print = printOf[r]) /\ s.number = call[c].number
  BY <1>1 DEF CallRecords
<1>5. step # "print" => status[r] # "DRIFT_DETECTED"
  BY AfterDrift DEF Read, Allowed
<1>6. printOf[r] \in Bodies \union {Nobody}
  BY <1>1 DEF RowsType
<1> HIDE DEF s
<1>7. call'[c] = s
  BY <1>1, <1>2
<1>8. CallOK(c)'
  <2>1. Asserted(c)'
    BY <1>4, <1>5, <1>6, <1>7 DEF Asserted, At, Asserting
  <2>2. Window(c)'
    BY <1>4, <1>7 DEF Window, At
  <2>3. Numbered(c)'
    BY <1>1, <1>4, <1>7 DEF Numbered, workflow, reviews
  <2> QED BY <2>1, <2>2, <2>3 DEF CallOK
<1> QED BY <1>1, <1>2, <1>3, <1>8, ReadOnly

(* The reads of the review. *)
LEMMA ReadsStep ==
    ASSUME IInv, NEW c \in Calls, NEW r \in Reviews,
           \/ FingerprintRead(c, r) \/ ScoreRead(c, r) \/ PatchRead(c, r)
           \/ ApproveRead(c, r) \/ PromoteRead(c, r)
    PROVE  IInv'
<1>1. CASE FingerprintRead(c, r)
  BY <1>1, ReadInv DEF FingerprintRead
<1>2. CASE ScoreRead(c, r)
  BY <1>2, ReadInv DEF ScoreRead
<1>3. CASE PatchRead(c, r)
  BY <1>3, ReadInv DEF PatchRead
<1>4. CASE ApproveRead(c, r)
  BY <1>4, ReadInv DEF ApproveRead
<1>5. CASE PromoteRead(c, r)
  BY <1>5, ReadInv DEF PromoteRead
<1> QED BY <1>1, <1>2, <1>3, <1>4, <1>5

LEMMA ReadsAgainStep ==
    ASSUME IInv, NEW c \in Calls,
           \/ ResolveRead(c) \/ PromoteDriftRead(c) \/ PromoteMarkRead(c) \/ ActivateRead(c)
    PROVE  IInv'
<1>1. Asserted(c) /\ Numbered(c)
  BY InvParts DEF CallOK
<1>2. CASE ResolveRead(c)
  <2>1. call[c].review \in Reviews
    BY <1>1, <1>2 DEF ResolveRead, Read, At, Asserted, Reviewing
  <2> QED BY <1>2, <2>1, ReadInv DEF ResolveRead
<1>3. CASE PromoteDriftRead(c)
  <2>1. call[c].review \in Reviews
    BY <1>1, <1>3 DEF PromoteDriftRead, Read, At, Asserted, Reviewing
  <2> QED BY <1>3, <2>1, ReadInv DEF PromoteDriftRead
<1>4. CASE PromoteMarkRead(c)
  <2>1. call[c].review \in Reviews /\ call[c].number \in 1..Len(versions)
    BY <1>1, <1>4 DEF PromoteMarkRead, Read, At, Asserted, Numbered, Reviewing
  <2> QED BY <1>4, <2>1, ReadInv DEF PromoteMarkRead
<1>5. CASE ActivateRead(c)
  <2>1. call[c].review \in Reviews /\ promoted[call[c].review] \in 1..Len(versions)
    BY <1>1, <1>5 DEF ActivateRead, Read, At, Asserted, Numbered, Reviewing
  <2> QED BY <1>5, <2>1, ReadInv DEF ActivateRead
<1> QED BY <1>2, <1>3, <1>4, <1>5

(* The reads of the workflow. *)
LEMMA PatchPlanStep ==
    ASSUME IInv, NEW c \in Calls, PatchPlan(c)
    PROVE  IInv'
<1> DEFINE s == [call[c] EXCEPT !.pc = "inject", !.mark = rows]
<1>1. /\ RowsType /\ call \in [Calls -> CallRecords] /\ Asserted(c) /\ At(c, "patch")
      /\ UNCHANGED <<workflow, registry, reviews>>
  BY InvParts DEF CallOK, PatchPlan
<1>2. call[c] \in CallRecords /\ rows \in Nat
  BY <1>1 DEF RowsType
<1>3. call' = [call EXCEPT ![c] = s]
  BY <1>2 DEF PatchPlan, CallRecords
<1>4. s \in CallRecords
  BY <1>2 DEF CallRecords, Steps
<1>5. s.pc = "inject" /\ s.review = call[c].review /\ s.seen = call[c].seen
  BY <1>2 DEF CallRecords
<1> HIDE DEF s
<1>6. call'[c] = s
  BY <1>1, <1>3
<1>7. Asserted(c)'
  BY <1>1, <1>5, <1>6 DEF Asserted, At, Reviewing, Asserting
<1>8. Window(c)'
  BY <1>5, <1>6 DEF Window, At
<1>9. Numbered(c)'
  BY <1>5, <1>6 DEF Numbered
<1> QED BY <1>1, <1>3, <1>4, <1>7, <1>8, <1>9, ReadOnly DEF CallOK

LEMMA PromoteCompareStep ==
    ASSUME IInv, NEW c \in Calls, PromoteCompare(c)
    PROVE  IInv'
<1> DEFINE step == IF def = call[c].print THEN "publish" ELSE "drift"
<1> DEFINE s == [call[c] EXCEPT !.pc = step, !.mark = edits]
<1>1. /\ RowsType /\ call \in [Calls -> CallRecords] /\ Asserted(c) /\ At(c, "compare")
      /\ UNCHANGED <<workflow, registry, reviews>>
  BY InvParts DEF CallOK, PromoteCompare
<1>2. call[c] \in CallRecords /\ edits \in Nat
  BY <1>1, BoundsAssumption DEF RowsType
<1>3. step \in {"publish", "drift"} /\ (step = "publish" => def = call[c].print)
  OBVIOUS
<1>4. call' = [call EXCEPT ![c] = s]
  BY <1>2 DEF PromoteCompare, CallRecords
<1> HIDE DEF step
<1>5. s \in CallRecords
  BY <1>2, <1>3 DEF CallRecords, Steps
<1>6. s.pc = step /\ s.review = call[c].review /\ s.print = call[c].print /\ s.mark = edits
  BY <1>2 DEF CallRecords
<1> HIDE DEF s
<1>7. call'[c] = s /\ def' = def /\ edits' = edits
  BY <1>1, <1>4 DEF workflow
<1>8. Asserted(c)'
  BY <1>1, <1>3, <1>6, <1>7 DEF Asserted, At, Reviewing, Asserting
<1>9. Window(c)'
  BY <1>2, <1>3, <1>6, <1>7 DEF Window, At
<1>10. Numbered(c)'
  BY <1>3, <1>6, <1>7 DEF Numbered
<1> QED BY <1>1, <1>4, <1>5, <1>8, <1>9, <1>10, ReadOnly DEF CallOK

LEMMA SnapshotStep ==
    ASSUME IInv, NEW c \in Calls, NEW step,
           \/ At(c, "publish") /\ step = "commit"
           \/ At(c, "idle") /\ step = "guard",
           Snapshot(c, step)
    PROVE  IInv'
<1> DEFINE s == [call[c] EXCEPT !.pc = step, !.def = def, !.base = edits,
                                !.number = Len(versions) + 1]
<1>1. /\ RowsType /\ call \in [Calls -> CallRecords] /\ Asserted(c) /\ Window(c)
      /\ UNCHANGED <<workflow, registry, reviews>>
  BY InvParts DEF CallOK, Snapshot
<1>2. /\ call[c] \in CallRecords /\ def \in Bodies /\ edits \in Nat
      /\ Len(versions) \in Nat /\ Len(versions) < MaxVersions
  BY <1>1, BoundsAssumption DEF RowsType, Snapshot
<1>3. call' = [call EXCEPT ![c] = s]
  BY <1>2 DEF Snapshot, CallRecords
<1>4. s \in CallRecords
  <2>1. step \in Steps /\ Len(versions) + 1 \in Nat
    BY <1>2 DEF Steps
  <2> QED BY <1>2, <2>1 DEF CallRecords
<1>5. /\ s.pc = step /\ s.review = call[c].review /\ s.print = call[c].print
      /\ s.def = def /\ s.mark = call[c].mark /\ s.base = edits
      /\ s.number = Len(versions) + 1
  BY <1>2 DEF CallRecords
<1> HIDE DEF s
<1>6. call'[c] = s /\ def' = def /\ edits' = edits
  BY <1>1, <1>3 DEF workflow
<1>7. Asserted(c)'
  BY <1>1, <1>5, <1>6 DEF Asserted, At, Reviewing, Asserting
<1>8. Window(c)'
  BY <1>1, <1>2, <1>5, <1>6 DEF Window, At
<1>9. Numbered(c)'
  <2>1. Len(versions) + 1 \in 1..MaxVersions
    BY <1>2, BoundsAssumption
  <2> QED BY <1>5, <1>6, <2>1 DEF Numbered
<1> QED BY <1>1, <1>3, <1>4, <1>7, <1>8, <1>9, ReadOnly DEF CallOK

\* Only the step of a call and what it read of the workflow change: nothing
\* its step makes it know.
LEMMA Unknowing ==
    ASSUME IInv, UNCHANGED <<workflow, registry, reviews>>,
           NEW c \in Calls, NEW s \in CallRecords,
           call' = [call EXCEPT ![c] = s], s.pc \in {"check", "mark", "edit"}
    PROVE  IInv'
<1>1. call'[c] = s
  BY InvParts
<1>2. CallOK(c)'
  BY <1>1 DEF CallOK, Asserted, Window, Numbered, At, Reviewing, Asserting
<1> QED BY <1>2, ReadOnly

LEMMA DriftReadStep ==
    ASSUME IInv, NEW c \in Calls, DriftRead(c)
    PROVE  IInv'
<1> DEFINE s == [call[c] EXCEPT !.pc = "check", !.def = def]
<1>1. call[c] \in CallRecords /\ def \in Bodies
  BY InvParts DEF RowsType
<1>2. call' = [call EXCEPT ![c] = s]
  BY <1>1 DEF DriftRead, CallRecords
<1>3. s \in CallRecords /\ s.pc = "check"
  BY <1>1 DEF CallRecords, Steps
<1> QED BY <1>2, <1>3, Unknowing DEF DriftRead

LEMMA DriftFindStep ==
    ASSUME IInv, NEW c \in Calls, DriftFind(c)
    PROVE  IInv'
<1>1. CASE End(c)
  BY <1>1, EndsQuietly DEF DriftFind
<1>2. CASE ~End(c)
  <2>1. PICK b \in Bodies : call' = [call EXCEPT ![c].pc = "mark", ![c].def = Nobody,
                                                  ![c].print = b]
    BY <1>2 DEF DriftFind
  <2> DEFINE s == [call[c] EXCEPT !.pc = "mark", !.def = Nobody, !.print = b]
  <2>2. call[c] \in CallRecords
    BY InvParts
  <2>3. call' = [call EXCEPT ![c] = s]
    BY <2>1, <2>2 DEF CallRecords
  <2>4. s \in CallRecords /\ s.pc = "mark"
    BY <2>2 DEF CallRecords, Steps
  <2> QED BY <2>3, <2>4, Unknowing DEF DriftFind
<1> QED BY <1>1, <1>2

LEMMA EditReadStep ==
    ASSUME IInv, NEW c \in Calls, EditRead(c)
    PROVE  IInv'
<1> DEFINE s == [call[c] EXCEPT !.pc = "edit"]
<1>1. call[c] \in CallRecords
  BY InvParts
<1>2. call' = [call EXCEPT ![c] = s]
  BY DEF EditRead, Goto
<1>3. s \in CallRecords /\ s.pc = "edit"
  BY <1>1 DEF CallRecords, Steps
<1> QED BY <1>2, <1>3, Unknowing DEF EditRead

LEMMA PublishGuardStep ==
    ASSUME IInv, NEW c \in Calls, PublishGuard(c)
    PROVE  IInv'
<1>1. CASE End(c)
  BY <1>1, EndsQuietly DEF PublishGuard
<1>2. CASE Goto(c, "release")
  <2> DEFINE s == [call[c] EXCEPT !.pc = "release"]
  <2>1. /\ call \in [Calls -> CallRecords] /\ CallOK(c) /\ At(c, "guard")
        /\ UNCHANGED <<workflow, registry, reviews>>
    BY InvParts DEF PublishGuard
  <2>2. call' = [call EXCEPT ![c] = s]
    BY <1>2 DEF Goto
  <2>3. s \in CallRecords
    BY <2>1 DEF CallRecords, Steps
  <2>4. s.pc = "release" /\ s.number = call[c].number /\ s.def = call[c].def
    BY <2>1 DEF CallRecords
  <2> HIDE DEF s
  <2>5. call'[c] = s
    BY <2>1, <2>2
  <2>6. CallOK(c)'
    BY <2>1, <2>4, <2>5 DEF CallOK, Asserted, Window, Numbered, At, Reviewing, Asserting
  <2> QED BY <2>1, <2>2, <2>3, <2>6, ReadOnly
<1> QED BY <1>1, <1>2 DEF PublishGuard

-----------------------------------------------------------------------------
(* The fingerprints.                                                        *)

LEMMA RegistryOnly ==
    ASSUME IInv, RowsType', UNCHANGED <<workflow, reviews>>
    PROVE  Kept /\ HistoryTells' /\ PromotedRows'
<1>1. RowsType /\ HistoryTells /\ PromotedRows
  BY InvParts
<1>2. edits \in Nat /\ Len(versions) \in Nat
  BY <1>1, BoundsAssumption DEF RowsType
<1>3. HistoryTells' /\ PromotedRows'
  BY <1>1 DEF HistoryTells, PromotedRows, workflow, reviews
<1>4. Kept
  BY <1>2 DEF Kept, workflow, reviews
<1> QED BY <1>3, <1>4

LEMMA FingerprintCreateStep ==
    ASSUME IInv, NEW c \in Calls, FingerprintCreate(c)
    PROVE  IInv'
<1> DEFINE s == [call[c] EXCEPT !.pc = "printed", !.print = def]
<1>1. /\ RowsType /\ call \in [Calls -> CallRecords] /\ Asserted(c) /\ At(c, "print")
      /\ UNCHANGED <<workflow, approvals, reviews>>
  BY InvParts DEF CallOK, FingerprintCreate
<1>2. call[c] \in CallRecords /\ def \in Bodies
  BY <1>1 DEF RowsType
<1>3. call' = [call EXCEPT ![c] = s]
  BY <1>2 DEF FingerprintCreate, CallRecords
<1>4. s \in CallRecords /\ s.pc = "printed" /\ s.review = call[c].review
  BY <1>2 DEF CallRecords, Steps
<1> HIDE DEF s
<1>5. prints' \in [Bodies -> {"NONE", "DRAFT", "APPROVED", "DRIFTED"}]
  <2>1. prints \in [Bodies -> {"NONE", "DRAFT", "APPROVED", "DRIFTED"}]
    BY <1>1 DEF RowsType
  <2> QED BY <1>2, <2>1 DEF FingerprintCreate
<1>6. RowsType'
  BY <1>1, <1>5 DEF RowsType, workflow, reviews
<1>7. call'[c] = s
  BY <1>1, <1>3
<1>8. CallOK(c)'
  BY <1>1, <1>4, <1>7 DEF CallOK, Asserted, Window, Numbered, At, Reviewing, Asserting
<1> QED BY <1>1, <1>3, <1>4, <1>6, <1>8, RegistryOnly, Stepped

LEMMA ApprovePrintStep ==
    ASSUME IInv, NEW c \in Calls, ApprovePrint(c)
    PROVE  IInv'
<1> DEFINE s == [call[c] EXCEPT !.pc = "approved", !.print = Nobody]
<1>1. /\ RowsType /\ call \in [Calls -> CallRecords] /\ Asserted(c) /\ At(c, "approve")
      /\ UNCHANGED <<workflow, reviews>>
  BY InvParts DEF CallOK, ApprovePrint
<1>2. /\ call[c] \in CallRecords /\ call[c].print \in Bodies
      /\ call' = [call EXCEPT ![c] = s]
  BY <1>1 DEF Asserted, ApprovePrint, CallRecords
<1>3. s \in CallRecords /\ s.pc = "approved" /\ s.review = call[c].review /\ s.seen = call[c].seen
  BY <1>2 DEF CallRecords, Steps
<1> HIDE DEF s
<1>4. prints' \in [Bodies -> {"NONE", "DRAFT", "APPROVED", "DRIFTED"}]
  <2>1. prints \in [Bodies -> {"NONE", "DRAFT", "APPROVED", "DRIFTED"}]
    BY <1>1 DEF RowsType
  <2> QED BY <1>2, <2>1 DEF ApprovePrint
<1>5. approvals' \in SUBSET (Bodies \X Bodies)
  <2>1. approvals \in SUBSET (Bodies \X Bodies)
    BY <1>1 DEF RowsType
  <2> QED BY <1>2, <2>1 DEF ApprovePrint
<1>6. RowsType'
  BY <1>1, <1>4, <1>5 DEF RowsType, workflow, reviews
<1>7. call'[c] = s
  BY <1>1, <1>2
<1>8. CallOK(c)'
  BY <1>1, <1>3, <1>7 DEF CallOK, Asserted, Window, Numbered, At, Reviewing, Asserting
<1> QED BY <1>1, <1>2, <1>3, <1>6, <1>8, RegistryOnly, Stepped

-----------------------------------------------------------------------------
(* The writes of the review rows.                                           *)

\* Status and history are written together, and a promoted status only with
\* the number of a version that exists.
LEMMA Written ==
    ASSUME IInv, NEW c \in Calls, NEW r \in Reviews, NEW next \in Statuses,
           NEW s \in CallRecords,
           call' = [call EXCEPT ![c] = s], CallOK(c)',
           status' = [status EXCEPT ![r] = next], last' = [last EXCEPT ![r] = next],
           UNCHANGED <<workflow, registry>>,
           printOf' \in [Reviews -> Bodies \union {Nobody}],
           promoted' \in [Reviews -> 0..MaxVersions],
           \A x \in Reviews : x # r => promoted'[x] = promoted[x],
           \/ promoted'[r] \in 1..Len(versions)
           \/ promoted'[r] = promoted[r] /\ next \notin {"PROMOTED", "ACTIVE"}
    PROVE  IInv'
<1>1. RowsType /\ HistoryTells /\ PromotedRows
  BY InvParts
<1>2. /\ edits \in Nat /\ Len(versions) \in Nat
      /\ status \in [Reviews -> Statuses] /\ last \in [Reviews -> Statuses]
  BY <1>1, BoundsAssumption DEF RowsType
<1>3. RowsType'
  BY <1>1, <1>2 DEF RowsType, workflow, registry
<1>4. HistoryTells'
  BY <1>1, <1>2 DEF HistoryTells
<1>5. PromotedRows'
  BY <1>1, <1>2 DEF PromotedRows, workflow
<1>6. Kept
  BY <1>2 DEF Kept, workflow
<1> QED BY <1>3, <1>4, <1>5, <1>6, Stepped

\* The write that ends a call and leaves fingerprint and promotion alone.
LEMMA WrittenLast ==
    ASSUME IInv, NEW c \in Calls, NEW r \in Reviews, NEW next \in Statuses, End(c),
           status' = [status EXCEPT ![r] = next], last' = [last EXCEPT ![r] = next],
           UNCHANGED <<workflow, registry, promoted>>,
           printOf' \in [Reviews -> Bodies \union {Nobody}],
           \/ promoted[r] \in 1..Len(versions)
           \/ next \notin {"PROMOTED", "ACTIVE"}
    PROVE  IInv'
<1>1. RowsType /\ call' = [call EXCEPT ![c] = Idle] /\ call'[c] = Idle
  BY InvParts DEF End
<1>2. CallOK(c)'
  BY <1>1 DEF CallOK, Asserted, Window, Numbered, At, Idle, Reviewing, Asserting
<1>3. promoted' \in [Reviews -> 0..MaxVersions] /\ promoted' = promoted
  BY <1>1 DEF RowsType
<1> QED BY <1>1, <1>2, <1>3, IdleRecord, Written

LEMMA LastWrites ==
    ASSUME IInv, NEW c \in Calls,
           \/ ResolveWrite(c) \/ FingerprintWrite(c) \/ ScoreWrite(c) \/ PatchWrite(c)
           \/ ApproveWrite(c) \/ PromoteDriftWrite(c) \/ Activate(c)
    PROVE  IInv'
<1>1. RowsType /\ Asserted(c) /\ Numbered(c) /\ call[c] \in CallRecords
  BY InvParts DEF CallOK
<1>2. /\ printOf \in [Reviews -> Bodies \union {Nobody}]
      /\ call[c].print \in Bodies \union {Nobody}
  BY <1>1, CallFields DEF RowsType
<1>3. {"NODE_RESOLVED", "FINGERPRINTED", "APPROVED", "HUMAN_REVIEW", "NEEDS_REPAIR",
       "REJECTED", "POLICY_INJECTED", "DRIFT_DETECTED", "ACTIVE"} \subseteq Statuses
  BY DEF Statuses
<1>4. CASE ResolveWrite(c)
  <2>1. call[c].review \in Reviews
    BY <1>1, <1>4 DEF ResolveWrite, At, Asserted, Reviewing
  <2> QED BY <1>2, <1>3, <1>4, <2>1, WrittenLast DEF ResolveWrite, Write
<1>5. CASE PatchWrite(c)
  <2>1. call[c].review \in Reviews
    BY <1>1, <1>5 DEF PatchWrite, At, Asserted, Reviewing
  <2> QED BY <1>2, <1>3, <1>5, <2>1, WrittenLast DEF PatchWrite, Write
<1>6. CASE ApproveWrite(c)
  <2>1. call[c].review \in Reviews
    BY <1>1, <1>6 DEF ApproveWrite, At, Asserted, Reviewing
  <2> QED BY <1>2, <1>3, <1>6, <2>1, WrittenLast DEF ApproveWrite, Write
<1>7. CASE PromoteDriftWrite(c)
  <2>1. call[c].review \in Reviews
    BY <1>1, <1>7 DEF PromoteDriftWrite, At, Asserted, Reviewing
  <2> QED BY <1>2, <1>3, <1>7, <2>1, WrittenLast DEF PromoteDriftWrite, Write
<1>8. CASE Activate(c)
  <2>1. call[c].review \in Reviews
    BY <1>1, <1>8 DEF Activate, At, Asserted, Reviewing
  <2>2. promoted[call[c].review] \in 1..Len(versions)
    BY <1>1, <1>8 DEF Activate, At, Numbered
  <2> QED BY <1>2, <1>3, <1>8, <2>1, <2>2, WrittenLast DEF Activate, Write
<1>9. CASE FingerprintWrite(c)
  <2>1. call[c].review \in Reviews
    BY <1>1, <1>9 DEF FingerprintWrite, At, Asserted, Reviewing
  <2>2. printOf' \in [Reviews -> Bodies \union {Nobody}]
    BY <1>2, <1>9 DEF FingerprintWrite
  <2> QED BY <1>3, <1>9, <2>1, <2>2, WrittenLast DEF FingerprintWrite, Write
<1>10. CASE ScoreWrite(c)
  <2>1. call[c].review \in Reviews
    BY <1>1, <1>10 DEF ScoreWrite, At, Asserted, Reviewing
  <2>2. PICK next \in {"APPROVED", "HUMAN_REVIEW", "NEEDS_REPAIR", "REJECTED"} : Write(c, next)
    BY <1>10 DEF ScoreWrite
  <2> QED BY <1>2, <1>3, <1>10, <2>1, <2>2, WrittenLast DEF ScoreWrite, Write
<1> QED BY <1>4, <1>5, <1>6, <1>7, <1>8, <1>9, <1>10

LEMMA RegisterStep ==
    ASSUME IInv, NEW c \in Calls, NEW r \in Reviews, Register(c, r)
    PROVE  IInv'
<1> DEFINE s == [call[c] EXCEPT !.pc = "registered", !.review = r]
<1>1. RowsType /\ call \in [Calls -> CallRecords]
  BY InvParts
<1>2. call[c] \in CallRecords
  BY <1>1
<1>3. call' = [call EXCEPT ![c] = s]
  BY <1>2 DEF Register, CallRecords
<1>4. s \in CallRecords /\ s.pc = "registered" /\ s.review = r
  BY <1>2 DEF CallRecords, Steps
<1> HIDE DEF s
<1>5. call'[c] = s
  BY <1>1, <1>3
<1>6. CallOK(c)'
  BY <1>4, <1>5 DEF CallOK, Asserted, Window, Numbered, At, Reviewing, Asserting
<1>7. /\ printOf' \in [Reviews -> Bodies \union {Nobody}] /\ promoted' = promoted
      /\ promoted' \in [Reviews -> 0..MaxVersions] /\ UNCHANGED <<workflow, registry>>
  BY <1>1 DEF Register, RowsType
<1>8. "TEMP_REGISTERED" \in Statuses
  BY DEF Statuses
<1> QED BY <1>3, <1>4, <1>6, <1>7, <1>8, Written DEF Register

LEMMA PromoteMarkStep ==
    ASSUME IInv, NEW c \in Calls, PromoteMark(c)
    PROVE  IInv'
<1> DEFINE s == [call[c] EXCEPT !.pc = "serve", !.number = 0]
           r == call[c].review
<1>1. /\ RowsType /\ call \in [Calls -> CallRecords] /\ Asserted(c) /\ Numbered(c)
      /\ At(c, "promote")
      /\ UNCHANGED <<workflow, registry, printOf>>
      /\ promoted' = [promoted EXCEPT ![r] = call[c].number]
  BY InvParts DEF CallOK, PromoteMark
<1>2. /\ call[c] \in CallRecords /\ r \in Reviews /\ call[c].number \in 1..Len(versions)
      /\ call' = [call EXCEPT ![c] = s]
  BY <1>1 DEF Asserted, Numbered, At, Reviewing, PromoteMark, CallRecords
<1>3. s \in CallRecords /\ s.pc = "serve" /\ s.review = r
  BY <1>2 DEF CallRecords, Steps
<1>4. call[c].number \in 0..MaxVersions
  BY <1>1, <1>2, BoundsAssumption DEF RowsType
<1>5. /\ promoted' \in [Reviews -> 0..MaxVersions] /\ promoted'[r] = call[c].number
      /\ \A x \in Reviews : x # r => promoted'[x] = promoted[x]
  <2>1. promoted \in [Reviews -> 0..MaxVersions]
    BY <1>1 DEF RowsType
  <2> QED BY <1>1, <1>2, <1>4, <2>1
<1>6. printOf' \in [Reviews -> Bodies \union {Nobody}] /\ versions' = versions
  BY <1>1 DEF RowsType, workflow
<1> HIDE DEF s
<1>7. call'[c] = s
  BY <1>1, <1>2
<1>8. CallOK(c)'
  BY <1>2, <1>3, <1>5, <1>6, <1>7
     DEF CallOK, Asserted, Window, Numbered, At, Reviewing, Asserting
<1>9. /\ status' = [status EXCEPT ![r] = "PROMOTED"] /\ last' = [last EXCEPT ![r] = "PROMOTED"]
      /\ "PROMOTED" \in Statuses
  BY DEF PromoteMark, Write, Statuses
<1> QED BY <1>1, <1>2, <1>3, <1>5, <1>6, <1>8, <1>9, Written

LEMMA DriftMarkStep ==
    ASSUME IInv, NEW c \in Calls, DriftMark(c)
    PROVE  IInv'
<1>1. RowsType /\ HistoryTells /\ PromotedRows
  BY InvParts
<1>2. /\ edits \in Nat /\ Len(versions) \in Nat /\ status \in [Reviews -> Statuses]
      /\ prints \in [Bodies -> {"NONE", "DRAFT", "APPROVED", "DRIFTED"}]
  BY <1>1, BoundsAssumption DEF RowsType
<1>3. /\ UNCHANGED <<workflow, approvals, last, printOf, promoted>>
      /\ status' \in [Reviews -> Statuses]
      /\ prints' \in [Bodies -> {"NONE", "DRAFT", "APPROVED", "DRIFTED"}]
  BY <1>2 DEF DriftMark, Statuses
<1>4. RowsType'
  BY <1>1, <1>3 DEF RowsType, workflow
<1>5. HistoryTells'
  BY <1>1, <1>2, <1>3 DEF HistoryTells, DriftMark
<1>6. PromotedRows'
  BY <1>1, <1>2, <1>3 DEF PromotedRows, DriftMark, workflow
<1>7. Kept
  BY <1>2, <1>3 DEF Kept, workflow
<1> QED BY <1>4, <1>5, <1>6, <1>7, EndsCall DEF DriftMark

-----------------------------------------------------------------------------
(* The writes of the workflow.                                              *)

\* A commit adds one version, the number that was computed for it.
LEMMA CommitAdds ==
    ASSUME IInv, NEW c \in Calls, call[c].pc \in {"commit", "release"}, Commit(c)
    PROVE  /\ RowsType' /\ Kept /\ HistoryTells' /\ PromotedRows'
           /\ Len(versions') = Len(versions) + 1 /\ call[c].number = Len(versions')
           /\ active' = Len(versions')
           /\ \A n \in 1..Len(versions) : versions'[n] = versions[n]
<1>1. /\ RowsType /\ HistoryTells /\ PromotedRows /\ Window(c) /\ Numbered(c)
  BY InvParts DEF CallOK
<1>2. /\ call[c].def \in Bodies /\ call[c].number \in 1..MaxVersions
      /\ versions \in Seq(Bodies) /\ edits \in Nat
  BY <1>1, BoundsAssumption DEF Window, Numbered, RowsType
<1>3. /\ versions' = Append(versions, call[c].def) /\ active' = call[c].number
      /\ call[c].number = Len(versions) + 1
      /\ UNCHANGED <<def, rows, edits, registry, reviews>>
  BY DEF Commit
<1>4. /\ versions' \in Seq(Bodies) /\ Len(versions') = Len(versions) + 1
      /\ \A n \in 1..Len(versions) : versions'[n] = versions[n]
      /\ Len(versions) \in Nat
  BY <1>2, <1>3
<1>5. RowsType'
  <2>1. Len(versions') <= MaxVersions /\ active' \in 0..MaxVersions
    BY <1>2, <1>3, <1>4, BoundsAssumption
  <2> QED BY <1>1, <1>3, <1>4, <2>1 DEF RowsType, registry, reviews
<1>6. HistoryTells'
  BY <1>1, <1>3 DEF HistoryTells, reviews
<1>7. \A n \in 1..Len(versions) : n \in 1..Len(versions')
  BY <1>4
<1>8. PromotedRows'
  BY <1>1, <1>3, <1>7 DEF PromotedRows, reviews
<1>9. Kept
  BY <1>2, <1>3, <1>4, <1>7 DEF Kept, reviews
<1> QED BY <1>3, <1>4, <1>5, <1>6, <1>8, <1>9

LEMMA PromoteCommitStep ==
    ASSUME IInv, NEW c \in Calls, PromoteCommit(c)
    PROVE  IInv'
<1> DEFINE s == [Idle EXCEPT !.pc = "bind", !.review = call[c].review,
                             !.number = call[c].number]
<1>1. /\ call \in [Calls -> CallRecords] /\ Asserted(c) /\ RowsType
      /\ At(c, "commit") /\ Commit(c) /\ call' = [call EXCEPT ![c] = s]
  BY InvParts DEF CallOK, PromoteCommit
<1>2. /\ RowsType' /\ Kept /\ HistoryTells' /\ PromotedRows'
      /\ Len(versions') = Len(versions) + 1 /\ call[c].number = Len(versions')
  BY <1>1, CommitAdds DEF At
<1>3. call[c] \in CallRecords /\ call[c].review \in Reviews
  BY <1>1 DEF Asserted, At, Reviewing
<1>4. s \in CallRecords
  BY <1>3, IdleRecord DEF CallRecords, Steps
<1>5. s.pc = "bind" /\ s.review = call[c].review /\ s.number = call[c].number
  BY DEF Idle
<1> HIDE DEF s
<1>6. call'[c] = s
  BY <1>1
<1>7. call[c].number \in 1..Len(versions')
  BY <1>1, <1>2 DEF RowsType
<1>8. CallOK(c)'
  BY <1>3, <1>5, <1>6, <1>7 DEF CallOK, Asserted, Window, Numbered, At, Reviewing, Asserting
<1> QED BY <1>1, <1>2, <1>4, <1>8, Stepped

LEMMA PublishCommitStep ==
    ASSUME IInv, NEW c \in Calls, PublishCommit(c)
    PROVE  IInv'
BY CommitAdds, EndsCall DEF PublishCommit, At

LEMMA PatchInjectStep ==
    ASSUME IInv, NEW c \in Calls, PatchInject(c)
    PROVE  IInv'
<1> DEFINE s == [call[c] EXCEPT !.pc = "patched", !.mark = 0]
<1>1. call \in [Calls -> CallRecords] /\ CallOK(c) /\ At(c, "inject")
  BY InvParts DEF PatchInject
<1>2. call' = [call EXCEPT ![c] = s]
  BY <1>1 DEF PatchInject, CallRecords
<1>3. /\ s \in CallRecords /\ s.pc = "patched" /\ s.review = call[c].review
      /\ s.seen = call[c].seen
  BY <1>1 DEF CallRecords, Steps
<1> HIDE DEF s
<1>4. call'[c] = s
  BY <1>1, <1>2
<1>5. CallOK(c)'
  BY <1>1, <1>3, <1>4 DEF CallOK, Asserted, Window, Numbered, At, Reviewing, Asserting
<1> QED BY <1>2, <1>3, <1>5, ReadOnly DEF PatchInject

\* A save opens no window: the count of saves tells.
LEMMA SaveKeeps ==
    ASSUME IInv, NEW b \in Bodies, Save(b), rows' \in {rows, rows + 1}
    PROVE  RowsType' /\ Kept /\ HistoryTells' /\ PromotedRows'
<1>1. RowsType /\ HistoryTells /\ PromotedRows
  BY InvParts
<1>2. edits \in Nat /\ rows' \in Nat /\ Len(versions) \in Nat /\ edits + 1 \in 0..MaxEdits
  BY <1>1, BoundsAssumption DEF RowsType, Save
<1>3. RowsType'
  BY <1>1, <1>2 DEF Save, RowsType, registry, reviews
<1>4. HistoryTells' /\ PromotedRows'
  BY <1>1 DEF Save, HistoryTells, PromotedRows, reviews
<1>5. Kept
  BY <1>2 DEF Save, Kept, reviews
<1> QED BY <1>3, <1>4, <1>5

LEMMA EditWriteStep ==
    ASSUME IInv, NEW c \in Calls, EditWrite(c)
    PROVE  IInv'
BY SaveKeeps, EndsCall DEF EditWrite

\* The saves that are one step of no call.
LEMMA SavesStep ==
    ASSUME IInv, NEW c \in Calls, Restore(c) \/ AddSubAgent(c) \/ DeleteSubAgent(c)
    PROVE  IInv'
<1>1. call \in [Calls -> CallRecords] /\ call' = call
  BY InvParts DEF Restore, AddSubAgent, DeleteSubAgent
<1>2. RowsType' /\ Kept /\ HistoryTells' /\ PromotedRows'
  <2>1. CASE Restore(c)
    <3>1. \A n \in 1..Len(versions) : versions[n] \in Bodies
      BY InvParts DEF RowsType
    <3> QED BY <2>1, <3>1, SaveKeeps DEF Restore
  <2>2. CASE AddSubAgent(c)
    BY <2>2, SaveKeeps DEF AddSubAgent
  <2>3. CASE DeleteSubAgent(c)
    BY <2>3, SaveKeeps DEF DeleteSubAgent
  <2> QED BY <2>1, <2>2, <2>3
<1>3. call' = [call EXCEPT ![c] = call[c]] /\ call'[c] = call[c] /\ call[c] \in CallRecords
  BY <1>1
<1>4. CallOK(c)'
  BY <1>2, <1>3, InvParts, OthersKeep
<1> QED BY <1>2, <1>3, <1>4, Stepped

-----------------------------------------------------------------------------
(* The invariant.                                                           *)

LEMMA InitInv == Init => IInv
<1> SUFFICES ASSUME Init PROVE IInv
  OBVIOUS
<1>1. RowsType
  <2>1. def \in Bodies /\ prints \in [Bodies -> {"NONE", "DRAFT", "APPROVED", "DRIFTED"}]
        /\ approvals \in SUBSET (Bodies \X Bodies)
    <3>1. def \in Bodies /\ prints = [b \in Bodies |-> "NONE"] /\ approvals = {}
      BY DEF Init
    <3> QED BY <3>1
  <2>2. /\ rows \in Nat /\ edits \in 0..MaxEdits /\ active \in 0..MaxVersions
        /\ versions \in Seq(Bodies) /\ Len(versions) <= MaxVersions
        /\ promoted \in [Reviews -> 0..MaxVersions]
    BY BoundsAssumption DEF Init
  <2>3. /\ status \in [Reviews -> Statuses] /\ last \in [Reviews -> Statuses]
        /\ printOf \in [Reviews -> Bodies \union {Nobody}]
    BY DEF Init, Statuses
  <2> QED BY <2>1, <2>2, <2>3 DEF RowsType
<1>2. call \in [Calls -> CallRecords] /\ \A c \in Calls : call[c] = Idle
  BY IdleRecord DEF Init
<1>3. \A c \in Calls : CallOK(c)
  BY <1>2, IdleOK
<1>4. HistoryTells /\ PromotedRows
  BY DEF Init, HistoryTells, PromotedRows
<1> QED BY <1>1, <1>2, <1>3, <1>4, InvParts

LEMMA NextInv == IInv /\ [Next]_vars => IInv'
<1> SUFFICES ASSUME IInv, [Next]_vars PROVE IInv'
  OBVIOUS
<1>1. ASSUME NEW c \in Calls, NEW r \in Reviews, ReviewCall(c, r) PROVE IInv'
  BY <1>1, RegisterStep, ReadsStep DEF ReviewCall
<1>2. ASSUME NEW c \in Calls, ReviewStep(c) PROVE IInv'
  BY <1>2, ReadsAgainStep, LastWrites, FingerprintCreateStep, PatchPlanStep, PatchInjectStep,
     ApprovePrintStep DEF ReviewStep
<1>3. ASSUME NEW c \in Calls, PromoteStep(c) PROVE IInv'
  BY <1>3, ReadsAgainStep, LastWrites, PromoteCompareStep, SnapshotStep, PromoteCommitStep,
     PromoteMarkStep DEF PromoteStep, PromoteSnapshot
<1>4. ASSUME NEW c \in Calls, OtherStep(c) PROVE IInv'
  BY <1>4, DriftReadStep, DriftFindStep, DriftMarkStep, EditReadStep, EditWriteStep, SavesStep,
     SnapshotStep, PublishGuardStep, PublishCommitStep, EndsQuietly
     DEF OtherStep, PublishRead, CallFails
<1>5. CASE UNCHANGED vars
  BY <1>5 DEF vars, IInv, TypeOK, CallOK, Asserted, Window, Numbered, At, HistoryTells,
     PromotionHolds
<1> QED BY <1>1, <1>2, <1>3, <1>4, <1>5 DEF Next

LEMMA Invariant == Spec => []IInv
BY InitInv, NextInv, PTL DEF Spec

-----------------------------------------------------------------------------
(* Who writes the status of a review, and who the versions.                 *)

StatusWrite(c) ==
    \/ ResolveWrite(c) \/ FingerprintWrite(c) \/ ScoreWrite(c) \/ PatchWrite(c)
    \/ ApproveWrite(c) \/ PromoteDriftWrite(c) \/ Activate(c) \/ PromoteMark(c)
    \/ DriftMark(c) \/ \E r \in Reviews : Register(c, r)

LEMMA StatusWriters ==
    ASSUME [Next]_vars
    PROVE  status' = status \/ \E c \in Calls : StatusWrite(c)
<1>1. ASSUME NEW c \in Calls, NEW r \in Reviews, ReviewCall(c, r)
      PROVE  status' = status \/ StatusWrite(c)
  BY <1>1 DEF ReviewCall, FingerprintRead, ScoreRead, PatchRead, ApproveRead, PromoteRead,
     Read, reviews, StatusWrite
<1>2. ASSUME NEW c \in Calls, ReviewStep(c)
      PROVE  status' = status \/ StatusWrite(c)
  BY <1>2 DEF ReviewStep, ResolveRead, FingerprintCreate, PatchPlan, PatchInject, ApprovePrint,
     Read, reviews, StatusWrite
<1>3. ASSUME NEW c \in Calls, PromoteStep(c)
      PROVE  status' = status \/ StatusWrite(c)
  BY <1>3 DEF PromoteStep, PromoteCompare, PromoteDriftRead, PromoteSnapshot, Snapshot,
     PromoteCommit, Commit, PromoteMarkRead, ActivateRead, Read, reviews, StatusWrite
<1>4. ASSUME NEW c \in Calls, OtherStep(c)
      PROVE  status' = status \/ StatusWrite(c)
  BY <1>4 DEF OtherStep, DriftRead, DriftFind, EditRead, EditWrite, Restore, AddSubAgent,
     DeleteSubAgent, Save, PublishRead,
     Snapshot, PublishGuard, PublishCommit, Commit, CallFails, reviews, StatusWrite
<1> QED BY <1>1, <1>2, <1>3, <1>4 DEF Next, vars

LEMMA VersionWriters ==
    ASSUME [Next]_vars
    PROVE  \/ versions' = versions /\ active' = active
           \/ \E c \in Calls : call[c].pc \in {"commit", "release"} /\ Commit(c)
<1>1. ASSUME NEW c \in Calls, NEW r \in Reviews, ReviewCall(c, r)
      PROVE  versions' = versions /\ active' = active
  BY <1>1 DEF ReviewCall, Register, FingerprintRead, ScoreRead, PatchRead, ApproveRead,
     PromoteRead, Read, workflow
<1>2. ASSUME NEW c \in Calls, ReviewStep(c)
      PROVE  versions' = versions /\ active' = active
  BY <1>2 DEF ReviewStep, ResolveRead, ResolveWrite, FingerprintCreate, FingerprintWrite,
     ScoreWrite, PatchPlan, PatchInject, PatchWrite, ApprovePrint, ApproveWrite, Read, workflow
<1>3. ASSUME NEW c \in Calls, PromoteStep(c)
      PROVE  \/ versions' = versions /\ active' = active
             \/ call[c].pc \in {"commit", "release"} /\ Commit(c)
  BY <1>3 DEF PromoteStep, PromoteCompare, PromoteDriftRead, PromoteDriftWrite, PromoteSnapshot,
     Snapshot, PromoteCommit, PromoteMarkRead, PromoteMark, ActivateRead, Activate, Read,
     workflow, At
<1>4. ASSUME NEW c \in Calls, OtherStep(c)
      PROVE  \/ versions' = versions /\ active' = active
             \/ call[c].pc \in {"commit", "release"} /\ Commit(c)
  BY <1>4 DEF OtherStep, DriftRead, DriftFind, DriftMark, EditRead, EditWrite, Restore, AddSubAgent,
     DeleteSubAgent, Save,
     PublishRead, Snapshot, PublishGuard, PublishCommit, CallFails, workflow, At
<1> QED BY <1>1, <1>2, <1>3, <1>4 DEF Next, vars

\* A write asserted the status it read, and that was not a drift.
LEMMA DriftStep == IInv /\ [Next]_vars => DriftLeft
<1> SUFFICES ASSUME IInv, [Next]_vars, NEW r \in Reviews,
                    status[r] = "DRIFT_DETECTED", status'[r] # status[r]
             PROVE  \/ status'[r] = "FINGERPRINTED"
                    \/ \E c \in Calls :
                         /\ call'[c] # call[c]
                         /\ call[c].review = r /\ call[c].seen # "DRIFT_DETECTED"
  BY DEF DriftLeft
<1>1. PICK c \in Calls : StatusWrite(c)
  BY StatusWriters
<1>2. RowsType /\ call \in [Calls -> CallRecords] /\ Asserted(c)
  BY InvParts DEF CallOK
<1>3. status \in [Reviews -> Statuses] /\ call[c] \in CallRecords
  BY <1>2 DEF RowsType
<1>4. CASE \E next : Write(c, next) /\ call[c].pc \in Asserting /\ call'[c].pc \notin Asserting
  <2>1. call[c].seen # "DRIFT_DETECTED" /\ call'[c] # call[c]
    BY <1>2, <1>4 DEF Asserted
  <2>2. call[c].review = r
    BY <1>3, <1>4 DEF Write
  <2> QED BY <2>1, <2>2
<1>5. CASE FingerprintWrite(c)
  BY <1>3, <1>5 DEF FingerprintWrite, Write
<1>6. CASE DriftMark(c)
  BY <1>3, <1>6 DEF DriftMark, Approved
<1>7. CASE \E x \in Reviews : Register(c, x)
  BY <1>3, <1>7 DEF Register
<1>8. ASSUME End(c) PROVE call'[c].pc \notin Asserting
  BY <1>2, <1>8 DEF End, Idle, Asserting
<1>9. ASSUME PromoteMark(c) PROVE call'[c].pc \notin Asserting
  <2>1. call'[c] = [call[c] EXCEPT !.pc = "serve", !.number = 0]
    BY <1>2, <1>9 DEF PromoteMark
  <2>2. call'[c].pc = "serve"
    BY <1>3, <2>1 DEF CallRecords
  <2> QED BY <2>2 DEF Asserting
<1>10. CASE ResolveWrite(c) \/ ScoreWrite(c) \/ PatchWrite(c) \/ ApproveWrite(c)
            \/ PromoteDriftWrite(c) \/ Activate(c)
  <2>1. call[c].pc \in Asserting /\ End(c)
    BY <1>10 DEF ResolveWrite, ScoreWrite, PatchWrite, ApproveWrite, PromoteDriftWrite, Activate,
       At, Asserting
  <2>2. \E next : Write(c, next)
    BY <1>10 DEF ResolveWrite, ScoreWrite, PatchWrite, ApproveWrite, PromoteDriftWrite, Activate
  <2> QED BY <1>4, <1>8, <2>1, <2>2
<1>11. CASE PromoteMark(c)
  <2>1. call[c].pc \in Asserting /\ Write(c, "PROMOTED")
    BY <1>11 DEF PromoteMark, At, Asserting
  <2> QED BY <1>4, <1>9, <1>11, <2>1
<1> QED BY <1>1, <1>5, <1>6, <1>7, <1>10, <1>11 DEF StatusWrite

LEMMA VersionStep == IInv /\ [Next]_vars => VersionAdded
<1> SUFFICES ASSUME IInv, [Next]_vars PROVE VersionAdded
  OBVIOUS
<1>1. versions \in Seq(Bodies)
  BY InvParts DEF RowsType
<1>2. CASE versions' = versions /\ active' = active
  BY <1>1, <1>2 DEF VersionAdded, IsPrefix
<1>3. ASSUME NEW c \in Calls, call[c].pc \in {"commit", "release"}, Commit(c)
      PROVE  VersionAdded
  <2>1. /\ RowsType' /\ Len(versions') = Len(versions) + 1 /\ active' = Len(versions')
        /\ \A n \in 1..Len(versions) : versions'[n] = versions[n]
    BY <1>3, CommitAdds
  <2>2. versions' \in Seq(Bodies)
    BY <2>1 DEF RowsType
  <2>3. IsPrefix(versions, versions')
    <3>1. Len(versions) \in Nat /\ Len(versions) <= Len(versions')
      BY <1>1, <2>1
    <3>2. SubSeq(versions, 1, Len(versions)) = [n \in 1..Len(versions) |-> versions[n]]
      BY <1>1, <3>1
    <3>3. SubSeq(versions', 1, Len(versions)) = [n \in 1..Len(versions) |-> versions'[n]]
      BY <2>2, <3>1
    <3> QED BY <2>1, <3>1, <3>2, <3>3 DEF IsPrefix
  <2>4. versions' # versions
    BY <1>1, <2>1
  <2> QED BY <2>1, <2>3, <2>4 DEF VersionAdded
<1> QED BY <1>2, <1>3, VersionWriters

-----------------------------------------------------------------------------
(* Every variable of a reachable state holds values of its type: the number
   of a version never exceeds their bound, for any number of calls.         *)
THEOREM TypeCorrect == Spec => []TypeOK
<1>1. IInv => TypeOK
  BY DEF IInv
<1> QED BY <1>1, Invariant, PTL

(* The history of a review ends where the row stands, whatever calls read it
   when; a promotion publishes the fingerprint it compared unless someone has
   saved the nodes, the edges or a sub-agent between its comparison and its
   snapshot, which promote does not notice; a promoted review names a version
   that exists.                                                             *)
THEOREM ReviewsTellTheTruth == Spec => []ReviewHolds
<1>1. IInv => ReviewHolds
  BY DEF IInv, ReviewHolds
<1> QED BY <1>1, Invariant, PTL

(* A detected drift is left only for the fingerprint, or by a call that had
   read the review before.                                                  *)
THEOREM DriftIsLeft == Spec => DriftStands
<1>1. IInv /\ [Next]_vars => [DriftLeft]_vars
  BY DriftStep
<1> QED BY <1>1, Invariant, PTL DEF Spec, DriftStands

(* No commit, of a promotion or of a publication, changes a version or leaves
   a gap in the numbers, and the newest version is the active one.          *)
THEOREM VersionsOnlyGrow == Spec => VersionsStand
<1>1. IInv /\ [Next]_vars => [VersionAdded]_vars
  BY VersionStep
<1> QED BY <1>1, Invariant, PTL DEF Spec, VersionsStand

===============================================================================
