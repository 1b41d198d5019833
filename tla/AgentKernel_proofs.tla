-------------------------- MODULE AgentKernel_proofs --------------------------
(***************************************************************************)
(* AgentKernel: what the group delivered is accounted for and an ended     *)
(* mission stands, for any number of calls, consumers, faults and crashes  *)
(* and any batch size.                                                     *)
(*                                                                         *)
(* Accounted looks at the whole group, while each step is of one consumer. *)
(* The strengthening ties a consumer's batch to what is pending for it:    *)
(* what it still holds was delivered to it alone and was not tried before. *)
(***************************************************************************)
EXTENDS AgentKernel, FiniteSetTheorems, SequenceTheorems, TLAPS

EndedCalls == {c \in Calls : call[c].at = "ended"}

\* One entry for each call that has ended, at most, and create's.
StreamBound == stream <= Cardinality(EndedCalls) + 1

Delivered == {i \in Entries : group.first < i /\ i <= group.last}

GroupOK ==
    /\ ~group.made => group.first = 0 /\ group.last = 0
    /\ group.first <= group.last /\ group.last <= stream
    /\ \A i \in acked : i <= group.last /\ i \in handled
    /\ \A i \in Entries : group.last < i => tries[i] = 0
    /\ \A i \in Entries : tries[i] <= 1
    /\ \A i \in Delivered : i \in acked \/ \E k \in Consumers : i \in pending[k]

\* What is pending is pending for one consumer, and not acknowledged.
Owned(k) ==
    /\ \A i \in pending[k] : i \in Delivered /\ i \notin acked
    /\ \A l \in Consumers : l # k => pending[k] \cap pending[l] = {}

\* What consumer k holds is pending for it, in order, and still to be tried.
Holding(k) ==
    LET batch == consumer[k].batch
        at    == consumer[k].at
    IN  /\ at \in {"handling", "acking"} => batch # <<>>
        /\ at \notin {"handling", "acking"} => batch = <<>>
        /\ \A j \in DOMAIN batch : batch[j] \in pending[k]
        /\ \A j, m \in DOMAIN batch : j # m => batch[j] # batch[m]
        /\ \A j \in DOMAIN batch : j > 1 \/ at = "handling" => tries[batch[j]] = 0
        /\ at = "acking" => batch[1] \in handled

\* Who may still re-open a mission that ended read it before.
Reopeners ==
    mission = "ENDED" =>
        \A c \in Calls : /\ call[c].at = "write"
                         /\ call[c].kind \in {"start", "resume"}
                         => c \in late

Asked == \A c \in Calls : call[c].at = "write" => call[c].kind \in AllKinds

\* A loop past its first step has made the group, or found it.
Ready == \A k \in Consumers :
            consumer[k].at \notin {"off", "making", "ended"} => group.made

IInv ==
    /\ TypeOK /\ Asked /\ Ready
    /\ StreamBound
    /\ GroupOK
    /\ \A k \in Consumers : Owned(k) /\ Holding(k)
    /\ Reopeners

-----------------------------------------------------------------------------
(* The stream. *)
LEMMA EndedGrows ==
    ASSUME TypeOK, StreamBound, call' \in [Calls -> [at : CallPoints, kind : AllKinds \cup {"none"}]],
           EndedCalls \subseteq EndedCalls', stream' = stream
    PROVE  StreamBound'
<1>1. IsFiniteSet(EndedCalls')
  BY KernelAssumption, FS_Subset DEF KernelAssumption, EndedCalls
<1>2. Cardinality(EndedCalls) <= Cardinality(EndedCalls')
  BY <1>1, FS_Subset
<1>3. Cardinality(EndedCalls) \in Nat /\ Cardinality(EndedCalls') \in Nat
  BY <1>1, FS_Subset, FS_CardinalityType
<1> QED BY <1>2, <1>3 DEF StreamBound, TypeOK

LEMMA AppendBounded ==
    ASSUME TypeOK, StreamBound, NEW c \in Calls, AppendEntry(c)
    PROVE  StreamBound'
<1>1. EndedCalls' = EndedCalls \cup {c} /\ c \notin EndedCalls
  BY DEF AppendEntry, Goto, EndedCalls, TypeOK
<1>2. IsFiniteSet(EndedCalls)
  BY KernelAssumption, FS_Subset DEF KernelAssumption, EndedCalls
<1>3. Cardinality(EndedCalls') = Cardinality(EndedCalls) + 1
  BY <1>1, <1>2, FS_AddElement
<1>4. Cardinality(EndedCalls) \in Nat
  BY <1>2, FS_CardinalityType
<1> QED BY <1>3, <1>4 DEF StreamBound, TypeOK, AppendEntry

LEMMA StreamFits ==
    ASSUME TypeOK, StreamBound
    PROVE  stream <= Cardinality(Calls) + 1 /\ Cardinality(Calls) \in Nat
<1>1. IsFiniteSet(Calls) /\ EndedCalls \subseteq Calls
  BY KernelAssumption DEF KernelAssumption, EndedCalls
<1>2. Cardinality(EndedCalls) <= Cardinality(Calls) /\ IsFiniteSet(EndedCalls)
  BY <1>1, FS_Subset
<1>3. Cardinality(EndedCalls) \in Nat /\ Cardinality(Calls) \in Nat
  BY <1>1, <1>2, FS_CardinalityType
<1> QED BY <1>2, <1>3 DEF StreamBound, TypeOK

\* What a read delivers: the entries after the group's last, each once.
LEMMA FreshEntries ==
    ASSUME TypeOK, StreamBound, GroupOK, group.last < stream
    PROVE  /\ Fresh \in Seq(Entries) /\ Fresh # <<>>
           /\ Len(Fresh) \in Nat /\ DOMAIN Fresh = 1 .. Len(Fresh)
           /\ \A j \in DOMAIN Fresh : Fresh[j] = group.last + j
           /\ group.last < group.last + Len(Fresh)
           /\ group.last + Len(Fresh) <= stream
           /\ {Fresh[j] : j \in DOMAIN Fresh}
                 = {i \in Entries : group.last < i /\ i <= group.last + Len(Fresh)}
<1> USE KernelAssumption DEF KernelAssumption
<1> DEFINE n == AtMost(BatchSize, stream - group.last)
<1>1. n \in Nat /\ n >= 1 /\ n <= stream - group.last
      /\ group.last \in Nat /\ stream \in Nat
  BY DEF TypeOK, AtMost
<1>2. stream <= Cardinality(Calls) + 1 /\ Cardinality(Calls) \in Nat
  BY StreamFits
<1> HIDE DEF n
<1>3. Fresh = [j \in 1 .. n |-> group.last + j]
  BY DEF Fresh, n
<1>4. \A j \in 1 .. n : group.last + j \in Entries
  BY <1>1, <1>2 DEF Entries
<1>5. Fresh \in Seq(Entries)
  BY <1>1, <1>3, <1>4
<1>6. Len(Fresh) = n /\ DOMAIN Fresh = 1 .. n
  BY <1>1, <1>3
<1>7. \A i \in Entries : group.last < i /\ i <= group.last + n
         => i - group.last \in 1 .. n /\ group.last + (i - group.last) = i
  BY <1>1, <1>2 DEF Entries
<1>8. {Fresh[j] : j \in DOMAIN Fresh}
         = {i \in Entries : group.last < i /\ i <= group.last + n}
  <2>1. \A j \in 1 .. n : group.last < group.last + j /\ group.last + j <= group.last + n
    BY <1>1
  <2> QED BY <1>3, <1>4, <1>6, <1>7, <2>1
<1>9. \A j \in DOMAIN Fresh : Fresh[j] = group.last + j
  BY <1>3, <1>6
<1>10. Fresh # <<>>
  BY <1>1, <1>6
<1>11. group.last < group.last + Len(Fresh) /\ group.last + Len(Fresh) <= stream
  BY <1>1, <1>6
<1> HIDE DEF Fresh
<1> QED BY <1>1, <1>5, <1>6, <1>8, <1>9, <1>10, <1>11

-----------------------------------------------------------------------------
(* Types, step by step. *)
CallType == [at : CallPoints, kind : AllKinds \cup {"none"}]

LEMMA CallTypes ==
    ASSUME TypeOK, Asked, NEW c \in Calls, Call(c)
    PROVE  TypeOK'
<1> USE KernelAssumption DEF KernelAssumption
<1>1. ASSUME NEW point \in CallPoints, Goto(c, point)
      PROVE  call' \in [Calls -> CallType]
  <2>1. [at |-> point, kind |-> "none"] \in CallType
    BY DEF CallType
  <2> QED BY <1>1, <2>1 DEF Goto, TypeOK, CallType
<1>2. ASSUME call' \in [Calls -> CallType], mission' \in MissionStatuses,
             late' \subseteq Calls, stream' \in Nat, faults' \in Nat,
             UNCHANGED <<group, pending, acked, consumer, history>>
      PROVE  TypeOK'
  BY <1>2 DEF TypeOK, CallType, history
<1>3. mission \in MissionStatuses /\ late \subseteq Calls /\ stream \in Nat /\ faults \in Nat
  BY DEF TypeOK
<1>4. ASSUME NEW kind \in Kinds, Read(c, kind)
      PROVE  TypeOK'
  <2>1. [at |-> "write", kind |-> kind] \in CallType
    BY DEF CallType, CallPoints
  <2>2. call' \in [Calls -> CallType]
    BY <1>4, <2>1 DEF Read, TypeOK, CallType
  <2> QED BY <1>2, <1>3, <1>4, <2>2 DEF Read, Elsewhere, redis
<1>5. ASSUME NEW kind \in Kinds, Refused(c, kind)
      PROVE  TypeOK'
  BY <1>1, <1>2, <1>3, <1>5 DEF Refused, Elsewhere, redis, CallPoints
<1>6. CASE Write(c)
  <2>1. call[c].kind \in AllKinds /\ Writing \subseteq Calls
    BY <1>6 DEF Asked, Write, Writing
  <2>2. MissionAfter(call[c].kind) \in MissionStatuses
    BY <2>1 DEF MissionAfter, MissionStatuses, AllKinds
  <2>3. call' \in [Calls -> CallType] /\ late' \subseteq Calls
    BY <1>1, <1>3, <1>6, <2>1 DEF Write, CallPoints
  <2> QED BY <1>2, <1>3, <1>6, <2>2, <2>3 DEF Write, Elsewhere, redis
<1>7. CASE StoreMessage(c)
  BY <1>1, <1>2, <1>3, <1>7 DEF StoreMessage, Elsewhere, redis, CallPoints
<1>8. CASE AppendEntry(c)
  BY <1>1, <1>2, <1>3, <1>8 DEF AppendEntry, CallPoints
<1>9. CASE CallFails(c)
  BY <1>1, <1>2, <1>3, <1>9 DEF CallFails, redis, CallPoints
<1> QED BY <1>4, <1>5, <1>6, <1>7, <1>8, <1>9 DEF Call

\* The loop's place and batch after a move; what a consumer holds is its tail.
LEMMA NextEntryTypes ==
    ASSUME TypeOK, NEW k \in Consumers, NextEntry(k), consumer[k].batch # <<>>
    PROVE  /\ consumer' \in [Consumers ->
                  [at : LoopPoints, batch : Seq(Entries), stop : BOOLEAN]]
           /\ consumer'[k].batch = Tail(consumer[k].batch)
           /\ consumer'[k].at = IF Len(consumer[k].batch) > 1 THEN "handling"
                                ELSE "reading"
           /\ \A l \in Consumers : l # k => consumer'[l] = consumer[l]
<1>1. consumer[k] \in [at : LoopPoints, batch : Seq(Entries), stop : BOOLEAN]
  BY DEF TypeOK
<1>2. Tail(consumer[k].batch) \in Seq(Entries)
  BY <1>1
<1> DEFINE to == IF Len(consumer[k].batch) > 1 THEN "handling" ELSE "reading"
<1>3. to \in LoopPoints
  BY DEF LoopPoints
<1>4. consumer' = [consumer EXCEPT ![k].batch = Tail(consumer[k].batch), ![k].at = to]
  BY DEF NextEntry, TypeOK
<1> HIDE DEF to
<1>5. /\ consumer'[k] \in [at : LoopPoints, batch : Seq(Entries), stop : BOOLEAN]
      /\ consumer'[k].batch = Tail(consumer[k].batch) /\ consumer'[k].at = to
      /\ \A l \in Consumers : l # k => consumer'[l] = consumer[l]
      /\ consumer' \in [Consumers ->
                  [at : LoopPoints, batch : Seq(Entries), stop : BOOLEAN]]
  BY <1>1, <1>2, <1>3, <1>4 DEF TypeOK
<1> QED BY <1>5 DEF to

LEMMA LoopToTypes ==
    ASSUME TypeOK, NEW k \in Consumers, NEW point \in LoopPoints, LoopTo(k, point)
    PROVE  /\ consumer' \in [Consumers ->
                  [at : LoopPoints, batch : Seq(Entries), stop : BOOLEAN]]
           /\ consumer'[k].batch = consumer[k].batch
           /\ consumer'[k].at = point
           /\ \A l \in Consumers : l # k => consumer'[l] = consumer[l]
  BY DEF LoopTo, TypeOK

LEMMA DeliverTypes ==
    ASSUME IInv, NEW k \in Consumers, Deliver(k)
    PROVE  /\ group' \in [made : BOOLEAN, first : Nat, last : Nat]
           /\ group'.first = group.first /\ group'.made = group.made
           /\ group'.last = group.last + Len(Fresh)
           /\ pending' \in [Consumers -> SUBSET Entries]
           /\ pending'[k] = pending[k] \cup
                 {i \in Entries : group.last < i /\ i <= group.last + Len(Fresh)}
           /\ \A l \in Consumers : l # k => pending'[l] = pending[l]
<1>1. /\ Len(Fresh) \in Nat
      /\ {Fresh[j] : j \in DOMAIN Fresh}
            = {i \in Entries : group.last < i /\ i <= group.last + Len(Fresh)}
  BY FreshEntries DEF Deliver, IInv
<1> DEFINE n == Len(Fresh)
           new == {i \in Entries : group.last < i /\ i <= group.last + n}
<1>2. group' = [group EXCEPT !.last = group.last + n]
      /\ pending' = [pending EXCEPT ![k] = pending[k] \cup new]
  BY <1>1 DEF Deliver, IInv, TypeOK
<1>3. group.last + n \in Nat
  BY <1>1 DEF IInv, TypeOK
<1> HIDE DEF n
<1>4. /\ group' \in [made : BOOLEAN, first : Nat, last : Nat]
      /\ group'.first = group.first /\ group'.made = group.made
      /\ group'.last = group.last + n
  BY <1>2, <1>3 DEF IInv, TypeOK
<1>5. new \subseteq Entries
  OBVIOUS
<1> HIDE DEF new
<1>6. /\ pending' \in [Consumers -> SUBSET Entries]
      /\ pending'[k] = pending[k] \cup new
      /\ \A l \in Consumers : l # k => pending'[l] = pending[l]
  BY <1>2, <1>5 DEF IInv, TypeOK
<1> QED BY <1>4, <1>6 DEF n, new

LEMMA CurrentEntry ==
    ASSUME IInv, NEW k \in Consumers, consumer[k].at \in {"handling", "acking"}
    PROVE  /\ consumer[k].batch \in Seq(Entries) /\ consumer[k].batch # <<>>
           /\ Len(consumer[k].batch) \in Nat /\ 1 \in DOMAIN consumer[k].batch
           /\ DOMAIN consumer[k].batch = 1 .. Len(consumer[k].batch)
           /\ Current(k) = consumer[k].batch[1] /\ Current(k) \in Entries
<1>1. consumer[k].batch \in Seq(Entries) /\ consumer[k].batch # <<>>
  BY DEF IInv, TypeOK, Holding
<1> QED BY <1>1 DEF Current

-----------------------------------------------------------------------------
(* What the group and the consumers keep under each step. *)
Consumed == GroupOK /\ \A k \in Consumers : Owned(k) /\ Holding(k)

Handled == {"handling", "acking"}

\* Nothing of the group changes, nobody picks up or leaves a batch.
LEMMA QuietStep ==
    ASSUME IInv, UNCHANGED <<group, pending, acked, handled, tries>>,
           stream' \in Nat, stream <= stream',
           \A k \in Consumers :
              /\ consumer'[k].batch = consumer[k].batch
              /\ \/ consumer'[k].at = consumer[k].at
                 \/ consumer'[k].at \notin Handled /\ consumer[k].at \notin Handled
    PROVE  Consumed'
<1>1. GroupOK'
  BY DEF IInv, TypeOK, GroupOK, Delivered
<1>2. ASSUME NEW k \in Consumers
      PROVE  (Owned(k))'
  BY DEF IInv, Owned, Delivered
<1>3. ASSUME NEW k \in Consumers
      PROVE  (Holding(k))'
  BY DEF IInv, Holding, Handled
<1> QED BY <1>1, <1>2, <1>3 DEF Consumed

LEMMA EnsureStep ==
    ASSUME IInv, NEW k \in Consumers, EnsureGroup(k)
    PROVE  Consumed' /\ group' \in [made : BOOLEAN, first : Nat, last : Nat]
<1>1. /\ consumer[k].at = "making" /\ LoopTo(k, "reading")
      /\ UNCHANGED <<stream, pending, acked, handled, tries>>
      /\ group \in [made : BOOLEAN, first : Nat, last : Nat] /\ stream \in Nat
  BY DEF EnsureGroup, history, IInv, TypeOK
<1>2. \A l \in Consumers :
         /\ consumer'[l].batch = consumer[l].batch
         /\ \/ consumer'[l].at = consumer[l].at
            \/ consumer'[l].at \notin Handled /\ consumer[l].at \notin Handled
  BY <1>1, LoopToTypes DEF IInv, LoopPoints, Handled
<1>3. CASE group.made
  <2>1. group' = group
    BY <1>3 DEF EnsureGroup
  <2> QED BY <1>1, <1>2, <2>1, QuietStep
<1>4. CASE ~group.made
  <2>1. PICK first \in {0, stream} : group' = [made |-> TRUE, first |-> first, last |-> first]
    BY <1>4 DEF EnsureGroup
  <2>2. group.first = 0 /\ group.last = 0
    BY <1>4 DEF IInv, GroupOK
  <2>3. /\ group'.made /\ group'.first = first /\ group'.last = first /\ first \in Nat
        /\ first <= stream /\ group' \in [made : BOOLEAN, first : Nat, last : Nat]
    BY <1>1, <2>1
  <2>4. \A i \in Entries : i \in Nat /\ 0 < i
    BY DEF Entries
  <2>5. Delivered = {} /\ Delivered' = {}
    BY <2>2, <2>3, <2>4 DEF Delivered
  <2>6. acked = {} /\ \A l \in Consumers : pending[l] = {}
    BY <2>2, <2>4, <2>5 DEF IInv, TypeOK, GroupOK, Owned
  <2>7. GroupOK'
    BY <1>1, <2>2, <2>3, <2>4, <2>5, <2>6 DEF IInv, TypeOK, GroupOK
  <2>8. ASSUME NEW l \in Consumers
        PROVE  (Owned(l))'
    BY <1>1, <2>6 DEF Owned
  <2>9. ASSUME NEW l \in Consumers
        PROVE  (Holding(l))'
    BY <1>1, <1>2 DEF IInv, Holding, Handled
  <2> QED BY <2>3, <2>7, <2>8, <2>9 DEF Consumed
<1> QED BY <1>3, <1>4

\* The entries a read delivers are new to everybody.
LEMMA DeliverStep ==
    ASSUME IInv, NEW k \in Consumers, Deliver(k), UNCHANGED <<stream, acked, handled, tries>>
    PROVE  GroupOK' /\ \A l \in Consumers : (Owned(l))'
<1> DEFINE n == Len(Fresh)
           new == {i \in Entries : group.last < i /\ i <= group.last + n}
<1>1. /\ group.last \in Nat /\ group.first \in Nat /\ stream \in Nat /\ n \in Nat
      /\ group.last + n <= stream /\ \A i \in Entries : i \in Nat
  BY FreshEntries DEF IInv, TypeOK, Deliver, Entries
<1>2. /\ group'.first = group.first /\ group'.made = group.made
      /\ group'.last = group.last + n
      /\ pending'[k] = pending[k] \cup new
      /\ \A l \in Consumers : l # k => pending'[l] = pending[l]
      /\ pending' \in [Consumers -> SUBSET Entries]
  BY DeliverTypes
<1> HIDE DEF n
<1>3. group.made
  BY DEF Deliver, IInv, Ready
<1>4. Delivered' = Delivered \cup new /\ Delivered \cap new = {}
  BY <1>1, <1>2 DEF Delivered, IInv, GroupOK
<1>5. \A i \in new : i \notin acked /\ tries[i] = 0
                     /\ \A l \in Consumers : i \notin pending[l]
  BY <1>1 DEF IInv, GroupOK, Owned, Delivered
<1>6. GroupOK'
  <2>1. ASSUME NEW i \in Delivered'
        PROVE  i \in acked' \/ \E l \in Consumers : i \in pending'[l]
    BY <1>2, <1>4, <2>1 DEF IInv, GroupOK
  <2>2. /\ group'.made /\ group'.first <= group'.last /\ group'.last <= stream'
        /\ \A i \in acked' : i <= group'.last /\ i \in handled'
        /\ \A i \in Entries : group'.last < i => tries'[i] = 0
        /\ \A i \in Entries : tries'[i] <= 1
    BY <1>1, <1>2, <1>3 DEF IInv, TypeOK, GroupOK
  <2> QED BY <2>1, <2>2 DEF GroupOK
<1>7. ASSUME NEW l \in Consumers
      PROVE  (Owned(l))'
  <2>1. \A i \in pending'[l] : i \in Delivered' /\ i \notin acked'
    BY <1>2, <1>4, <1>5 DEF IInv, Owned
  <2>2. \A m \in Consumers : m # l => pending'[l] \cap pending'[m] = {}
    BY <1>2, <1>5 DEF IInv, Owned
  <2> QED BY <2>1, <2>2 DEF Owned
<1> QED BY <1>6, <1>7

LEMMA ReadStep ==
    ASSUME IInv, NEW k \in Consumers, ReadBatch(k) \/ ReadLost(k)
    PROVE  Consumed' /\ consumer' \in [Consumers ->
                  [at : LoopPoints, batch : Seq(Entries), stop : BOOLEAN]]
<1>1. Deliver(k) /\ UNCHANGED <<stream, acked, handled, tries>>
  BY DEF ReadBatch, ReadLost, history
<1>2. GroupOK' /\ \A l \in Consumers : (Owned(l))'
  BY <1>1, DeliverStep
<1>3. \A l \in Consumers : pending[l] \subseteq pending'[l]
  BY <1>1, DeliverTypes
<1>4. CASE ReadBatch(k)
  <2>1. /\ consumer' = [consumer EXCEPT ![k].batch = Fresh, ![k].at = "handling"]
        /\ Fresh \in Seq(Entries) /\ Fresh # <<>> /\ DOMAIN Fresh = 1 .. Len(Fresh)
        /\ \A j \in DOMAIN Fresh : Fresh[j] = group.last + j
        /\ {Fresh[j] : j \in DOMAIN Fresh}
              = {i \in Entries : group.last < i /\ i <= group.last + Len(Fresh)}
    BY <1>1, <1>4, FreshEntries DEF ReadBatch, IInv, Deliver
  <2> DEFINE batch == Fresh
  <2>2. \A j \in DOMAIN batch : batch[j] \in pending'[k]
    BY <1>1, <2>1, DeliverTypes
  <2>3. \A j \in DOMAIN batch : batch[j] \in Entries /\ group.last < batch[j]
    BY <2>1
  <2>4. \A j \in DOMAIN batch : tries[batch[j]] = 0
    BY <2>3 DEF IInv, GroupOK
  <2>5. \A j, m \in DOMAIN batch : j # m => batch[j] # batch[m]
    BY <2>1 DEF IInv, TypeOK
  <2>6. batch \in Seq(Entries) /\ batch # <<>>
    BY <2>1
  <2>7. consumer' = [consumer EXCEPT ![k].batch = batch, ![k].at = "handling"]
    BY <2>1
  <2> HIDE DEF batch
  <2>8. /\ consumer'[k].batch = batch /\ consumer'[k].at = "handling"
        /\ \A l \in Consumers : l # k => consumer'[l] = consumer[l]
        /\ consumer' \in [Consumers ->
              [at : LoopPoints, batch : Seq(Entries), stop : BOOLEAN]]
    BY <2>6, <2>7 DEF IInv, TypeOK, LoopPoints
  <2>9. (Holding(k))'
    BY <1>1, <2>2, <2>4, <2>5, <2>6, <2>8 DEF Holding
  <2>10. ASSUME NEW l \in Consumers, l # k
         PROVE  (Holding(l))'
    <3>1. Holding(l) /\ consumer'[l] = consumer[l] /\ pending[l] \subseteq pending'[l]
      BY <1>3, <2>8, <2>10 DEF IInv
    <3>2. tries' = tries /\ handled' = handled
      BY <1>1
    <3> QED BY <3>1, <3>2 DEF Holding
  <2> QED BY <1>2, <2>8, <2>9, <2>10 DEF Consumed
<1>5. CASE ReadLost(k)
  <2>1. /\ \A l \in Consumers : l # k => consumer'[l] = consumer[l]
        /\ consumer'[k].batch = consumer[k].batch /\ consumer'[k].at = "waiting"
        /\ consumer[k].at = "reading"
        /\ consumer' \in [Consumers ->
              [at : LoopPoints, batch : Seq(Entries), stop : BOOLEAN]]
    BY <1>5, LoopToTypes DEF ReadLost, Deliver, IInv, LoopPoints
  <2>2. ASSUME NEW l \in Consumers
        PROVE  (Holding(l))'
    <3>1. /\ Holding(l) /\ consumer'[l].batch = consumer[l].batch
          /\ pending[l] \subseteq pending'[l]
          /\ \/ consumer'[l].at = consumer[l].at
             \/ consumer'[l].at \notin Handled /\ consumer[l].at \notin Handled
      BY <1>3, <2>1 DEF IInv, Handled
    <3>2. tries' = tries /\ handled' = handled
      BY <1>1
    <3> QED BY <3>1, <3>2 DEF Holding, Handled
  <2> QED BY <1>2, <2>1, <2>2 DEF Consumed
<1> QED BY <1>4, <1>5

\* The entry in hand belongs to its consumer alone, and is tried once only.
LEMMA InHand ==
    ASSUME IInv, NEW k \in Consumers, consumer[k].at \in Handled
    PROVE  /\ consumer[k].at = "handling" => tries[Current(k)] = 0
           /\ consumer[k].at = "acking" => Current(k) \in handled
           /\ Current(k) \in Delivered /\ Current(k) \in pending[k]
           /\ \A j \in DOMAIN consumer[k].batch :
                 j > 1 => consumer[k].batch[j] # Current(k)
           /\ \A l \in Consumers : l # k =>
                 \A j \in DOMAIN consumer[l].batch : consumer[l].batch[j] # Current(k)
<1>1. /\ 1 \in DOMAIN consumer[k].batch /\ Current(k) = consumer[k].batch[1]
      /\ DOMAIN consumer[k].batch = 1 .. Len(consumer[k].batch)
      /\ Len(consumer[k].batch) \in Nat
  BY CurrentEntry DEF Handled
<1>2. Holding(k) /\ Owned(k) /\ \A l \in Consumers : Holding(l)
  BY DEF IInv
<1>3. Current(k) \in pending[k]
  BY <1>1, <1>2 DEF Holding
<1>4. /\ consumer[k].at = "handling" => tries[Current(k)] = 0
      /\ consumer[k].at = "acking" => Current(k) \in handled
      /\ Current(k) \in Delivered
  BY <1>1, <1>2, <1>3 DEF Holding, Owned
<1>5. \A j \in DOMAIN consumer[k].batch : j > 1 => consumer[k].batch[j] # Current(k)
  BY <1>1, <1>2 DEF Holding
<1>6. ASSUME NEW l \in Consumers, l # k, NEW j \in DOMAIN consumer[l].batch
      PROVE  consumer[l].batch[j] # Current(k)
  BY <1>2, <1>3, <1>6 DEF Holding, Owned
<1> QED BY <1>3, <1>4, <1>5, <1>6

\* The history of tries after the entry in hand.
LEMMA TriedGroup ==
    ASSUME IInv, NEW k \in Consumers, consumer[k].at = "handling",
           UNCHANGED <<stream, group, pending, acked>>,
           tries' = [tries EXCEPT ![Current(k)] = @ + 1],
           handled \subseteq handled'
    PROVE  /\ tries' \in [Entries -> Nat] /\ GroupOK' /\ \A l \in Consumers : (Owned(l))'
           /\ \A i \in Entries : i # Current(k) => tries'[i] = tries[i]
<1>1. /\ Current(k) \in Entries /\ tries[Current(k)] = 0 /\ Current(k) \in Delivered
      /\ tries \in [Entries -> Nat] /\ group.last \in Nat
  BY CurrentEntry, InHand DEF IInv, TypeOK, Handled
<1>2. /\ tries' \in [Entries -> Nat] /\ tries'[Current(k)] = 1
      /\ \A i \in Entries : i # Current(k) => tries'[i] = tries[i]
  BY <1>1
<1>3. Current(k) <= group.last
  BY <1>1 DEF Delivered
<1>4. \A i \in Entries : group.last < i => i # Current(k)
  BY <1>1, <1>3 DEF Entries
<1>5. GroupOK'
  BY <1>1, <1>2, <1>4 DEF IInv, GroupOK, Delivered
<1>6. ASSUME NEW l \in Consumers
      PROVE  (Owned(l))'
  BY DEF IInv, Owned, Delivered
<1> QED BY <1>2, <1>5, <1>6

LEMMA HandleStep ==
    ASSUME IInv, NEW k \in Consumers, Handle(k)
    PROVE  /\ Consumed' /\ tries' \in [Entries -> Nat] /\ handled' \subseteq Entries
           /\ consumer' \in [Consumers ->
                  [at : LoopPoints, batch : Seq(Entries), stop : BOOLEAN]]
<1>1. /\ consumer[k].at = "handling" /\ UNCHANGED <<stream, group, pending, acked>>
      /\ handled' = handled \cup {Current(k)}
      /\ tries' = [tries EXCEPT ![Current(k)] = @ + 1] /\ LoopTo(k, "acking")
  BY DEF Handle, redis
<1>2. /\ tries' \in [Entries -> Nat] /\ GroupOK' /\ \A l \in Consumers : (Owned(l))'
      /\ \A i \in Entries : i # Current(k) => tries'[i] = tries[i]
  BY <1>1, TriedGroup
<1>3. /\ consumer'[k].batch = consumer[k].batch /\ consumer'[k].at = "acking"
      /\ \A l \in Consumers : l # k => consumer'[l] = consumer[l]
      /\ consumer' \in [Consumers ->
            [at : LoopPoints, batch : Seq(Entries), stop : BOOLEAN]]
  BY <1>1, LoopToTypes DEF IInv, LoopPoints
<1>4. /\ Current(k) \in Entries /\ Current(k) = consumer[k].batch[1]
      /\ consumer[k].batch # <<>>
  BY <1>1, CurrentEntry
<1>5. \A l \in Consumers : Holding(l) /\ consumer[l].batch \in Seq(Entries)
  BY DEF IInv, TypeOK
<1>6. (Holding(k))'
  <2>1. \A j \in DOMAIN consumer[k].batch : j > 1 =>
           consumer[k].batch[j] \in Entries /\ consumer[k].batch[j] # Current(k)
    BY <1>1, <1>5, InHand DEF Handled
  <2>2. \A j \in DOMAIN consumer[k].batch : j > 1 => tries'[consumer[k].batch[j]] = 0
    BY <1>2, <1>5, <2>1 DEF Holding
  <2> QED BY <1>1, <1>3, <1>4, <1>5, <2>2 DEF Holding
<1>7. ASSUME NEW l \in Consumers, l # k
      PROVE  (Holding(l))'
  <2>1. \A j \in DOMAIN consumer[l].batch :
           consumer[l].batch[j] \in Entries /\ consumer[l].batch[j] # Current(k)
    BY <1>1, <1>5, <1>7, InHand DEF Handled
  <2>2. \A j \in DOMAIN consumer[l].batch :
           tries'[consumer[l].batch[j]] = tries[consumer[l].batch[j]]
    BY <1>2, <2>1
  <2>3. consumer'[l] = consumer[l] /\ Holding(l) /\ handled \subseteq handled'
        /\ pending' = pending
    BY <1>1, <1>3, <1>5, <1>7
  <2> QED BY <2>2, <2>3 DEF Holding
<1> QED BY <1>1, <1>2, <1>3, <1>4, <1>6, <1>7 DEF Consumed, IInv, TypeOK

LEMMA TailEmpty ==
    ASSUME NEW s \in Seq(Entries), s # <<>>
    PROVE  Tail(s) = <<>> <=> ~(Len(s) > 1)
<1>1. Len(Tail(s)) = Len(s) - 1 /\ Tail(s) \in Seq(Entries)
  BY HeadTailProperties
<1>2. Len(s) \in Nat /\ Len(s) # 0
  BY EmptySeq
<1> DEFINE t == Tail(s)
<1>3. t = <<>> <=> Len(t) = 0
  <2>1. t \in Seq(Entries)
    BY <1>1
  <2> HIDE DEF t
  <2> QED BY <2>1, EmptySeq
<1>4. Len(t) = Len(s) - 1
  BY <1>1
<1> HIDE DEF t
<1>5. t = <<>> <=> ~(Len(s) > 1)
  BY <1>2, <1>3, <1>4
<1> QED BY <1>5 DEF t

\* The loop moves on: the entry that was in hand may be gone from pending.
LEMMA MoveOn ==
    ASSUME IInv, NEW k \in Consumers, consumer[k].at \in Handled, NextEntry(k),
           handled' = handled,
           \A l \in Consumers : \A i \in pending[l] :
              i # Current(k) => i \in pending'[l],
           \A i \in Entries : i # Current(k) => tries'[i] = tries[i]
    PROVE  /\ \A l \in Consumers : (Holding(l))'
           /\ consumer' \in [Consumers ->
                  [at : LoopPoints, batch : Seq(Entries), stop : BOOLEAN]]
<1>1. /\ consumer[k].batch \in Seq(Entries) /\ consumer[k].batch # <<>>
      /\ Len(consumer[k].batch) \in Nat
      /\ DOMAIN consumer[k].batch = 1 .. Len(consumer[k].batch)
  BY CurrentEntry DEF Handled
<1>2. /\ consumer'[k].batch = Tail(consumer[k].batch)
      /\ consumer'[k].at = IF Len(consumer[k].batch) > 1 THEN "handling" ELSE "reading"
      /\ \A l \in Consumers : l # k => consumer'[l] = consumer[l]
      /\ consumer' \in [Consumers ->
            [at : LoopPoints, batch : Seq(Entries), stop : BOOLEAN]]
  BY <1>1, NextEntryTypes DEF IInv
<1>3. \A l \in Consumers : Holding(l) /\ consumer[l].batch \in Seq(Entries)
  BY DEF IInv, TypeOK
<1>4. ASSUME NEW l \in Consumers, NEW j \in DOMAIN consumer[l].batch,
             l # k \/ j > 1
      PROVE  /\ consumer[l].batch[j] \in pending'[l]
             /\ tries'[consumer[l].batch[j]] = tries[consumer[l].batch[j]]
  <2>1. consumer[l].batch[j] # Current(k)
    BY <1>4, InHand
  <2>2. consumer[l].batch[j] \in pending[l] /\ consumer[l].batch[j] \in Entries
    BY <1>3 DEF Holding
  <2> QED BY <2>1, <2>2
<1>5. (Holding(k))'
  <2> DEFINE s == consumer[k].batch
  <2>1. /\ Tail(s) \in Seq(Entries) /\ Len(Tail(s)) = Len(s) - 1
        /\ DOMAIN Tail(s) = 1 .. Len(s) - 1
        /\ \A j \in DOMAIN Tail(s) : /\ Tail(s)[j] = s[j + 1] /\ j + 1 \in DOMAIN s
                                     /\ j + 1 > 1 /\ j \in Nat
    BY <1>1
  <2>2. \A j \in DOMAIN s : j > 1 => s[j] \in pending'[k] /\ tries'[s[j]] = 0
    BY <1>3, <1>4 DEF Holding
  <2>3. \A j, m \in DOMAIN s : j # m => s[j] # s[m]
    BY <1>3 DEF Holding
  <2>4. \A j \in DOMAIN Tail(s) : Tail(s)[j] \in pending'[k] /\ tries'[Tail(s)[j]] = 0
    BY <2>1, <2>2
  <2>5. \A j, m \in DOMAIN Tail(s) : j # m => Tail(s)[j] # Tail(s)[m]
    BY <2>1, <2>3
  <2>6. CASE Len(s) > 1
    <3>1. Tail(s) # <<>>
      BY <1>1, <2>6, TailEmpty
    <3> QED BY <1>2, <2>4, <2>5, <2>6, <3>1 DEF Holding
  <2>7. CASE ~(Len(s) > 1)
    <3>1. Tail(s) = <<>>
      BY <1>1, <2>7, TailEmpty
    <3> QED BY <1>2, <2>4, <2>5, <2>7, <3>1 DEF Holding
  <2> QED BY <2>6, <2>7
<1>6. ASSUME NEW l \in Consumers, l # k
      PROVE  (Holding(l))'
  <2>1. Holding(l) /\ consumer'[l] = consumer[l]
    BY <1>2, <1>3, <1>6
  <2>2. \A j \in DOMAIN consumer[l].batch :
           /\ consumer[l].batch[j] \in pending'[l]
           /\ tries'[consumer[l].batch[j]] = tries[consumer[l].batch[j]]
    BY <1>4, <1>6
  <2> QED BY <2>1, <2>2 DEF Holding
<1> QED BY <1>2, <1>5, <1>6

LEMMA ThrowStep ==
    ASSUME IInv, NEW k \in Consumers, HandlerThrows(k)
    PROVE  /\ Consumed' /\ tries' \in [Entries -> Nat]
           /\ consumer' \in [Consumers ->
                  [at : LoopPoints, batch : Seq(Entries), stop : BOOLEAN]]
<1>1. /\ consumer[k].at = "handling" /\ NextEntry(k)
      /\ UNCHANGED <<stream, group, pending, acked, handled>>
      /\ tries' = [tries EXCEPT ![Current(k)] = @ + 1]
  BY DEF HandlerThrows, redis
<1>2. /\ tries' \in [Entries -> Nat] /\ GroupOK' /\ \A l \in Consumers : (Owned(l))'
      /\ \A i \in Entries : i # Current(k) => tries'[i] = tries[i]
  BY <1>1, TriedGroup
<1>3. \A l \in Consumers : \A i \in pending[l] : i # Current(k) => i \in pending'[l]
  BY <1>1
<1>4. /\ \A l \in Consumers : (Holding(l))'
      /\ consumer' \in [Consumers ->
            [at : LoopPoints, batch : Seq(Entries), stop : BOOLEAN]]
  BY <1>1, <1>2, <1>3, MoveOn DEF Handled
<1> QED BY <1>2, <1>4 DEF Consumed

LEMMA AckStep ==
    ASSUME IInv, NEW k \in Consumers, Ack(k)
    PROVE  /\ Consumed' /\ acked' \subseteq Entries
           /\ pending' \in [Consumers -> SUBSET Entries]
           /\ consumer' \in [Consumers ->
                  [at : LoopPoints, batch : Seq(Entries), stop : BOOLEAN]]
<1>1. /\ consumer[k].at = "acking" /\ NextEntry(k)
      /\ UNCHANGED <<stream, group, handled, tries>>
      /\ acked' = acked \cup {Current(k)}
      /\ pending' = [pending EXCEPT ![k] = @ \ {Current(k)}]
  BY DEF Ack, history
<1>2. /\ Current(k) \in handled /\ Current(k) \in Delivered /\ Current(k) \in pending[k]
      /\ Current(k) \in Entries
  BY <1>1, InHand, CurrentEntry DEF Handled
<1>3. /\ pending' \in [Consumers -> SUBSET Entries]
      /\ pending'[k] = pending[k] \ {Current(k)}
      /\ \A l \in Consumers : l # k => pending'[l] = pending[l]
  BY <1>1 DEF IInv, TypeOK
<1>4. \A l \in Consumers : \A i \in pending[l] : i # Current(k) => i \in pending'[l]
  BY <1>3
<1>5. /\ \A l \in Consumers : (Holding(l))'
      /\ consumer' \in [Consumers ->
            [at : LoopPoints, batch : Seq(Entries), stop : BOOLEAN]]
  BY <1>1, <1>4, MoveOn DEF Handled
<1>6. Delivered' = Delivered
  BY <1>1 DEF Delivered
<1>7. GroupOK'
  <2>1. ASSUME NEW i \in Delivered'
        PROVE  i \in acked' \/ \E l \in Consumers : i \in pending'[l]
    BY <1>1, <1>4, <1>6 DEF IInv, GroupOK
  <2>2. Current(k) <= group.last
    BY <1>2 DEF Delivered
  <2> QED BY <1>1, <1>2, <2>1, <2>2 DEF IInv, GroupOK
<1>8. ASSUME NEW l \in Consumers
      PROVE  (Owned(l))'
  <2>1. \A m \in Consumers : pending'[m] \subseteq pending[m] /\ Owned(m)
    BY <1>3 DEF IInv
  <2>2. Current(k) \notin pending'[l]
    BY <1>2, <1>3, <2>1 DEF Owned
  <2> QED BY <1>1, <1>6, <2>1, <2>2 DEF Owned
<1> QED BY <1>1, <1>2, <1>3, <1>5, <1>7, <1>8 DEF Consumed, IInv, TypeOK

LEMMA AckFailsStep ==
    ASSUME IInv, NEW k \in Consumers, AckFails(k)
    PROVE  /\ Consumed'
           /\ consumer' \in [Consumers ->
                  [at : LoopPoints, batch : Seq(Entries), stop : BOOLEAN]]
<1>1. /\ consumer[k].at = "acking" /\ NextEntry(k)
      /\ UNCHANGED <<stream, group, pending, acked, handled, tries>>
  BY DEF AckFails, redis, history
<1>2. /\ \A l \in Consumers : (Holding(l))'
      /\ consumer' \in [Consumers ->
            [at : LoopPoints, batch : Seq(Entries), stop : BOOLEAN]]
  BY <1>1, MoveOn DEF Handled
<1>3. GroupOK' /\ \A l \in Consumers : (Owned(l))'
  BY <1>1 DEF IInv, GroupOK, Owned, Delivered
<1> QED BY <1>2, <1>3 DEF Consumed

LEMMA CrashStep ==
    ASSUME IInv, Crash
    PROVE  TypeOK' /\ Consumed'
<1>1. /\ consumer' = [k \in Consumers |-> Off] /\ late' = {} /\ faults' = faults + 1
      /\ UNCHANGED <<mission, stream, group, pending, acked, handled, tries>>
      /\ lost' \subseteq Entries
      /\ call' = [c \in Calls |-> IF call[c].at = "begin" THEN call[c]
                                  ELSE [at |-> "ended", kind |-> "none"]]
  BY DEF Crash, redis, IInv, TypeOK
<1>2. /\ Off \in [at : LoopPoints, batch : Seq(Entries), stop : BOOLEAN]
      /\ Off.batch = <<>> /\ Off.at = "off"
  BY DEF Off, LoopPoints
<1>3. call' \in [Calls -> CallType]
  <2>1. [at |-> "ended", kind |-> "none"] \in CallType
    BY DEF CallType, CallPoints
  <2> QED BY <1>1, <2>1 DEF IInv, TypeOK, CallType
<1>4. TypeOK'
  BY <1>1, <1>2, <1>3 DEF IInv, TypeOK, CallType
<1>5. GroupOK' /\ \A k \in Consumers : (Owned(k))'
  BY <1>1 DEF IInv, GroupOK, Owned, Delivered
<1>6. ASSUME NEW k \in Consumers
      PROVE  (Holding(k))'
  <2>1. consumer'[k] = Off /\ DOMAIN (<<>>) = {}
    BY <1>1
  <2> QED BY <1>2, <2>1 DEF Holding
<1> QED BY <1>4, <1>5, <1>6 DEF Consumed

-----------------------------------------------------------------------------
(* The whole invariant under each step of Next. *)
Batches == [Consumers -> [at : LoopPoints, batch : Seq(Entries), stop : BOOLEAN]]

LEMMA LoopStep ==
    ASSUME IInv, NEW k \in Consumers, Subscribe(k) \/ Stop(k) \/ Loop(k)
    PROVE  TypeOK' /\ Consumed'
<1>1. ASSUME UNCHANGED services, UNCHANGED stream, faults' \in Nat,
             group' \in [made : BOOLEAN, first : Nat, last : Nat],
             pending' \in [Consumers -> SUBSET Entries], acked' \subseteq Entries,
             consumer' \in Batches, handled' \subseteq Entries, lost' \subseteq Entries,
             tries' \in [Entries -> Nat]
      PROVE  TypeOK'
  BY <1>1 DEF IInv, TypeOK, services, Batches
<1>2. /\ stream \in Nat /\ faults \in Nat /\ acked \subseteq Entries
      /\ group \in [made : BOOLEAN, first : Nat, last : Nat]
      /\ pending \in [Consumers -> SUBSET Entries]
      /\ consumer \in Batches /\ handled \subseteq Entries /\ lost \subseteq Entries
      /\ tries \in [Entries -> Nat]
  BY DEF IInv, TypeOK, Batches
<1>3. ASSUME NEW point \in LoopPoints, LoopTo(k, point), point \notin Handled,
             consumer[k].at \notin Handled
      PROVE  /\ consumer' \in Batches
             /\ \A l \in Consumers :
                   /\ consumer'[l].batch = consumer[l].batch
                   /\ \/ consumer'[l].at = consumer[l].at
                      \/ consumer'[l].at \notin Handled /\ consumer[l].at \notin Handled
  BY <1>3, LoopToTypes DEF IInv, Batches
<1>4. CASE Subscribe(k) \/ Waited(k) \/ LoopEnds(k) \/ EnsureGroupFails(k)
  <2>1. \E point \in LoopPoints : LoopTo(k, point) /\ point \notin Handled
    BY <1>4 DEF Subscribe, Waited, LoopEnds, EnsureGroupFails, LoopPoints, Handled
  <2>2. /\ consumer[k].at \notin Handled /\ UNCHANGED <<services, redis, history>>
        /\ faults' \in Nat
    BY <1>2, <1>4 DEF Subscribe, Waited, LoopEnds, EnsureGroupFails, Handled
  <2>3. UNCHANGED <<stream, group, pending, acked, handled, lost, tries>>
    BY <2>2 DEF redis, history
  <2>4. Consumed'
    BY <1>2, <1>3, <2>1, <2>2, <2>3, QuietStep
  <2> QED BY <1>1, <1>2, <1>3, <2>1, <2>2, <2>3, <2>4
<1>5. CASE Stop(k)
  <2>1. UNCHANGED <<services, stream, group, pending, acked, handled, lost, tries, faults>>
    BY <1>5 DEF Stop, redis, history
  <2>2. /\ consumer' \in Batches
        /\ \A l \in Consumers : /\ consumer'[l].batch = consumer[l].batch
                                /\ consumer'[l].at = consumer[l].at
    BY <1>2, <1>5 DEF Stop, Batches
  <2>3. Consumed'
    BY <1>2, <2>1, <2>2, QuietStep
  <2> QED BY <1>1, <1>2, <2>1, <2>2, <2>3
<1>6. CASE EnsureGroup(k)
  <2>1. /\ UNCHANGED <<services, stream, pending, acked, handled, lost, tries, faults>>
        /\ consumer[k].at = "making" /\ LoopTo(k, "reading")
    BY <1>6 DEF EnsureGroup, history
  <2>2. consumer' \in Batches
    BY <1>3, <2>1 DEF LoopPoints, Handled
  <2> QED BY <1>1, <1>2, <1>6, <2>1, <2>2, EnsureStep
<1>7. CASE ReadBatch(k) \/ ReadLost(k)
  <2>1. Consumed' /\ consumer' \in Batches
    BY <1>7, ReadStep DEF Batches
  <2>2. Deliver(k) /\ UNCHANGED <<services, stream, acked, handled, tries>> /\ faults' \in Nat
    BY <1>2, <1>7 DEF ReadBatch, ReadLost, history
  <2>3. /\ group' \in [made : BOOLEAN, first : Nat, last : Nat]
        /\ pending' \in [Consumers -> SUBSET Entries]
        /\ group'.last = group.last + Len(Fresh)
    BY <2>2, DeliverTypes
  <2>4. lost' \subseteq Entries
    <3>1. CASE ReadBatch(k)
      BY <1>2, <3>1 DEF ReadBatch, history
    <3>2. CASE ReadLost(k)
      <4>1. /\ group.last \in Nat /\ group'.last <= stream /\ group'.last \in Nat
            /\ stream <= Cardinality(Calls) + 1 /\ Cardinality(Calls) \in Nat
            /\ stream \in Nat
        BY <2>2, <2>3, FreshEntries, StreamFits DEF IInv, Deliver, TypeOK
      <4>2. (group.last + 1) .. group'.last \subseteq Entries
        BY <4>1 DEF Entries
      <4> QED BY <1>2, <3>2, <4>2 DEF ReadLost
    <3> QED BY <1>7, <3>1, <3>2
  <2> QED BY <1>1, <1>2, <2>1, <2>2, <2>3, <2>4
<1>8. CASE Handle(k)
  BY <1>1, <1>2, <1>8, HandleStep DEF Handle, redis, Batches
<1>9. CASE HandlerThrows(k)
  BY <1>1, <1>2, <1>9, ThrowStep DEF HandlerThrows, redis, Batches
<1>10. CASE Ack(k)
  BY <1>1, <1>2, <1>10, AckStep DEF Ack, history, Batches
<1>11. CASE AckFails(k)
  <2>1. UNCHANGED <<services, redis, history>> /\ faults' \in Nat
    BY <1>2, <1>11 DEF AckFails
  <2> QED BY <1>1, <1>2, <1>11, <2>1, AckFailsStep DEF redis, history, Batches
<1> QED BY <1>4, <1>5, <1>6, <1>7, <1>8, <1>9, <1>10, <1>11 DEF Loop

LEMMA CallStep ==
    ASSUME IInv, NEW c \in Calls, Call(c)
    PROVE  TypeOK' /\ Consumed' /\ StreamBound'
<1>1. TypeOK'
  BY CallTypes DEF IInv
<1>2. /\ UNCHANGED <<group, pending, acked, handled, tries, consumer>>
      /\ stream \in Nat /\ stream' \in Nat /\ stream <= stream'
  BY DEF Call, Read, Refused, Write, StoreMessage, AppendEntry, CallFails,
         Elsewhere, redis, history, IInv, TypeOK
<1>3. Consumed'
  BY <1>2, QuietStep
<1>4. CASE AppendEntry(c)
  BY <1>1, <1>3, <1>4, AppendBounded DEF IInv
<1>5. CASE ~AppendEntry(c)
  <2>1. stream' = stream
    BY <1>5 DEF Call, Read, Refused, Write, StoreMessage, CallFails, Elsewhere, redis
  <2>2. EndedCalls \subseteq EndedCalls'
    <3>1. call[c].at # "ended"
      BY <1>5 DEF Call, Read, Refused, Write, StoreMessage, CallFails
    <3>2. \A b \in Calls : b # c => call'[b] = call[b]
      BY <1>5 DEF Call, Read, Refused, Write, StoreMessage, CallFails, Goto, IInv, TypeOK
    <3> QED BY <3>1, <3>2 DEF EndedCalls
  <2> QED BY <1>1, <1>3, <2>1, <2>2, EndedGrows DEF IInv, TypeOK
<1> QED BY <1>4, <1>5

\* The calls: their kinds, who is late, and who may re-open a mission.
Calling == Asked /\ Reopeners

LEMMA CallingStep ==
    ASSUME IInv, [Next]_vars
    PROVE  Calling' /\ EndStands
<1> USE KernelAssumption DEF KernelAssumption
<1>1. Asked /\ Reopeners /\ call \in [Calls -> CallType] /\ late \subseteq Calls
  BY DEF IInv, TypeOK, CallType
<1>2. ASSUME UNCHANGED <<mission, call, late>>
      PROVE  Calling' /\ EndStands
  BY <1>1, <1>2 DEF Calling, Asked, Reopeners, EndStands
<1>3. ASSUME NEW c \in Calls, NEW point \in CallPoints \ {"write"}, Goto(c, point),
             mission' = mission, late \ {c} \subseteq late'
      PROVE  Calling' /\ EndStands
  <2>1. /\ call'[c].at = point
        /\ \A b \in Calls : b # c => call'[b] = call[b]
    BY <1>1, <1>3 DEF Goto
  <2> QED BY <1>1, <1>3, <2>1 DEF Calling, Asked, Reopeners, EndStands
<1>4. ASSUME NEW c \in Calls, Call(c)
      PROVE  Calling' /\ EndStands
  <2>1. ASSUME NEW kind \in Kinds, Read(c, kind)
        PROVE  Calling' /\ EndStands
    <3>1. /\ call'[c].at = "write" /\ call'[c].kind = kind /\ kind \in AllKinds
          /\ \A b \in Calls : b # c => call'[b] = call[b]
          /\ mission' = mission /\ late' = late
      BY <1>1, <2>1 DEF Read
    <3>2. mission = "ENDED" => kind \notin {"start", "resume"}
      BY <2>1 DEF Read, Legal
    <3> QED BY <1>1, <3>1, <3>2 DEF Calling, Asked, Reopeners, EndStands
  <2>2. ASSUME NEW kind \in Kinds, Refused(c, kind)
        PROVE  Calling' /\ EndStands
    BY <1>3, <2>2 DEF Refused, CallPoints
  <2>3. CASE Write(c)
    <3>1. /\ call[c].at = "write" /\ call'[c].at = "row"
          /\ \A b \in Calls : b # c => call'[b] = call[b]
          /\ mission' = MissionAfter(call[c].kind)
          /\ late' = IF mission' = "ENDED" THEN (late \cup Writing) \ {c} ELSE late \ {c}
      BY <1>1, <2>3 DEF Write, Goto
    <3>2. Asked'
      BY <1>1, <3>1 DEF Asked
    <3>3. Reopeners'
      BY <3>1 DEF Reopeners, Writing
    <3>4. call[c].kind \in AllKinds
      BY <1>1, <3>1 DEF Asked
    <3>5. EndStands
      <4> SUFFICES ASSUME mission = "ENDED", mission' # "ENDED"
                   PROVE  c \in late \/ call[c].kind = "pause"
        BY <3>1 DEF EndStands, Excused
      <4>1. CASE call[c].kind \in {"start", "resume"}
        BY <1>1, <3>1, <4>1 DEF Reopeners
      <4>2. CASE call[c].kind = "complete"
        BY <3>1, <4>2 DEF MissionAfter
      <4> QED BY <3>4, <4>1, <4>2 DEF AllKinds
    <3> QED BY <3>2, <3>3, <3>5 DEF Calling
  <2>4. CASE StoreMessage(c)
    BY <1>3, <2>4 DEF StoreMessage, CallPoints
  <2>5. CASE AppendEntry(c)
    BY <1>3, <2>5 DEF AppendEntry, CallPoints
  <2>6. CASE CallFails(c)
    BY <1>3, <2>6 DEF CallFails, CallPoints
  <2> QED BY <1>4, <2>1, <2>2, <2>3, <2>4, <2>5, <2>6 DEF Call
<1>5. ASSUME NEW k \in Consumers, Subscribe(k) \/ Stop(k) \/ Loop(k)
      PROVE  Calling' /\ EndStands
  BY <1>2, <1>5 DEF Subscribe, Stop, Loop, EnsureGroup, EnsureGroupFails, ReadBatch,
                    ReadLost, Waited, Handle, HandlerThrows, Ack, AckFails, LoopEnds,
                    services
<1>6. CASE Crash
  <2>1. mission' = mission /\ \A c \in Calls : call'[c].at # "write"
    BY <1>1, <1>6 DEF Crash
  <2> QED BY <2>1 DEF Calling, Asked, Reopeners, EndStands
<1>7. CASE UNCHANGED vars
  BY <1>2, <1>7 DEF vars, services
<1> QED BY <1>4, <1>5, <1>6, <1>7 DEF Next

LEMMA ReadyStep ==
    ASSUME IInv, [Next]_vars
    PROVE  Ready'
<1>1. /\ Ready /\ consumer \in Batches
      /\ group \in [made : BOOLEAN, first : Nat, last : Nat]
      /\ \A l \in Consumers : consumer[l].batch \in Seq(Entries)
  BY DEF IInv, TypeOK, Batches
<1>2. ASSUME UNCHANGED <<group, consumer>>
      PROVE  Ready'
  BY <1>1, <1>2 DEF Ready
<1>3. ASSUME NEW c \in Calls, Call(c)
      PROVE  Ready'
  BY <1>2, <1>3 DEF Call, Read, Refused, Write, StoreMessage, AppendEntry, CallFails,
                    Elsewhere, redis
<1>4. ASSUME NEW k \in Consumers, Subscribe(k) \/ Stop(k) \/ Loop(k)
      PROVE  Ready'
  <2>1. \A l \in Consumers : l # k => consumer'[l] = consumer[l]
    BY <1>1, <1>4 DEF Subscribe, Stop, Loop, EnsureGroup, EnsureGroupFails, ReadBatch,
                    ReadLost, Waited, Handle, HandlerThrows, Ack, AckFails, LoopEnds,
                    LoopTo, NextEntry, Batches
  <2>2. group.made => group'.made
    <3>1. CASE EnsureGroup(k)
      BY <3>1 DEF EnsureGroup
    <3>2. CASE ReadBatch(k) \/ ReadLost(k)
      <4>1. Deliver(k)
        BY <3>2 DEF ReadBatch, ReadLost
      <4> QED BY <1>1, <4>1 DEF Deliver
    <3>3. CASE ~EnsureGroup(k) /\ ~ReadBatch(k) /\ ~ReadLost(k)
      <4>1. group' = group
        BY <1>4, <3>3 DEF Subscribe, Stop, Loop, EnsureGroupFails, Waited, Handle,
                          HandlerThrows, Ack, AckFails, LoopEnds, redis
      <4> QED BY <4>1
    <3> QED BY <3>1, <3>2, <3>3
  <2>3. consumer'[k].at \notin {"off", "making", "ended"} => group'.made
    <3>1. CASE Subscribe(k) \/ EnsureGroupFails(k) \/ LoopEnds(k)
      BY <1>1, <3>1 DEF Subscribe, EnsureGroupFails, LoopEnds, LoopTo, Batches
    <3>2. CASE Stop(k)
      BY <1>1, <2>2, <3>2 DEF Stop, Ready, Batches
    <3>3. CASE EnsureGroup(k)
      <4>1. group.made => group'.made
        BY <2>2
      <4>2. ~group.made => group'.made
        BY <3>3 DEF EnsureGroup
      <4> QED BY <4>1, <4>2
    <3>4. CASE \/ ReadBatch(k) \/ ReadLost(k) \/ Waited(k) \/ Handle(k)
               \/ HandlerThrows(k) \/ Ack(k) \/ AckFails(k)
      <4>1. consumer[k].at \in {"reading", "waiting", "handling", "acking"}
        BY <3>4 DEF ReadBatch, ReadLost, Deliver, Waited, Handle, HandlerThrows, Ack, AckFails
      <4> QED BY <1>1, <2>2, <4>1 DEF Ready
    <3> QED BY <1>4, <3>1, <3>2, <3>3, <3>4 DEF Loop
  <2> QED BY <1>1, <2>1, <2>2, <2>3 DEF Ready
<1>5. CASE Crash
  BY <1>5 DEF Crash, Ready, Off
<1>6. CASE UNCHANGED vars
  BY <1>2, <1>6 DEF vars, redis
<1> QED BY <1>3, <1>4, <1>5, <1>6 DEF Next

LEMMA StreamStep ==
    ASSUME IInv, [Next]_vars
    PROVE  TypeOK' /\ Consumed' /\ StreamBound'
<1>1. ASSUME NEW c \in Calls, Call(c)
      PROVE  TypeOK' /\ Consumed' /\ StreamBound'
  BY <1>1, CallStep
<1>2. ASSUME UNCHANGED <<stream, call>>
      PROVE  StreamBound'
  BY <1>2 DEF IInv, StreamBound, EndedCalls
<1>3. ASSUME NEW k \in Consumers, Subscribe(k) \/ Stop(k) \/ Loop(k)
      PROVE  TypeOK' /\ Consumed' /\ StreamBound'
  <2>1. UNCHANGED <<stream, call>>
    BY <1>3 DEF Subscribe, Stop, Loop, EnsureGroup, EnsureGroupFails, ReadBatch,
                ReadLost, Waited, Handle, HandlerThrows, Ack, AckFails, LoopEnds,
                services, redis
  <2> QED BY <1>2, <1>3, <2>1, LoopStep
<1>4. CASE Crash
  <2>1. stream' = stream /\ EndedCalls \subseteq EndedCalls'
    BY <1>4 DEF Crash, redis, EndedCalls
  <2>2. TypeOK' /\ Consumed'
    BY <1>4, CrashStep
  <2> QED BY <2>1, <2>2, EndedGrows DEF IInv, TypeOK
<1>5. CASE UNCHANGED vars
  <2>1. TypeOK'
    BY <1>5 DEF IInv, TypeOK, vars, services, redis, history
  <2>2. Consumed'
    BY <1>5, QuietStep DEF IInv, TypeOK, vars, services, redis, history
  <2> QED BY <1>2, <1>5, <2>1, <2>2 DEF vars, services, redis
<1> QED BY <1>1, <1>3, <1>4, <1>5 DEF Next
-----------------------------------------------------------------------------
LEMMA Start == Init => IInv
<1> SUFFICES ASSUME Init
             PROVE  IInv
  OBVIOUS
<1> USE KernelAssumption DEF KernelAssumption
<1>1. EndedCalls = {}
  BY DEF EndedCalls, Init, Idle
<1>2. Cardinality(EndedCalls) = 0
  BY <1>1, FS_EmptySet
<1>3. StreamBound
  BY <1>2 DEF StreamBound, Init
<1>4. Off \in [at : LoopPoints, batch : Seq(Entries), stop : BOOLEAN]
  BY DEF Off, LoopPoints
<1>5. Idle \in [at : CallPoints, kind : AllKinds \cup {"none"}]
  BY DEF Idle, CallPoints
<1>6. Unmade \in [made : BOOLEAN, first : Nat, last : Nat]
  BY DEF Unmade
<1>7. TypeOK
  BY <1>4, <1>5, <1>6 DEF TypeOK, Init, MissionStatuses
<1>8. Asked /\ Reopeners
  BY DEF Asked, Reopeners, Init, Idle
<1>9. Ready
  BY DEF Ready, Init, Off
<1>10. GroupOK
  <2>1. /\ group.made = FALSE /\ group.first = 0 /\ group.last = 0 /\ stream = 1
        /\ acked = {} /\ tries = [i \in Entries |-> 0]
    BY DEF Init, Unmade
  <2>2. \A i \in Entries : i \in Int
    BY DEF Entries
  <2> QED BY <2>1, <2>2 DEF GroupOK, Delivered
<1>11. ASSUME NEW k \in Consumers
       PROVE  Owned(k) /\ Holding(k)
  <2>1. pending[k] = {} /\ consumer[k] = Off /\ \A l \in Consumers : pending[l] = {}
    BY DEF Init
  <2>2. Owned(k)
    BY <2>1 DEF Owned
  <2>3. Holding(k)
    BY <2>1 DEF Holding, Off
  <2> QED BY <2>2, <2>3
<1> QED BY <1>3, <1>7, <1>8, <1>9, <1>10, <1>11 DEF IInv

LEMMA Inductive == IInv /\ [Next]_vars => IInv'
<1> SUFFICES ASSUME IInv, [Next]_vars
             PROVE  IInv'
  OBVIOUS
<1>1. TypeOK' /\ Consumed' /\ StreamBound'
  BY StreamStep
<1>2. Asked' /\ Reopeners'
  BY CallingStep DEF Calling
<1>3. Ready'
  BY ReadyStep
<1>4. GroupOK' /\ \A k \in Consumers : Owned(k)' /\ Holding(k)'
  BY <1>1 DEF Consumed
<1> QED BY <1>1, <1>2, <1>3, <1>4 DEF IInv

LEMMA Invariant == Spec => []IInv
  BY Start, Inductive, PTL DEF Spec

(* One holder at most, by Owned; one at least, by GroupOK. *)
LEMMA InvariantAccounts == IInv => Accounted
<1> SUFFICES ASSUME IInv, NEW i \in 1 .. stream
             PROVE  LET holders == {k \in Consumers : i \in pending[k]}
                    IN  /\ i \in acked => i \in handled /\ holders = {}
                        /\ group.first < i /\ i <= group.last /\ i \notin acked
                           => Cardinality(holders) = 1
                        /\ tries[i] <= 1
  BY DEF Accounted
<1> DEFINE holders == {k \in Consumers : i \in pending[k]}
<1>1. i \in Entries
  BY StreamFits DEF Entries, IInv, TypeOK
<1>2. i \in acked => i \in handled /\ holders = {}
  BY DEF IInv, GroupOK, Owned
<1>3. ASSUME group.first < i, i <= group.last, i \notin acked
      PROVE  Cardinality(holders) = 1
  <2>1. PICK k \in Consumers : i \in pending[k]
    BY <1>1, <1>3 DEF IInv, GroupOK, Delivered
  <2>2. holders = {k}
    BY <2>1 DEF IInv, Owned
  <2> QED BY <2>2, FS_Singleton
<1>4. tries[i] <= 1
  BY <1>1 DEF IInv, GroupOK
<1> QED BY <1>2, <1>3, <1>4

(* The variables of the services, the stream and the consumers keep their  *)
(* types; that entries stay within their numbering is StreamBound.         *)
THEOREM TypeCorrect == Spec => []TypeOK
<1>1. IInv => TypeOK
  BY DEF IInv
<1> QED BY <1>1, Invariant, PTL

(* bus.service.ts subscribe: an entry the group delivered is acknowledged  *)
(* after its handler, or pending for exactly one consumer, and is handed   *)
(* to a handler at most once, whatever fails or crashes.                   *)
THEOREM EntriesAccounted == Spec => []Accounted
  BY Invariant, InvariantAccounts, PTL

(* mission.service.ts: what re-opens a mission that ended is a pause, which *)
(* tests nothing and may have read the mission after its end too, or a call *)
(* that read the mission before it ended.                                   *)
THEOREM EndedStands == Spec => TerminalStands
<1>1. ASSUME IInv, [Next]_vars
      PROVE  EndStands
  BY <1>1, CallingStep
<1>2. IInv /\ [Next]_vars => [EndStands]_vars
  BY <1>1
<1> QED BY <1>2, Invariant, PTL DEF Spec, TerminalStands
===============================================================================
