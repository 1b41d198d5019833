------------------------- MODULE ConnectorGate_proofs -------------------------
(***************************************************************************)
(* ConnectorGate: the burst and window bounds of the limiter, the opening  *)
(* and the earned closing of the circuit, for any number of calls and      *)
(* requests and any limits.                                                *)
(*                                                                         *)
(* The bounds speak of the calls that were let pass; the code keeps        *)
(* counters only.  The strengthening says what the counters are worth:     *)
(* the tokens that are left plus those spent since a call never exceed     *)
(* what was there and what was refilled since (Metered); the calls a       *)
(* window has not counted are older than its start, and none is younger    *)
(* than its end (Counted); failures and successes of the circuit bound     *)
(* the recorded outcomes (Tripped).                                        *)
(***************************************************************************)
EXTENDS ConnectorGate, TLAPS

Sent == 1 .. Len(sent)

\* What bucket b, which must have been refilled by now, says of the calls.
Refilled(b) ==
    /\ b.refilled <= now
    /\ \A i \in Sent : sent[i] <= b.refilled

Paid(b) ==
    \A i \in Sent :
        b.tokens + (Len(sent) - i + 1) * Unit
            <= Burst * Unit + (b.refilled - sent[i]) * Rate

Counts(b, w) ==
    /\ b.used[w] <= Cap[w]
    /\ b.since[w] <= now
    /\ \A i \in Sent : sent[i] <= b.since[w] + Length[w]
    /\ \A i \in Sent : i + b.used[w] <= Len(sent) => sent[i] < b.since[w]

Metered(b) == Refilled(b) /\ Paid(b)
Counted(b) == \A w \in Windows : Counts(b, w)

Tripped ==
    /\ phase.trip <= now
    /\ circuit # None =>
         /\ circuit.state = "closed" =>
              /\ streak <= circuit.failures /\ circuit.failures < Threshold
              /\ circuit.successes = 0
         /\ circuit.state # "closed" => circuit.successes <= phase.wins
         /\ circuit.state = "open" => phase.trip <= circuit.openedAt
         /\ circuit.state = "half-open" => Reset <= now - phase.trip

IInv ==
    /\ TypeOK
    /\ bucket # None => Metered(bucket) /\ Counted(bucket)
    /\ BurstBound
    /\ Tripped

-----------------------------------------------------------------------------
(* The limiter's operators. *)
LEMMA Distribute ==
    ASSUME NEW a \in Int, NEW b \in Int, NEW c \in Int
    PROVE  (a + b) * c = a * c + b * c
  OBVIOUS

\* A bucket of the type stays one when it is refilled and charged.
LEMMA RefillMeters ==
    ASSUME TypeOK, NEW b \in Bucket, Metered(b)
    PROVE  /\ Refill(b) \in Bucket /\ Metered(Refill(b))
           /\ Refill(b).refilled = now
           /\ Refill(b).used = b.used /\ Refill(b).since = b.since
<1> USE GateAssumption DEF TypeOK
<1> DEFINE gain == (now - b.refilled) * Rate
<1>1. /\ b.tokens \in Nat /\ b.refilled \in Nat /\ now \in Nat
      /\ Burst * Unit \in Nat /\ b.tokens <= Burst * Unit /\ b.refilled <= now
  BY DEF Bucket, Metered, Refilled
<1>2. gain \in Nat
  BY <1>1
<1>3. /\ Refill(b).tokens = AtMost(Burst * Unit, b.tokens + gain)
      /\ Refill(b).refilled = now
      /\ Refill(b).used = b.used /\ Refill(b).since = b.since
  BY DEF Refill, Bucket
<1>4. /\ Refill(b).tokens \in 0 .. Burst * Unit
      /\ Refill(b).tokens <= b.tokens + gain
  <2> HIDE DEF gain
  <2> QED BY <1>1, <1>2, <1>3 DEF AtMost
<1>5. Refill(b) \in Bucket
  <2> HIDE DEF gain
  <2>1. Refill(b) = [b EXCEPT !.tokens = Refill(b).tokens, !.refilled = now]
    BY DEF Refill, Bucket
  <2> QED BY <2>1, <1>1, <1>4 DEF Bucket
<1>6. Refilled(Refill(b))
  BY <1>1, <1>3 DEF Metered, Refilled, Sent
<1>7. ASSUME NEW i \in Sent
      PROVE  Refill(b).tokens + (Len(sent) - i + 1) * Unit
                 <= Burst * Unit + (Refill(b).refilled - sent[i]) * Rate
  <2>1. sent[i] \in Nat /\ i \in Nat /\ Len(sent) \in Nat
    BY DEF Sent
  <2>2. (now - sent[i]) * Rate = gain + (b.refilled - sent[i]) * Rate
    <3>1. now - sent[i] = (now - b.refilled) + (b.refilled - sent[i])
      BY <1>1, <2>1
    <3> QED BY <1>1, <2>1, <3>1, Distribute
  <2>3. b.tokens + (Len(sent) - i + 1) * Unit
            <= Burst * Unit + (b.refilled - sent[i]) * Rate
    BY DEF Metered, Paid
  <2> DEFINE cost == (Len(sent) - i + 1) * Unit
             back == (b.refilled - sent[i]) * Rate
  <2>4. cost \in Int /\ back \in Int
    BY <1>1, <2>1
  <2> HIDE DEF gain, cost, back
  <2>5. Refill(b).tokens + cost <= Burst * Unit + (gain + back)
    BY <1>1, <1>2, <1>4, <2>3, <2>4 DEF cost, back
  <2> QED BY <1>3, <2>2, <2>5 DEF cost, back
<1> QED BY <1>3, <1>5, <1>6, <1>7 DEF Metered, Paid

LEMMA CheckMeters ==
    ASSUME TypeOK, NEW b \in Bucket, Metered(b), Counted(b)
    PROVE  /\ Checked(b) \in Bucket /\ Metered(Checked(b)) /\ Counted(Checked(b))
           /\ Checked(b).refilled = now
           /\ \A w \in Windows : now <= Checked(b).since[w] + Length[w]
<1> USE GateAssumption DEF TypeOK
<1>1. /\ Refill(b) \in Bucket /\ Metered(Refill(b)) /\ Refill(b).refilled = now
      /\ Refill(b).used = b.used /\ Refill(b).since = b.since
  BY RefillMeters
<1>2. /\ Checked(b).tokens = Refill(b).tokens
      /\ Checked(b).refilled = now
      /\ Checked(b).used =
            [w \in Windows |-> IF Expired(b, w) THEN 0 ELSE b.used[w]]
      /\ Checked(b).since =
            [w \in Windows |-> IF Expired(b, w) THEN now ELSE b.since[w]]
      /\ Checked(b) \in Bucket
  <2> HIDE DEF TypeOK
  <2>1. now \in Nat
    BY DEF TypeOK
  <2> QED BY <1>1, <2>1 DEF Checked, Bucket
<1>3. Metered(Checked(b))
  BY <1>1, <1>2 DEF Metered, Refilled, Paid
<1>4. ASSUME NEW w \in Windows
      PROVE  Counts(Checked(b), w) /\ now <= Checked(b).since[w] + Length[w]
  <2>1. /\ Counts(b, w) /\ b.since[w] \in Nat /\ b.used[w] \in Nat /\ now \in Nat
        /\ Length[w] \in Nat /\ Cap[w] \in Nat
    BY DEF Counted, Bucket
  <2>2. \A i \in Sent : sent[i] \in Nat /\ i \in Nat /\ sent[i] <= now
    BY <2>1 DEF Metered, Refilled, Sent, Bucket
  <2> HIDE DEF TypeOK
  <2>3. CASE Expired(b, w)
    <3>1. Checked(b).used[w] = 0 /\ Checked(b).since[w] = now
      BY <1>2, <2>3
    <3>2. \A i \in Sent : sent[i] < now
      BY <2>1, <2>2, <2>3 DEF Counts, Expired
    <3> QED BY <2>1, <2>2, <3>1, <3>2 DEF Counts
  <2>4. CASE ~Expired(b, w)
    <3>1. Checked(b).used[w] = b.used[w] /\ Checked(b).since[w] = b.since[w]
      BY <1>2, <2>4
    <3>2. now <= b.since[w] + Length[w]
      BY <2>1, <2>4 DEF Expired
    <3> QED BY <2>1, <3>1, <3>2 DEF Counts
  <2> QED BY <2>3, <2>4
<1> QED BY <1>2, <1>3, <1>4 DEF Counted

\* A call that passes is charged and noted; the bounds go on to hold.
LEMMA ConsumeMeters ==
    ASSUME TypeOK, BurstBound, NEW b \in Bucket, Metered(b), Counted(b),
           b.refilled = now, Admits(b),
           \A w \in Windows : now <= b.since[w] + Length[w],
           bucket' = Consume(b), sent' = Append(sent, now), now' = now
    PROVE  /\ bucket' \in Bucket /\ sent' \in Seq(Nat)
           /\ (Metered(bucket))' /\ (Counted(bucket))' /\ BurstBound'
<1> USE GateAssumption
<1>1. /\ now \in Nat /\ sent \in Seq(Nat) /\ b.tokens \in Nat
      /\ Unit \in Nat /\ Burst * Unit \in Nat /\ Rate \in Nat
      /\ Unit <= b.tokens /\ b.tokens <= Burst * Unit
  BY DEF TypeOK, Bucket, Admits
<1>2. /\ bucket'.tokens = b.tokens - Unit /\ bucket'.refilled = now
      /\ bucket'.used = [w \in Windows |-> b.used[w] + 1]
      /\ bucket'.since = b.since
      /\ bucket' \in Bucket
  <2>1. b.tokens - Unit \in 0 .. Burst * Unit
    BY <1>1
  <2> DEFINE used == [w \in Windows |-> b.used[w] + 1]
  <2>2. used \in [Windows -> Nat]
    BY DEF Bucket
  <2>3. bucket' = [b EXCEPT !.tokens = b.tokens - Unit, !.used = used]
    BY DEF Consume
  <2> HIDE DEF used
  <2>4. /\ bucket'.tokens = b.tokens - Unit /\ bucket'.refilled = now
        /\ bucket'.used = used /\ bucket'.since = b.since
        /\ bucket' \in Bucket
    BY <2>1, <2>2, <2>3 DEF Bucket
  <2> QED BY <2>4 DEF used
<1>3. /\ sent' \in Seq(Nat) /\ Len(sent') = Len(sent) + 1
      /\ Len(sent) \in Nat
      /\ \A i \in Sent : sent'[i] = sent[i] /\ sent[i] \in Nat /\ i \in Nat
      /\ sent'[Len(sent) + 1] = now
      /\ \A i \in Sent' : i \in Sent \/ i = Len(sent) + 1
  BY <1>1 DEF Sent
<1>4. \A i \in Sent : sent[i] <= now
  BY <1>3 DEF Metered, Refilled
<1>5. (Refilled(bucket))'
  <2>1. ASSUME NEW i \in Sent'
        PROVE  sent'[i] <= now
    <3>1. CASE i \in Sent
      BY <1>3, <1>4, <3>1
    <3>2. CASE i = Len(sent) + 1
      BY <1>1, <1>3, <3>2
    <3> QED BY <1>3, <3>1, <3>2
  <2>2. bucket'.refilled <= now' /\ \A i \in Sent' : sent'[i] <= bucket'.refilled
    <3>1. bucket'.refilled = now
      BY <1>2
    <3>2. now <= now' /\ now' = now
      BY <1>1
    <3> QED BY <2>1, <3>1, <3>2
  <2> QED BY <2>2 DEF Refilled
<1>6. ASSUME NEW i \in Sent'
      PROVE  bucket'.tokens + (Len(sent') - i + 1) * Unit
                 <= Burst * Unit + (bucket'.refilled - sent'[i]) * Rate
  <2>1. CASE i \in Sent
    <3>1. b.tokens + (Len(sent) - i + 1) * Unit
              <= Burst * Unit + (now - sent[i]) * Rate
      BY <2>1 DEF Metered, Paid
    <3>2. (Len(sent') - i + 1) * Unit = (Len(sent) - i + 1) * Unit + Unit
      <4>1. Len(sent') - i + 1 = (Len(sent) - i + 1) + 1
        BY <1>3, <2>1
      <4> QED BY <1>1, <1>3, <2>1, <4>1, Distribute
    <3> DEFINE cost == (Len(sent) - i + 1) * Unit
               back == (now - sent[i]) * Rate
    <3>3. cost \in Int /\ back \in Int
      BY <1>1, <1>3, <2>1
    <3>4. bucket'.tokens + (cost + Unit) <= Burst * Unit + back
      <4> HIDE DEF cost, back
      <4>1. b.tokens + cost <= Burst * Unit + back
        BY <3>1 DEF cost, back
      <4> QED BY <1>1, <1>2, <3>3, <4>1
    <3> QED BY <1>2, <1>3, <2>1, <3>2, <3>4
  <2>2. CASE i = Len(sent) + 1
    BY <1>1, <1>2, <1>3, <2>2
  <2> QED BY <1>3, <2>1, <2>2
<1>7. BurstBound'
  <2> SUFFICES ASSUME NEW i \in 1 .. Len(sent'), NEW j \in 1 .. Len(sent'), i <= j
               PROVE  (j - i + 1) * Unit
                          <= Burst * Unit + (sent'[j] - sent'[i]) * Rate
    BY DEF BurstBound
  <2>1. CASE j \in Sent
    BY <1>3, <2>1 DEF BurstBound, Sent
  <2>2. CASE j = Len(sent) + 1 /\ i \in Sent
    <3>1. b.tokens + (Len(sent) - i + 1) * Unit
              <= Burst * Unit + (now - sent[i]) * Rate
      BY <2>2 DEF Metered, Paid
    <3>2. (j - i + 1) * Unit = (Len(sent) - i + 1) * Unit + Unit
      <4>1. j - i + 1 = (Len(sent) - i + 1) + 1
        BY <1>3, <2>2
      <4> QED BY <1>1, <1>3, <2>2, <4>1, Distribute
    <3> DEFINE cost == (Len(sent) - i + 1) * Unit
               back == (now - sent[i]) * Rate
    <3>3. cost \in Int /\ back \in Int
      BY <1>1, <1>3, <2>2
    <3>4. cost + Unit <= Burst * Unit + back
      <4> HIDE DEF cost, back
      <4>1. b.tokens + cost <= Burst * Unit + back
        BY <3>1 DEF cost, back
      <4> QED BY <1>1, <3>3, <4>1
    <3> QED BY <1>3, <2>2, <3>2, <3>4
  <2>3. CASE i = Len(sent) + 1 /\ j = Len(sent) + 1
    BY <1>1, <1>3, <2>3
  <2> QED BY <1>3, <2>1, <2>2, <2>3 DEF Sent
<1>8. ASSUME NEW w \in Windows
      PROVE  (Counts(bucket, w))'
  <2>1. /\ Counts(b, w) /\ b.used[w] \in Nat /\ b.since[w] \in Nat
        /\ Cap[w] \in Nat /\ Length[w] \in Nat /\ b.used[w] < Cap[w]
        /\ bucket'.used[w] = b.used[w] + 1 /\ bucket'.since[w] = b.since[w]
    BY <1>2 DEF Counted, Bucket, Admits
  <2>2. now <= b.since[w] + Length[w]
    OBVIOUS
  <2>3. \A i \in Sent' : sent'[i] <= bucket'.since[w] + Length[w]
    <3> TAKE i \in Sent'
    <3>1. CASE i \in Sent
      BY <1>3, <2>1, <3>1 DEF Counts
    <3>2. CASE i = Len(sent) + 1
      BY <1>3, <2>1, <2>2, <3>2
    <3> QED BY <1>3, <3>1, <3>2
  <2>4. ASSUME NEW i \in Sent', i + bucket'.used[w] <= Len(sent')
        PROVE  sent'[i] < bucket'.since[w]
    <3>1. CASE i \in Sent
      <4>1. i + b.used[w] <= Len(sent)
        BY <1>3, <2>1, <2>4, <3>1
      <4> QED BY <1>3, <2>1, <3>1, <4>1 DEF Counts
    <3>2. CASE i = Len(sent) + 1
      BY <1>3, <2>1, <2>4, <3>2
    <3> QED BY <1>3, <3>1, <3>2
  <2>5. bucket'.used[w] <= Cap[w] /\ bucket'.since[w] <= now'
    BY <1>1, <2>1 DEF Counts
  <2> QED BY <2>3, <2>4, <2>5 DEF Counts
<1> QED BY <1>2, <1>3, <1>5, <1>6, <1>7, <1>8 DEF Metered, Paid, Counted

-----------------------------------------------------------------------------
(* The invariant under each step. *)
LEMMA FullMeters ==
    ASSUME now \in Nat, now' \in Nat, sent' = <<>>, bucket' = FullBucket, now' = now
    PROVE  /\ bucket' \in Bucket /\ sent' \in Seq(Nat)
           /\ (Metered(bucket))' /\ (Counted(bucket))' /\ BurstBound'
<1> USE GateAssumption
<1>1. /\ bucket'.refilled = now /\ bucket'.since = [w \in Windows |-> now]
      /\ bucket'.used = [w \in Windows |-> 0] /\ bucket' \in Bucket
  BY DEF FullBucket, Bucket
<1>2. Sent' = {} /\ 1 .. Len(sent') = {}
  BY DEF Sent
<1> QED BY <1>1, <1>2 DEF Metered, Refilled, Paid, Counted, Counts, BurstBound

\* The bucket is refilled, or checked, and nothing is charged.
LEMMA CalmMeters ==
    ASSUME IInv, UNCHANGED <<sent, now>>,
           \/ bucket' = bucket
           \/ bucket # None /\ bucket' = Checked(bucket)
           \/ bucket # None /\ bucket' = Refill(bucket)
    PROVE  /\ bucket' \in Bucket \cup {None}
           /\ (bucket # None => Metered(bucket) /\ Counted(bucket))' /\ BurstBound'
<1>1. BurstBound'
  BY DEF IInv, BurstBound
<1>2. CASE bucket' = bucket
  BY <1>1, <1>2 DEF IInv, TypeOK, Metered, Refilled, Paid, Counted, Counts, Sent
<1>3. CASE bucket # None /\ bucket' = Checked(bucket)
  <2>1. bucket' \in Bucket /\ Metered(bucket') /\ Counted(bucket')
    BY <1>3, CheckMeters DEF IInv, TypeOK
  <2> QED BY <1>1, <2>1 DEF Metered, Refilled, Paid, Counted, Counts, Sent
<1>4. CASE bucket # None /\ bucket' = Refill(bucket)
  <2>1. /\ bucket' \in Bucket /\ Metered(bucket')
        /\ bucket'.used = bucket.used /\ bucket'.since = bucket.since
    BY <1>4, RefillMeters DEF IInv, TypeOK
  <2>2. Counted(bucket)
    BY <1>4 DEF IInv
  <2> QED BY <1>1, <2>1, <2>2 DEF Metered, Refilled, Paid, Counted, Counts, Sent
<1> QED BY <1>2, <1>3, <1>4

-----------------------------------------------------------------------------
(* The circuit and its history under the recorded outcomes. *)
CircuitKept == UNCHANGED <<circuit, streak, phase, now>>

LEMMA FreshTrips ==
    ASSUME now \in Nat, now' = now, streak' = 0, phase' = FreshPhase,
           circuit' \in {None, FreshCircuit}
    PROVE  /\ circuit' \in Circuit \cup {None} /\ streak' \in Nat
           /\ phase' \in Phase /\ Tripped'
<1> USE GateAssumption
<1>1. phase' \in Phase /\ phase'.trip <= now' /\ streak' \in Nat
  BY DEF FreshPhase, Phase
<1>2. CASE circuit' = None
  BY <1>1, <1>2 DEF Tripped
<1>3. CASE circuit' = FreshCircuit
  BY <1>1, <1>3 DEF Tripped, FreshCircuit, Circuit
<1> QED BY <1>2, <1>3

\* The records that the breaker's operators and the history return.
LEMMA PhaseUpdate ==
    ASSUME NEW p \in Phase, NEW n \in Nat
    PROVE  /\ [p EXCEPT !.wins = n] \in Phase
           /\ [p EXCEPT !.wins = n].trip = p.trip /\ [p EXCEPT !.wins = n].wins = n
           /\ [p EXCEPT !.probes = n] \in Phase
           /\ [p EXCEPT !.probes = n].trip = p.trip
           /\ [p EXCEPT !.probes = n].wins = p.wins
  BY DEF Phase

LEMMA SuccessUpdate ==
    ASSUME NEW c \in Circuit, c.state = "half-open"
    PROVE  LET d == AfterSuccess(c)
           IN  /\ d \in Circuit /\ d.openedAt = c.openedAt
               /\ c.successes >= 1 => d.state = "closed" /\ d.failures = 0 /\ d.successes = 0
               /\ c.successes = 0 => d.state = "half-open" /\ d.successes = 1
<1>1. CASE c.successes >= 1
  <2>1. AfterSuccess(c) = [c EXCEPT !.state = "closed", !.failures = 0, !.successes = 0]
    BY <1>1 DEF AfterSuccess
  <2>2. /\ AfterSuccess(c) \in Circuit /\ AfterSuccess(c).openedAt = c.openedAt
        /\ AfterSuccess(c).state = "closed" /\ AfterSuccess(c).failures = 0
        /\ AfterSuccess(c).successes = 0
    <3>1. AfterSuccess(c) = [state |-> "closed", failures |-> 0, successes |-> 0,
                             openedAt |-> c.openedAt, attempts |-> c.attempts]
      BY <2>1 DEF Circuit
    <3> QED BY <3>1 DEF Circuit
  <2> QED BY <1>1, <2>2
<1>2. CASE ~(c.successes >= 1)
  <2>1. AfterSuccess(c) = [c EXCEPT !.successes = c.successes + 1]
    BY <1>2 DEF AfterSuccess
  <2>2. c.successes = 0
    BY <1>2 DEF Circuit
  <2>3. AfterSuccess(c) = [c EXCEPT !.successes = 1]
    BY <2>1, <2>2
  <2> QED BY <1>2, <2>2, <2>3 DEF Circuit
<1> QED BY <1>1, <1>2

LEMMA FailureUpdate ==
    ASSUME NEW c \in Circuit, now \in Nat
    PROVE  LET d == AfterFailure(c)
           IN  /\ d \in Circuit /\ d.failures = c.failures + 1
               /\ d.successes = c.successes
               /\ IF c.state = "half-open" \/ c.failures + 1 >= Threshold
                  THEN d.state = "open" /\ d.openedAt = now
                  ELSE d.state = c.state /\ d.openedAt = c.openedAt
<1> DEFINE more == c.failures + 1
<1>1. more \in Nat
  BY DEF Circuit
<1>2. CASE c.state = "half-open" \/ c.failures + 1 >= Threshold
  <2>1. AfterFailure(c) = [c EXCEPT !.failures = more, !.state = "open", !.openedAt = now]
    BY <1>2 DEF AfterFailure
  <2> HIDE DEF more
  <2>2. /\ AfterFailure(c) \in Circuit /\ AfterFailure(c).failures = more
        /\ AfterFailure(c).successes = c.successes
        /\ AfterFailure(c).state = "open" /\ AfterFailure(c).openedAt = now
    BY <1>1, <2>1 DEF Circuit
  <2> QED BY <1>2, <2>2 DEF more
<1>3. CASE ~(c.state = "half-open" \/ c.failures + 1 >= Threshold)
  <2>1. AfterFailure(c) = [c EXCEPT !.failures = more]
    BY <1>3 DEF AfterFailure
  <2> HIDE DEF more
  <2>2. /\ AfterFailure(c) \in Circuit /\ AfterFailure(c).failures = more
        /\ AfterFailure(c).successes = c.successes
        /\ AfterFailure(c).state = c.state /\ AfterFailure(c).openedAt = c.openedAt
    BY <1>1, <2>1 DEF Circuit
  <2> QED BY <1>3, <2>2 DEF more
<1> QED BY <1>2, <1>3

LEMMA SuccessTrips ==
    ASSUME IInv, RecordSuccess, now' = now
    PROVE  /\ circuit' \in Circuit \cup {None} /\ streak' \in Nat
           /\ phase' \in Phase /\ Tripped'
<1> USE GateAssumption DEF IInv, TypeOK
<1>1. CASE circuit = None
  BY <1>1 DEF RecordSuccess, Tripped
<1>2. CASE circuit # None
  <2>1. /\ circuit \in Circuit /\ circuit' = AfterSuccess(circuit) /\ streak' = 0
        /\ phase' = IF circuit.state = "half-open"
                    THEN [phase EXCEPT !.wins = @ + 1] ELSE phase
    BY <1>2 DEF RecordSuccess
  <2>2. CASE circuit.state = "half-open"
    <3>1. phase' \in Phase /\ phase'.trip = phase.trip /\ phase'.wins = phase.wins + 1
      <4>1. phase' = [phase EXCEPT !.wins = phase.wins + 1] /\ phase.wins + 1 \in Nat
        BY <2>1, <2>2 DEF Phase
      <4> QED BY <4>1, PhaseUpdate
    <3>2. CASE circuit.successes >= 1
      <4>1. /\ circuit' \in Circuit /\ circuit'.state = "closed"
            /\ circuit'.failures = 0 /\ circuit'.successes = 0
        BY <2>1, <2>2, <3>2, SuccessUpdate
      <4> QED BY <1>2, <2>1, <2>2, <3>1, <4>1 DEF Tripped
    <3>3. CASE ~(circuit.successes >= 1)
      <4>1. circuit.successes = 0
        BY <2>1, <3>3 DEF Circuit
      <4>2. /\ circuit' \in Circuit /\ circuit'.state = "half-open"
            /\ circuit'.successes = 1
        BY <2>1, <2>2, <4>1, SuccessUpdate
      <4> QED BY <1>2, <2>1, <2>2, <3>1, <4>1, <4>2 DEF Tripped, Phase
    <3> QED BY <3>2, <3>3
  <2>3. CASE circuit.state # "half-open"
    <3>1. /\ circuit' \in Circuit /\ circuit'.state = circuit.state
          /\ circuit'.failures = 0 /\ circuit'.successes = circuit.successes
          /\ circuit'.openedAt = circuit.openedAt
      BY <2>1, <2>3 DEF AfterSuccess, Circuit
    <3> QED BY <1>2, <2>1, <2>3, <3>1 DEF Tripped
  <2> QED BY <2>2, <2>3
<1> QED BY <1>1, <1>2

LEMMA FailureTrips ==
    ASSUME IInv, RecordFailure, now' = now
    PROVE  /\ circuit' \in Circuit \cup {None} /\ streak' \in Nat
           /\ phase' \in Phase /\ Tripped'
<1> USE GateAssumption DEF IInv, TypeOK
<1>1. CASE circuit = None
  BY <1>1 DEF RecordFailure, Tripped
<1>2. CASE circuit # None
  <2>1. /\ circuit \in Circuit /\ circuit' = AfterFailure(circuit)
        /\ streak' = streak + 1
        /\ phase' = IF circuit.state # "open" /\ circuit'.state = "open"
                    THEN [trip |-> now, probes |-> 0,
                          wins |-> IF circuit.state = "closed" THEN 0 ELSE phase.wins]
                    ELSE phase
    BY <1>2 DEF RecordFailure
  <2>2. CASE circuit.state = "half-open" \/ circuit.failures + 1 >= Threshold
    <3>1. /\ circuit' \in Circuit /\ circuit'.state = "open"
          /\ circuit'.openedAt = now /\ circuit'.successes = circuit.successes
      BY <2>1, <2>2, FailureUpdate
    <3>2. CASE circuit.state = "open"
      <4>1. phase' = phase
        BY <2>1, <3>2
      <4> QED BY <1>2, <2>1, <3>1, <3>2, <4>1 DEF Tripped, Phase
    <3>3. CASE circuit.state # "open"
      <4>1. /\ phase' \in Phase /\ phase'.trip = now
            /\ phase'.wins = IF circuit.state = "closed" THEN 0 ELSE phase.wins
        BY <2>1, <3>1, <3>3 DEF Phase
      <4> QED BY <1>2, <2>1, <3>1, <3>3, <4>1 DEF Tripped, Circuit
    <3> QED BY <3>2, <3>3
  <2>3. CASE ~(circuit.state = "half-open" \/ circuit.failures + 1 >= Threshold)
    <3>1. /\ circuit' \in Circuit /\ circuit'.state = circuit.state
          /\ circuit'.openedAt = circuit.openedAt
          /\ circuit'.failures = circuit.failures + 1
          /\ circuit'.successes = circuit.successes
      BY <2>1, <2>3, FailureUpdate
    <3>2. phase' = phase
      BY <2>1, <3>1
    <3> QED BY <1>2, <2>1, <2>3, <3>1, <3>2 DEF Tripped, Circuit
  <2> QED BY <2>2, <2>3
<1> QED BY <1>1, <1>2

\* A dispatch may turn an open circuit half-open, once it has rested.
LEMMA DispatchTrips ==
    ASSUME IInv, NEW c \in Calls, Dispatch(c)
    PROVE  /\ circuit' \in Circuit \cup {None} /\ phase' \in Phase /\ Tripped'
<1> USE GateAssumption DEF IInv, TypeOK
<1>1. now' = now /\ streak' = streak
  BY DEF Dispatch
<1>2. CASE circuit = None
  BY <1>1, <1>2 DEF Dispatch, Tripped
<1>3. CASE circuit # None
  <2>1. /\ circuit \in Circuit /\ circuit' = AfterCanExecute(circuit)
        /\ phase' = IF circuit'.state = "half-open"
                    THEN [phase EXCEPT !.probes = @ + 1] ELSE phase
    BY <1>3 DEF Dispatch
  <2>2. phase' \in Phase /\ phase'.trip = phase.trip /\ phase'.wins = phase.wins
    <3>1. phase.probes + 1 \in Nat
      BY DEF Phase
    <3> QED BY <2>1, <3>1, PhaseUpdate
  <2>3. CASE circuit.state = "open" /\ Rested(circuit)
    <3>1. /\ circuit' \in Circuit /\ circuit'.state = "half-open"
          /\ circuit'.successes = circuit.successes
      BY <2>1, <2>3 DEF AfterCanExecute, Circuit
    <3>2. Reset <= now - circuit.openedAt /\ phase.trip <= circuit.openedAt
      BY <1>3, <2>1, <2>3 DEF Rested, Tripped, Circuit
    <3>3. Reset <= now' - phase'.trip
      <4>1. phase.trip \in Int /\ circuit.openedAt \in Nat
        BY <2>1 DEF Phase, Circuit
      <4> QED BY <1>1, <2>2, <3>2, <4>1
    <3>4. phase'.trip <= now' /\ circuit'.successes <= phase'.wins
      BY <1>1, <1>3, <2>2, <2>3, <3>1 DEF Tripped
    <3> QED BY <2>2, <3>1, <3>3, <3>4 DEF Tripped
  <2>4. CASE ~(circuit.state = "open" /\ Rested(circuit))
    <3>1. circuit' = circuit
      BY <2>1, <2>4 DEF AfterCanExecute
    <3> QED BY <1>1, <1>3, <2>1, <2>2, <3>1 DEF Tripped
  <2> QED BY <2>3, <2>4
<1> QED BY <1>2, <1>3

-----------------------------------------------------------------------------
(* What a step leaves of the other variables' types. *)
Rest == /\ row \in Statuses /\ restarts \in Nat /\ now \in Nat
        /\ call \in [Calls -> Points] /\ request \in [Requests -> Steps]

LEMMA RestType ==
    ASSUME IInv, [Next]_vars
    PROVE  Rest'
<1> USE GateAssumption DEF IInv, TypeOK, Rest, Statuses, Points, Steps, vars
<1>1. ASSUME NEW c \in Calls, Invoke(c)
      PROVE  Rest'
  BY <1>1 DEF Invoke, Load, RateLimited, CircuitOpen, Dispatch, AnswersWell,
              AnswersBadly, DispatchThrows, TraceStored, TraceFails, Goto, Refuse
<1>2. ASSUME NEW r \in Requests, Manage(r)
      PROVE  Rest'
  BY <1>2 DEF Manage, Ask, NotFound, StartActivates, StartConfigures,
              RestartActivates, ConnectFails, Deactivate, Report, Remove, Step,
              SetStatus, Others, Kinds
<1>3. CASE Tick
  BY <1>3 DEF Tick
<1>4. CASE ApiRestarts
  BY <1>4 DEF ApiRestarts
<1>5. CASE UNCHANGED vars
  BY <1>5
<1> QED BY <1>1, <1>2, <1>3, <1>4, <1>5 DEF Next

LimiterHolds ==
    /\ bucket \in Bucket \cup {None} /\ sent \in Seq(Nat)
    /\ bucket # None => Metered(bucket) /\ Counted(bucket)
    /\ BurstBound

LEMMA LimiterStep ==
    ASSUME IInv, [Next]_vars
    PROVE  LimiterHolds'
<1>1. now \in Nat /\ sent \in Seq(Nat) /\ bucket \in Bucket \cup {None}
  BY DEF IInv, TypeOK
<1>2. ASSUME \/ UNCHANGED <<bucket, sent, now>>
             \/ /\ UNCHANGED <<sent, now>>
                /\ bucket' = IF bucket = None THEN None ELSE Checked(bucket)
             \/ /\ UNCHANGED <<sent, now>>
                /\ bucket' = IF bucket = None THEN None ELSE Refill(bucket)
      PROVE  LimiterHolds'
  <2>1. /\ UNCHANGED <<sent, now>>
        /\ \/ bucket' = bucket
           \/ bucket # None /\ bucket' = Checked(bucket)
           \/ bucket # None /\ bucket' = Refill(bucket)
    BY <1>2
  <2> QED BY <1>1, <2>1, CalmMeters DEF LimiterHolds
<1>3. ASSUME NEW c \in Calls, Invoke(c)
      PROVE  LimiterHolds'
  <2>1. CASE Load(c)
    BY <1>2, <2>1 DEF Load, history
  <2>2. CASE RateLimited(c)
    BY <1>2, <2>2 DEF RateLimited, history
  <2>3. CASE CircuitOpen(c)
    BY <1>2, <2>3 DEF CircuitOpen, history
  <2>4. CASE Dispatch(c)
    <3>1. CASE bucket = None
      BY <1>2, <2>4, <3>1 DEF Dispatch
    <3>2. CASE bucket # None
      <4>1. /\ Admits(Checked(bucket)) /\ bucket' = Consume(Checked(bucket))
            /\ sent' = Append(sent, now) /\ now' = now
        BY <2>4, <3>2 DEF Dispatch, Passes
      <4>2. /\ TypeOK /\ BurstBound /\ bucket \in Bucket
            /\ Metered(bucket) /\ Counted(bucket)
        BY <1>1, <3>2 DEF IInv
      <4>3. /\ Checked(bucket) \in Bucket /\ Metered(Checked(bucket))
            /\ Counted(Checked(bucket)) /\ Checked(bucket).refilled = now
            /\ \A w \in Windows : now <= Checked(bucket).since[w] + Length[w]
        BY <4>2, CheckMeters
      <4> DEFINE b == Checked(bucket)
      <4> HIDE DEF b
      <4>4. /\ b \in Bucket /\ Metered(b) /\ Counted(b) /\ b.refilled = now
            /\ \A w \in Windows : now <= b.since[w] + Length[w]
            /\ Admits(b) /\ bucket' = Consume(b)
        BY <4>1, <4>3 DEF b
      <4> QED BY <4>1, <4>2, <4>4, ConsumeMeters DEF LimiterHolds
    <3> QED BY <3>1, <3>2
  <2>5. CASE AnswersWell(c)
    BY <1>2, <2>5 DEF AnswersWell, Traced
  <2>6. CASE AnswersBadly(c)
    BY <1>2, <2>6 DEF AnswersBadly, Traced
  <2>7. CASE DispatchThrows(c) \/ TraceFails(c)
    BY <1>2, <2>7 DEF DispatchThrows, TraceFails
  <2>8. CASE TraceStored(c)
    BY <1>2, <2>8 DEF TraceStored, history
  <2> QED BY <1>3, <2>1, <2>2, <2>3, <2>4, <2>5, <2>6, <2>7, <2>8 DEF Invoke
<1>4. ASSUME NEW r \in Requests, Manage(r)
      PROVE  LimiterHolds'
  <2>1. CASE StartConfigures(r)
    <3>1. now' = now /\ sent' = <<>> /\ bucket' = FullBucket
      BY <2>1 DEF StartConfigures, Others
    <3> QED BY <1>1, <3>1, FullMeters DEF LimiterHolds
  <2>2. CASE ~StartConfigures(r)
    <3>1. UNCHANGED <<bucket, sent, now>>
      BY <1>4, <2>2 DEF Manage, Ask, NotFound, StartActivates, RestartActivates,
                        ConnectFails, Deactivate, Report, Remove, InMemory,
                        Others, history
    <3> QED BY <1>2, <3>1
  <2> QED BY <2>1, <2>2
<1>5. CASE Tick
  <2>1. bucket' = bucket /\ sent' = sent /\ now' = now + 1
    BY <1>5 DEF Tick, InMemory, history
  <2>2. ASSUME bucket # None
        PROVE  (Metered(bucket))' /\ (Counted(bucket))'
    <3>1. bucket \in Bucket /\ Metered(bucket) /\ Counted(bucket)
      BY <1>1, <2>2 DEF IInv
    <3>2. bucket.refilled \in Nat /\ \A w \in Windows : bucket.since[w] \in Nat
      BY <3>1 DEF Bucket
    <3> QED BY <1>1, <2>1, <3>1, <3>2 DEF Metered, Refilled, Paid, Counted, Counts, Sent
  <2>3. BurstBound'
    BY <2>1 DEF IInv, BurstBound
  <2> QED BY <1>1, <2>1, <2>2, <2>3 DEF LimiterHolds
<1>6. CASE ApiRestarts
  <2>1. bucket' = None /\ sent' = <<>>
    BY <1>6 DEF ApiRestarts
  <2>2. BurstBound'
    BY <2>1 DEF BurstBound
  <2> QED BY <2>1, <2>2 DEF LimiterHolds
<1>7. CASE UNCHANGED vars
  BY <1>2, <1>7 DEF vars
<1> QED BY <1>3, <1>4, <1>5, <1>6, <1>7 DEF Next

BreakerHolds ==
    /\ circuit \in Circuit \cup {None} /\ streak \in Nat /\ phase \in Phase
    /\ Tripped

LEMMA BreakerStep ==
    ASSUME IInv, [Next]_vars
    PROVE  BreakerHolds'
<1>1. /\ now \in Nat /\ streak \in Nat /\ phase \in Phase
      /\ circuit \in Circuit \cup {None} /\ Tripped
  BY DEF IInv, TypeOK
<1>2. ASSUME CircuitKept
      PROVE  BreakerHolds'
  BY <1>1, <1>2 DEF CircuitKept, Tripped, BreakerHolds
<1>3. ASSUME NEW c \in Calls, Invoke(c)
      PROVE  BreakerHolds'
  <2>1. CASE Load(c) \/ RateLimited(c) \/ CircuitOpen(c) \/ TraceStored(c)
    BY <1>2, <2>1 DEF Load, RateLimited, CircuitOpen, TraceStored, history, CircuitKept
  <2>2. CASE Dispatch(c)
    <3>1. streak' = streak
      BY <2>2 DEF Dispatch
    <3> QED BY <1>1, <2>2, <3>1, DispatchTrips DEF BreakerHolds
  <2>3. CASE AnswersWell(c)
    BY <2>3, SuccessTrips DEF AnswersWell, BreakerHolds
  <2>4. CASE AnswersBadly(c) \/ DispatchThrows(c) \/ TraceFails(c)
    BY <2>4, FailureTrips DEF AnswersBadly, DispatchThrows, TraceFails, BreakerHolds
  <2> QED BY <1>3, <2>1, <2>2, <2>3, <2>4 DEF Invoke
<1>4. ASSUME NEW r \in Requests, Manage(r)
      PROVE  BreakerHolds'
  <2>1. CASE StartConfigures(r)
    BY <1>1, <2>1, FreshTrips DEF StartConfigures, Others, BreakerHolds
  <2>2. CASE ~StartConfigures(r)
    <3>1. CircuitKept
      BY <1>4, <2>2 DEF Manage, Ask, NotFound, StartActivates, RestartActivates,
                        ConnectFails, Deactivate, Report, Remove, InMemory,
                        Others, history, CircuitKept
    <3> QED BY <1>2, <3>1
  <2> QED BY <2>1, <2>2
<1>5. CASE Tick
  <2>1. UNCHANGED <<circuit, streak, phase>> /\ now' = now + 1
    BY <1>5 DEF Tick, InMemory, history
  <2>2. phase.trip \in Int
    BY <1>1 DEF Phase
  <2> QED BY GateAssumption, <1>1, <2>1, <2>2 DEF GateAssumption, Tripped, BreakerHolds
<1>6. CASE ApiRestarts
  BY <1>1, <1>6, FreshTrips DEF ApiRestarts, BreakerHolds
<1>7. CASE UNCHANGED vars
  BY <1>2, <1>7 DEF vars, CircuitKept
<1> QED BY <1>3, <1>4, <1>5, <1>6, <1>7 DEF Next

-----------------------------------------------------------------------------
LEMMA Start == ASSUME Init PROVE IInv
<1> USE GateAssumption
<1>1. now = 0 /\ now \in Nat /\ sent = <<>> /\ bucket = FullBucket
  BY DEF Init
<1>2. /\ FullBucket \in Bucket /\ FullBucket.refilled = now
      /\ FullBucket.since = [w \in Windows |-> now]
      /\ FullBucket.used = [w \in Windows |-> 0]
  BY <1>1 DEF FullBucket, Bucket
<1>3. Metered(bucket) /\ Counted(bucket) /\ BurstBound
  <2>1. Sent = {} /\ 1 .. Len(sent) = {}
    BY <1>1 DEF Sent
  <2> QED BY <1>1, <1>2, <2>1 DEF Metered, Refilled, Paid, Counted, Counts, BurstBound
<1>4. circuit \in Circuit /\ phase \in Phase /\ streak \in Nat /\ Tripped
  BY <1>1 DEF Init, FreshCircuit, Circuit, FreshPhase, Phase, Tripped
<1>5. TypeOK
  BY <1>1, <1>2, <1>4 DEF Init, TypeOK, Statuses, Points, Steps
<1> QED BY <1>3, <1>4, <1>5 DEF IInv

LEMMA Inductive == ASSUME IInv, [Next]_vars PROVE IInv'
  BY LimiterStep, BreakerStep, RestType DEF LimiterHolds, BreakerHolds, Rest, IInv, TypeOK

LEMMA Invariant == Spec => []IInv
  BY Start, Inductive, PTL DEF Spec

\* Every variable of the gate keeps its type: no token count below zero or
\* above the burst, whatever is refilled, checked and charged in what order.
THEOREM TypeCorrect == Spec => []TypeOK
<1>1. IInv => TypeOK
  BY DEF IInv
<1> QED BY <1>1, Invariant, PTL

\* RateLimiter: the calls let pass between two moments are covered by a full
\* bucket and what the rate refilled in between.
THEOREM BurstIsBounded == Spec => []BurstBound
<1>1. IInv => BurstBound
  BY DEF IInv
<1> QED BY <1>1, Invariant, PTL

\* RateLimiter: of the calls that the bucket in force let pass, at most a cap's
\* worth fall into each of its windows as it runs now: a fixed window, which the
\* first check after its end starts anew, not one that slides.  Two windows may
\* meet, so one length of time may see twice the cap, and a start of the
\* connector begins with a new bucket.
THEOREM WindowsAreBounded == Spec => []WindowBound
<1>1. IInv => WindowBound
  <2> SUFFICES ASSUME IInv, bucket # None, NEW w \in Windows,
                      NEW i \in 1 .. Len(sent), i + Cap[w] <= Len(sent)
               PROVE  sent[i] < bucket.since[w]
    BY DEF WindowBound
  <2>1. Counts(bucket, w) /\ bucket \in Bucket /\ Len(sent) \in Nat
    BY DEF IInv, TypeOK, Counted
  <2>2. bucket.used[w] \in Nat /\ Cap[w] \in Nat
    BY <2>1, GateAssumption DEF Bucket, GateAssumption
  <2>3. i + bucket.used[w] <= Len(sent)
    BY <2>1, <2>2 DEF Counts
  <2> QED BY <2>1, <2>3 DEF Counts, Sent
<1> QED BY <1>1, Invariant, PTL

\* CircuitBreaker: a streak of failures as long as the threshold has opened
\* the circuit, in whatever order the outcomes are recorded.
THEOREM StreaksOpen == Spec => []StreakOpens
<1>1. IInv => StreakOpens
  <2> SUFFICES ASSUME IInv, circuit # None, streak >= Threshold,
                      circuit.state = "closed"
               PROVE  FALSE
    BY DEF StreakOpens
  <2>1. streak \in Nat /\ circuit.failures \in Nat /\ Threshold \in Nat
    BY GateAssumption DEF GateAssumption, IInv, TypeOK, Circuit
  <2> QED BY <2>1 DEF IInv, Tripped
<1> QED BY <1>1, Invariant, PTL

\* CircuitBreaker: other than by a start, a circuit closes after its rest and
\* after two successes half-open.
THEOREM ClosesAreEarned == Spec => CloseEarned
<1>1. ASSUME IInv, [Next]_vars
      PROVE  Earns
  <2> SUFFICES ASSUME circuit # None, circuit.state # "closed",
                      circuit' # None, circuit'.state = "closed"
               PROVE  \/ \E r \in Requests :
                            request[r] = "configure" /\ request'[r] = "ended"
                      \/ phase'.wins >= 2 /\ now - phase.trip >= Reset
    BY DEF Earns, Closes, Started
  <2>1. circuit \in Circuit /\ phase \in Phase /\ now \in Nat /\ Tripped
    BY <1>1 DEF IInv, TypeOK
  <2>2. circuit' # circuit
    OBVIOUS
  <2>3. ASSUME NEW c \in Calls, Invoke(c)
        PROVE  phase'.wins >= 2 /\ now - phase.trip >= Reset
    <3>1. CASE Dispatch(c)
      <4>1. circuit' = AfterCanExecute(circuit)
        BY <3>1 DEF Dispatch
      <4>2. CASE circuit.state = "open" /\ Rested(circuit)
        <5>1. circuit' = [circuit EXCEPT !.state = "half-open", !.attempts = 0]
          BY <4>1, <4>2 DEF AfterCanExecute
        <5>2. circuit'.state = "half-open"
          BY <2>1, <5>1 DEF Circuit
        <5> QED BY <5>2
      <4>3. CASE ~(circuit.state = "open" /\ Rested(circuit))
        BY <2>2, <4>1, <4>3 DEF AfterCanExecute
      <4> QED BY <4>2, <4>3
    <3>2. CASE AnswersWell(c)
      <4>1. /\ circuit' = AfterSuccess(circuit)
            /\ phase' = IF circuit.state = "half-open"
                        THEN [phase EXCEPT !.wins = @ + 1] ELSE phase
        BY <3>2 DEF AnswersWell, RecordSuccess
      <4>2. CASE circuit.state # "half-open"
        <5>1. circuit' = [circuit EXCEPT !.failures = 0]
          BY <4>1, <4>2 DEF AfterSuccess
        <5>2. circuit'.state = circuit.state
          BY <2>1, <5>1 DEF Circuit
        <5> QED BY <5>2
      <4>3. CASE circuit.state = "half-open"
        <5>1. circuit.successes >= 1
          <6>1. circuit.successes \in 0 .. 1
            BY <2>1 DEF Circuit
          <6> QED BY <2>1, <4>1, <4>3, <6>1, SuccessUpdate
        <5>2. phase' = [phase EXCEPT !.wins = phase.wins + 1] /\ phase.wins \in Nat
          BY <2>1, <4>1, <4>3 DEF Phase
        <5>3. phase'.wins = phase.wins + 1
          BY <2>1, <5>2, PhaseUpdate
        <5>4. circuit.successes <= phase.wins /\ Reset <= now - phase.trip
          BY <2>1, <4>3 DEF Tripped
        <5>5. circuit.successes \in Nat /\ phase.trip \in Int /\ Reset \in Nat
          BY <2>1, GateAssumption DEF Circuit, Phase, GateAssumption
        <5> QED BY <2>1, <5>1, <5>2, <5>3, <5>4, <5>5
      <4> QED BY <4>2, <4>3
    <3>3. CASE AnswersBadly(c) \/ DispatchThrows(c) \/ TraceFails(c)
      <4>1. circuit' = AfterFailure(circuit)
        BY <3>3 DEF AnswersBadly, DispatchThrows, TraceFails, RecordFailure
      <4>2. circuit'.state \in {"open", circuit.state}
        BY <2>1, <4>1, FailureUpdate
      <4> QED BY <4>2
    <3>4. CASE Load(c) \/ RateLimited(c) \/ CircuitOpen(c) \/ TraceStored(c)
      BY <2>2, <3>4 DEF Load, RateLimited, CircuitOpen, TraceStored
    <3> QED BY <2>3, <3>1, <3>2, <3>3, <3>4 DEF Invoke
  <2>4. ASSUME NEW r \in Requests, Manage(r)
        PROVE  request[r] = "configure" /\ request'[r] = "ended"
    <3>1. StartConfigures(r)
      BY <2>2, <2>4 DEF Manage, Ask, NotFound, StartActivates, RestartActivates,
                        ConnectFails, Deactivate, Report, Remove, InMemory
    <3> QED BY <1>1, <3>1 DEF StartConfigures, Step, IInv, TypeOK
  <2>5. ~Tick /\ ~ApiRestarts /\ ~UNCHANGED vars
    BY <2>2 DEF Tick, InMemory, ApiRestarts, vars
  <2> QED BY <1>1, <2>3, <2>4, <2>5 DEF Next
<1> QED BY <1>1, Invariant, PTL DEF Spec, CloseEarned
===============================================================================
