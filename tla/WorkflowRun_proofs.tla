------------------------- MODULE WorkflowRun_proofs -------------------------
(***************************************************************************)
(* WorkflowRun: the plan is sound, the nodes run in its order and the      *)
(* verdict is true, for every workflow: any number of nodes, any graph.    *)
(*                                                                         *)
(* Induction over the rounds of the planner is a least counterexample: a   *)
(* set of naturals that is not empty has a least member (Least), so the    *)
(* first round at which a claim fails is one after a round at which it     *)
(* holds.  The number of rounds is bounded by counting: each round that is *)
(* not the last completes a node that was not completed before.            *)
(***************************************************************************)
EXTENDS WorkflowRun, FiniteSetTheorems, WellFoundedInduction, TLAPS

(* A non-empty set of naturals has a least element. *)
LEMMA Least ==
    ASSUME NEW T, T \subseteq Nat, T # {}
    PROVE  \E x \in T : \A y \in T : x <= y
<1>1. IsWellFoundedOn(OpToRel(<, Nat), Nat)
    BY NatLessThanWellFounded
<1>2. \E x \in T : \A y \in T : ~(<<y, x>> \in OpToRel(<, Nat))
    BY <1>1, WFMin
<1>3. PICK x \in T : \A y \in T : ~(<<y, x>> \in OpToRel(<, Nat))
    BY <1>2
<1>4. \A y \in T : ~(y < x)
    <2> TAKE y \in T
    <2>1. y \in Nat /\ x \in Nat /\ <<y, x>> \in Nat \X Nat  OBVIOUS
    <2>2. ~(<<y, x>> \in {ss \in Nat \X Nat : ss[1] < ss[2]})
        BY <1>3 DEF OpToRel
    <2> QED  BY <2>1, <2>2
<1> QED  BY <1>4

(* Completed is the function its equation describes: the rounds are counted
   by a natural, so the equation has a solution. *)
Ready(f, S) == {n \in Nodes : f.deps[n] \subseteq S}
Solves(f, m, g) ==
    g = [k \in 0..m |-> IF k = 0 THEN {}
                        ELSE g[k - 1] \union {n \in Nodes : f.deps[n] \subseteq g[k - 1]}]

LEMMA RoundsExist ==
    ASSUME NEW f
    PROVE  \A m \in Nat : \E g : Solves(f, m, g)
<1> DEFINE Bad == {m \in Nat : ~ \E g : Solves(f, m, g)}
<1> SUFFICES ASSUME Bad # {} PROVE FALSE
    OBVIOUS
<1>1. PICK m \in Bad : \A y \in Bad : m <= y
    <2>1. Bad \subseteq Nat  OBVIOUS
    <2> HIDE DEF Bad
    <2> QED  BY <2>1, Least
<1>2. m # 0
    <2>1. Solves(f, 0, [k \in 0..0 |-> {}])  BY DEF Solves
    <2> QED  BY <1>1, <2>1
<1>3. m - 1 \in Nat /\ m - 1 \notin Bad  BY <1>1, <1>2
<1>4. PICK g : Solves(f, m - 1, g)  BY <1>3
<1> DEFINE h == [k \in 0..m |-> IF k = m THEN g[m - 1] \union Ready(f, g[m - 1]) ELSE g[k]]
<1>5. \A k \in 0..m : h[k] = IF k = 0 THEN {} ELSE h[k - 1] \union Ready(f, h[k - 1])
    <2> TAKE k \in 0..m
    <2>1. \A i \in 0..(m - 1) : h[i] = g[i]  BY <1>3
    <2>2. \A i \in 0..(m - 1) : g[i] = IF i = 0 THEN {} ELSE g[i - 1] \union Ready(f, g[i - 1])
        BY <1>4 DEF Solves, Ready
    <2>3. h[m] = g[m - 1] \union Ready(f, g[m - 1])  BY <1>3
    <2> HIDE DEF h
    <2>4. CASE k = m  BY <2>4, <2>3, <2>1, <1>2, <1>3
    <2>5. CASE k # m
        <3>1. k \in 0..(m - 1)  BY <2>5, <1>3
        <3>2. k # 0 => k - 1 \in 0..(m - 1)  BY <3>1, <1>3
        <3> QED  BY <3>1, <3>2, <2>1, <2>2
    <2> QED  BY <2>4, <2>5
<1>6. Solves(f, m, h)
    <2>1. h = [k \in 0..m |-> h[k]]  OBVIOUS
    <2> HIDE DEF h
    <2> QED  BY <2>1, <1>5 DEF Solves, Ready
<1> QED  BY <1>1, <1>6

LEMMA CompletedDef ==
    ASSUME NEW f
    PROVE  Solves(f, Len(Order), Completed(f))
<1>1. Len(Order) \in Nat  BY OrderAssumption
<1>2. \E g : Solves(f, Len(Order), g)  BY <1>1, RoundsExist
<1> QED  BY <1>2 DEF Completed, Solves

----------------------------------------------------------------------------
(* planExecutionLevels *)

Count == Len(Order)
Rounds(f, done) ==
    /\ done[0] = {}
    /\ \A k \in 1..Count : done[k] = done[k - 1] \union Ready(f, done[k - 1])

LEMMA CountPositive == Count \in Nat \ {0}
    BY OrderAssumption DEF Count

LEMMA CompletedRounds ==
    ASSUME NEW f
    PROVE  Rounds(f, Completed(f))
<1> DEFINE done == Completed(f)
<1>1. Count \in Nat  BY CountPositive
<1>2. Solves(f, Count, done)  BY CompletedDef DEF Count
<1> HIDE DEF done
<1>3. \A k \in 0..Count : done[k] = IF k = 0 THEN {} ELSE done[k - 1] \union Ready(f, done[k - 1])
    BY <1>2 DEF Solves, Ready
<1>4. 0 \in 0..Count /\ \A k \in 1..Count : k \in 0..Count /\ k # 0  BY <1>1
<1>5. Rounds(f, done)  BY <1>3, <1>4 DEF Rounds
<1> QED  BY <1>5 DEF done

(* There are at most Count nodes. *)
LEMMA NodesFinite == IsFiniteSet(Nodes) /\ Cardinality(Nodes) <= Count
<1>1. Count \in Nat  BY CountPositive
<1>2. IsFiniteSet(1..Count) /\ Cardinality(1..Count) = Count
    BY <1>1, FS_Interval
<1>3. Order \in Surjection(1..Count, Nodes)
    <2>1. Order \in [1..Count -> Nodes]  BY OrderAssumption DEF Count
    <2> QED  BY <2>1 DEF Nodes, Count, Surjection
<1> QED  BY <1>2, <1>3, FS_Surjection

LEMMA RoundsGrow ==
    ASSUME NEW f, NEW done, Rounds(f, done)
    PROVE  \A k \in 0..Count : done[k] \subseteq Nodes /\ \A j \in 0..k : done[j] \subseteq done[k]
<1> DEFINE Good(k) == done[k] \subseteq Nodes /\ \A j \in 0..k : done[j] \subseteq done[k]
           Bad == {k \in 0..Count : ~Good(k)}
<1>0. Count \in Nat  BY CountPositive
<1> SUFFICES ASSUME Bad # {} PROVE FALSE
    OBVIOUS
<1>1. PICK k \in Bad : \A y \in Bad : k <= y
    <2>1. Bad \subseteq Nat  BY <1>0
    <2> HIDE DEF Bad
    <2> QED  BY <2>1, Least
<1>2. k # 0
    BY <1>0 DEF Rounds
<1>3. k \in 1..Count /\ k - 1 \in 0..Count /\ k - 1 \notin Bad  BY <1>0, <1>1, <1>2
<1>4. Good(k - 1)  BY <1>3
<1>5. done[k] = done[k - 1] \union Ready(f, done[k - 1])  BY <1>3 DEF Rounds
<1>6. \A j \in 0..k : j = k \/ j \in 0..(k - 1)  BY <1>3
<1>7. Good(k)  BY <1>4, <1>5, <1>6 DEF Ready
<1> QED  BY <1>1, <1>7

(* The rounds that complete a node are the first ones. *)
LEMMA RoundsPrefix ==
    ASSUME NEW f, NEW done, Rounds(f, done)
    PROVE  \E m \in 0..Count :
             /\ {k \in 1..Count : done[k] # done[k - 1]} = 1..m
             /\ \A k \in m..Count : done[k] = done[m]
<1> DEFINE Same == {k \in 1..Count : done[k] = done[k - 1]}
<1>0. Count \in Nat  BY CountPositive
<1>1. CASE Same = {}
    <2>1. {k \in 1..Count : done[k] # done[k - 1]} = 1..Count  BY <1>1
    <2>2. Count \in 0..Count /\ \A k \in Count..Count : k = Count  BY <1>0
    <2> QED  BY <2>1, <2>2
<1>2. CASE Same # {}
    <2>1. PICK k \in Same : \A y \in Same : k <= y
        <3>1. Same \subseteq Nat  BY <1>0
        <3> HIDE DEF Same
        <3> QED  BY <3>1, <1>2, Least
    <2> DEFINE Bad == {j \in (k - 1)..Count : done[j] # done[k - 1]}
    <2>2. k \in 1..Count /\ k - 1 \in 0..Count /\ done[k] = done[k - 1]  BY <2>1, <1>0
    <2>3. Bad = {}
        <3> SUFFICES ASSUME Bad # {} PROVE FALSE
            OBVIOUS
        <3>1. PICK j \in Bad : \A y \in Bad : j <= y
            <4>1. Bad \subseteq Nat  BY <1>0, <2>2
            <4> HIDE DEF Bad
            <4> QED  BY <4>1, Least
        <3>2. j \in (k - 1)..Count /\ done[j] # done[k - 1]  BY <3>1
        <3>3. j \in 1..Count /\ j - 1 \in (k - 1)..Count /\ j - 1 \notin Bad
            BY <3>1, <3>2, <2>2, <1>0
        <3>4. done[j - 1] = done[k - 1]  BY <3>3
        <3>5. done[j] = done[j - 1] \union Ready(f, done[j - 1])
            BY <3>3 DEF Rounds
        <3>6. done[k] = done[k - 1] \union Ready(f, done[k - 1])
            BY <2>2 DEF Rounds
        <3> QED  BY <3>2, <3>4, <3>5, <3>6, <2>2
    <2>4. \A j \in (k - 1)..Count : done[j] = done[k - 1]
        BY <2>3
    <2>5. \A j \in k..Count : j \in (k - 1)..Count /\ j - 1 \in (k - 1)..Count
        BY <2>2, <1>0
    <2>6. \A j \in k..Count : done[j] = done[j - 1]
        BY <2>4, <2>5
    <2>7. \A j \in 1..(k - 1) : j \in 1..Count /\ done[j] # done[j - 1]
        BY <2>1, <2>2, <1>0
    <2>8. \A j \in 1..Count : j \in k..Count \/ j \in 1..(k - 1)
        BY <2>2, <1>0
    <2>9. {j \in 1..Count : done[j] # done[j - 1]} = 1..(k - 1)
        BY <2>6, <2>7, <2>8
    <2> QED  BY <2>2, <2>4, <2>9
<1> QED  BY <1>1, <1>2

(* Each of them completes one, so there are no more of them than nodes. *)
LEMMA RoundsCount ==
    ASSUME NEW f, NEW done, Rounds(f, done), NEW m \in 0..Count,
           \A k \in 1..m : done[k] # done[k - 1]
    PROVE  \A k \in 0..m : k <= Cardinality(done[k])
<1> DEFINE Bad == {k \in 0..m : ~(k <= Cardinality(done[k]))}
<1>0. Count \in Nat /\ m \in Nat /\ m <= Count  BY CountPositive
<1> SUFFICES ASSUME Bad # {} PROVE FALSE
    OBVIOUS
<1>1. PICK k \in Bad : \A y \in Bad : k <= y
    <2>1. Bad \subseteq Nat  BY <1>0
    <2> HIDE DEF Bad
    <2> QED  BY <2>1, Least
<1>2. k # 0
    BY FS_EmptySet DEF Rounds
<1>3. k \in 1..m /\ k \in 0..Count /\ k - 1 \in 0..k /\ k - 1 \in 0..Count /\ k - 1 \in 0..m /\ k - 1 \notin Bad
    BY <1>0, <1>1, <1>2
<1>4. k - 1 <= Cardinality(done[k - 1])  BY <1>3
<1>5. done[k] \subseteq Nodes /\ done[k - 1] \subseteq done[k]
    BY <1>3, RoundsGrow
<1>6. IsFiniteSet(done[k])
    BY <1>5, NodesFinite, FS_Subset
<1>7. done[k] # done[k - 1]  BY <1>3
<1>8. /\ IsFiniteSet(done[k - 1])
      /\ Cardinality(done[k - 1]) <= Cardinality(done[k])
      /\ Cardinality(done[k]) # Cardinality(done[k - 1])
    BY <1>5, <1>6, <1>7, FS_Subset
<1>9. Cardinality(done[k]) \in Nat /\ Cardinality(done[k - 1]) \in Nat
    BY <1>6, <1>8, FS_CardinalityType
<1>10. k <= Cardinality(done[k])
    BY <1>3, <1>4, <1>8, <1>9, <1>0
<1> QED  BY <1>1, <1>10

(* After Count rounds nothing more gets ready. *)
LEMMA RoundsEnd ==
    ASSUME NEW f, NEW done, Rounds(f, done)
    PROVE  Ready(f, done[Count]) \subseteq done[Count]
<1>0. Count \in Nat  BY CountPositive
<1>1. PICK m \in 0..Count :
             /\ {k \in 1..Count : done[k] # done[k - 1]} = 1..m
             /\ \A k \in m..Count : done[k] = done[m]
    BY RoundsPrefix
<1>2. CASE m < Count
    <2>1. m + 1 \in 1..Count /\ m + 1 \in m..Count /\ Count \in m..Count /\ (m + 1) - 1 = m
        BY <1>0, <1>2
    <2>2. done[m + 1] = done[m] \union Ready(f, done[m])
        BY <2>1 DEF Rounds
    <2>3. done[m + 1] = done[m] /\ done[Count] = done[m]
        BY <2>1, <1>1
    <2> QED  BY <2>2, <2>3
<1>3. CASE m = Count
    <2>1. \A k \in 1..m : done[k] # done[k - 1]  BY <1>1
    <2>2. Count \in 0..m /\ Count \in 0..Count  BY <1>0, <1>3
    <2>3. Count <= Cardinality(done[Count])
        BY <2>1, <2>2, RoundsCount
    <2>4. done[Count] \subseteq Nodes
        BY <2>2, RoundsGrow
    <2>5. /\ Cardinality(done[Count]) <= Cardinality(Nodes)
          /\ IsFiniteSet(done[Count])
          /\ Cardinality(Nodes) = Cardinality(done[Count]) => Nodes = done[Count]
        BY <2>4, NodesFinite, FS_Subset
    <2>6. Cardinality(Nodes) = Cardinality(done[Count])
        <3>1. Cardinality(Nodes) \in Nat /\ Cardinality(done[Count]) \in Nat
            BY <2>5, NodesFinite, FS_CardinalityType
        <3> QED  BY <3>1, <2>3, <2>5, NodesFinite, <1>0
    <2> QED  BY <2>5, <2>6 DEF Ready
<1> QED  BY <1>0, <1>1, <1>2, <1>3

LEMMA FirstRound ==
    ASSUME NEW f, NEW done, Rounds(f, done), NEW m \in 0..Count, NEW n \in done[m]
    PROVE  \E k \in 1..m : n \in done[k] /\ n \notin done[k - 1]
<1> DEFINE In == {k \in 0..m : n \in done[k]}
<1>0. Count \in Nat /\ m \in Nat  BY CountPositive
<1>1. PICK k \in In : \A y \in In : k <= y
    <2>1. In \subseteq Nat /\ m \in In  BY <1>0
    <2> HIDE DEF In
    <2> QED  BY <2>1, Least
<1>2. k # 0  BY DEF Rounds
<1>3. k \in 1..m /\ k - 1 \in 0..m /\ k - 1 \notin In  BY <1>0, <1>1, <1>2
<1> QED  BY <1>1, <1>3

(* A request that cannot be planned is stuck. *)
LEMMA UnplannableStuck ==
    ASSUME NEW f \in Flow, Unplannable(f)
    PROVE  Stuck(f)
<1>0. Count \in Nat /\ Count \in 0..Count  BY CountPositive
<1>1. PICK done : done = Completed(f) /\ Rounds(f, done)
    BY CompletedRounds
<1>2. done[Count] # Nodes  BY <1>1 DEF Unplannable, Count
<1>3. done[Count] \subseteq Nodes  BY <1>0, <1>1, RoundsGrow
<1>4. Ready(f, done[Count]) \subseteq done[Count]  BY <1>1, RoundsEnd
<1> DEFINE R == Nodes \ done[Count]
<1>5. R \in (SUBSET Nodes) \ {{}}  BY <1>2, <1>3
<1>6. \A n \in R : f.deps[n] \intersect (R \union {Missing}) # {}
    <2> TAKE n \in R
    <2>1. ~(f.deps[n] \subseteq done[Count])  BY <1>4 DEF Ready
    <2>2. f.deps[n] \subseteq Nodes \union {Missing}
        BY DEF Flow
    <2> QED  BY <2>1, <2>2
<1> HIDE DEF R
<1> QED  BY <1>5, <1>6 DEF Stuck

(* A request that is planned is not. *)
LEMMA PlannableNotStuck ==
    ASSUME NEW f \in Flow, ~Unplannable(f)
    PROVE  ~Stuck(f)
<1> SUFFICES ASSUME NEW R \in (SUBSET Nodes) \ {{}},
                    \A n \in R : f.deps[n] \intersect (R \union {Missing}) # {}
             PROVE  FALSE
    BY DEF Stuck
<1>0. Count \in Nat /\ Count \in 0..Count  BY CountPositive
<1>1. PICK n0 \in R : TRUE  OBVIOUS
<1>2. HasDeps(f)  BY <1>1 DEF HasDeps
<1>3. PICK done : done = Completed(f) /\ Rounds(f, done)
    BY CompletedRounds
<1>4. done[Count] = Nodes  BY <1>2, <1>3 DEF Unplannable, Count
<1> DEFINE Met == {k \in 0..Count : done[k] \intersect R # {}}
<1>5. PICK k \in Met : \A y \in Met : k <= y
    <2>1. Met \subseteq Nat /\ Count \in Met  BY <1>0, <1>4
    <2> HIDE DEF Met
    <2> QED  BY <2>1, Least
<1>6. k # 0  BY <1>3 DEF Rounds
<1>7. k \in 1..Count /\ k - 1 \in 0..Count /\ k - 1 \notin Met  BY <1>0, <1>5, <1>6
<1>8. PICK n \in R : n \in done[k]  BY <1>5
<1>9. n \in Ready(f, done[k - 1])
    BY <1>3, <1>7, <1>8 DEF Rounds
<1>10. f.deps[n] \subseteq done[k - 1]  BY <1>9 DEF Ready
<1>11. done[k - 1] \subseteq Nodes  BY <1>3, <1>7, RoundsGrow
<1>12. Missing \notin Nodes  BY FlowAssumption
<1> QED  BY <1>7, <1>10, <1>11, <1>12

(* Where a plan puts a node, as PlanSound says it. *)
Placed(f, L, n, k) ==
    /\ n \in L[k]
    /\ \A j \in 1..Len(L) \ {k} : n \notin L[j]
    /\ IF HasDeps(f)
       THEN /\ \A d \in f.deps[n] : \E j \in 1..(k - 1) : d \in L[j]
            /\ k > 1 => f.deps[n] \intersect L[k - 1] # {}
       ELSE n = Order[k]

Planned(f, L) ==
    /\ L \in Seq(SUBSET Nodes) /\ Len(L) \in Nat \ {0}
    /\ \A k \in 1..Len(L) : L[k] # {}
    /\ \A n \in Nodes : \E k \in 1..Len(L) : Placed(f, L, n, k)

LEMMA PlanLinear ==
    ASSUME NEW f \in Flow, ~HasDeps(f)
    PROVE  Planned(f, Plan(f))
<1> DEFINE L == [k \in 1..Count |-> {Order[k]}]
<1>0. Count \in Nat \ {0}  BY CountPositive
<1>1. Plan(f) = L  BY DEF Plan, Count
<1>2. \A k \in 1..Count : Order[k] \in Nodes  BY DEF Nodes, Count
<1>3. L \in Seq(SUBSET Nodes) /\ Len(L) = Count
    BY <1>0, <1>2
<1>4. \A k \in 1..Len(L) : L[k] = {Order[k]}  BY <1>3
<1>5. ASSUME NEW n \in Nodes PROVE \E k \in 1..Len(L) : Placed(f, L, n, k)
    <2>1. PICK k \in 1..Count : n = Order[k]  BY DEF Nodes, Count
    <2>2. \A j \in 1..Count \ {k} : Order[j] # Order[k]
        BY OrderAssumption DEF Count
    <2> HIDE DEF L
    <2>3. Placed(f, L, n, k)
        BY <2>1, <2>2, <1>3, <1>4 DEF Placed
    <2> QED  BY <2>3, <1>3
<1> HIDE DEF L
<1>6. Planned(f, L)  BY <1>0, <1>3, <1>4, <1>5 DEF Planned
<1> QED  BY <1>1, <1>6

LEMMA PlanLayered ==
    ASSUME NEW f \in Flow, HasDeps(f), ~Unplannable(f)
    PROVE  Planned(f, Plan(f))
<1>0. Count \in Nat \ {0} /\ Count \in 0..Count  BY CountPositive
<1>1. PICK done : done = Completed(f) /\ Rounds(f, done)
    BY CompletedRounds
<1>2. done[Count] = Nodes  BY <1>1 DEF Unplannable, Count
<1>3. PICK m \in 0..Count :
             /\ {k \in 1..Count : done[k] # done[k - 1]} = 1..m
             /\ \A k \in m..Count : done[k] = done[m]
    BY <1>1, RoundsPrefix
<1>4. m \in Nat /\ Count \in m..Count  BY <1>0
<1>5. done[m] = Nodes  BY <1>2, <1>3, <1>4
<1>6. m # 0
    <2>1. 1 \in 1..Count  BY <1>0
    <2>2. Order[1] \in Nodes  BY <2>1 DEF Nodes, Count
    <2> QED  BY <1>1, <1>5, <2>2 DEF Rounds
<1>7. Cardinality(1..m) = m  BY <1>4, FS_Interval
<1> DEFINE L == [k \in 1..m |-> {n \in Nodes : n \in done[k] \ done[k - 1]}]
<1>8. Plan(f) = L
    BY <1>1, <1>3, <1>7 DEF Plan, Count
<1>9. L \in Seq(SUBSET Nodes) /\ Len(L) = m
    BY <1>4
<1>10. \A k \in 1..m : /\ k \in 1..Count /\ k \in 0..Count /\ k - 1 \in 0..Count
                       /\ done[k - 1] \subseteq done[k] /\ done[k] \subseteq Nodes
    <2> TAKE k \in 1..m
    <2>1. k \in 1..Count /\ k \in 0..Count /\ k - 1 \in 0..Count /\ k - 1 \in 0..k
        BY <1>0, <1>4
    <2> QED  BY <2>1, <1>1, RoundsGrow
<1>11. \A k \in 1..m : L[k] = done[k] \ done[k - 1]
    BY <1>10
<1> HIDE DEF L
<1>12. \A k \in 1..m : L[k] # {}
    <2> TAKE k \in 1..m
    <2>1. done[k] # done[k - 1]  BY <1>3
    <2> QED  BY <2>1, <1>10, <1>11
<1>13. ASSUME NEW n \in Nodes PROVE \E k \in 1..m : Placed(f, L, n, k)
    <2>1. PICK k \in 1..m : n \in done[k] /\ n \notin done[k - 1]
        BY <1>1, <1>5, FirstRound
    <2>2. \A j \in 1..m \ {k} : n \notin L[j]
        <3> TAKE j \in 1..m \ {k}
        <3>1. CASE j < k
            <4>1. j \in 0..(k - 1) /\ k - 1 \in 0..Count  BY <3>1, <1>10, <1>4
            <4>2. done[j] \subseteq done[k - 1]  BY <4>1, <1>1, RoundsGrow
            <4> QED  BY <4>2, <2>1, <1>11
        <3>2. CASE j > k
            <4>1. k \in 0..(j - 1) /\ j - 1 \in 0..Count  BY <3>2, <1>10, <1>4
            <4>2. done[k] \subseteq done[j - 1]  BY <4>1, <1>1, RoundsGrow
            <4> QED  BY <4>2, <2>1, <1>11
        <3> QED  BY <3>1, <3>2, <1>4
    <2>3. f.deps[n] \subseteq done[k - 1]
        <3>1. done[k] = done[k - 1] \union Ready(f, done[k - 1])
            BY <1>1, <1>10 DEF Rounds
        <3> QED  BY <3>1, <2>1 DEF Ready
    <2>4. ASSUME NEW d \in f.deps[n] PROVE \E j \in 1..(k - 1) : d \in L[j]
        <3>1. k - 1 \in 0..Count /\ d \in done[k - 1]  BY <1>10, <2>3
        <3>2. PICK j \in 1..(k - 1) : d \in done[j] /\ d \notin done[j - 1]
            BY <1>1, <3>1, FirstRound
        <3>3. j \in 1..m  BY <1>4
        <3> QED  BY <3>2, <3>3, <1>11
    <2>5. ASSUME k > 1 PROVE f.deps[n] \intersect L[k - 1] # {}
        <3>1. k - 1 \in 1..m /\ k - 1 \in 1..Count  BY <2>5, <1>4, <1>10
        <3>2. done[k - 1] = done[(k - 1) - 1] \union Ready(f, done[(k - 1) - 1])
            BY <3>1, <1>1 DEF Rounds
        <3>3. ~(f.deps[n] \subseteq done[(k - 1) - 1])
            BY <3>2, <2>1 DEF Ready
        <3>4. L[k - 1] = done[k - 1] \ done[(k - 1) - 1]
            BY <3>1, <1>11
        <3> QED  BY <3>3, <3>4, <2>3
    <2>6. n \in L[k]  BY <2>1, <1>11
    <2>7. Placed(f, L, n, k)
        BY <1>9, <2>2, <2>4, <2>5, <2>6 DEF Placed
    <2> QED  BY <2>7
<1>14. Planned(f, L)
    BY <1>4, <1>6, <1>9, <1>12, <1>13 DEF Planned
<1> QED  BY <1>8, <1>14

LEMMA PlanIsSound ==
    ASSUME NEW f \in Flow, ~Unplannable(f)
    PROVE  Planned(f, Plan(f))
BY PlanLinear, PlanLayered

----------------------------------------------------------------------------
(* The inductive invariant *)

Terminal == {"SUCCEEDED", "FAILED", "BLOCKED"}
Unplanned == {"idle", "mission", "start", "plan", "rejected"}
Past == {"level", "thrown", "final", "complete", "over"}

\* What the run holds is what it planned for its request.
PlanKept ==
    /\ phase # "idle" => flow \in Flow
    /\ phase = "rejected" => Unplannable(flow)
    /\ phase \in Unplanned => levels = << >>
    /\ phase \in Past => levels # << >>
    /\ levels = << >> => \A n \in Nodes : node[n] = "idle"
    /\ levels # << >> => phase # "idle" /\ ~Unplannable(flow) /\ levels = Plan(flow)

\* The levels before the k-th passed without a human, those after it wait.
Reached(k) ==
    \A n \in Nodes : \A j \in 1..Len(levels) : n \in levels[j] =>
        /\ j < k => node[n] = "passed" /\ flow.kind[n] # "human"
        /\ j = k => node[n] # "idle"
        /\ j > k => node[n] = "idle"

\* Where the parallel calls of a level stand, with the bus and the mission.
Told(n) ==
    LET kind == flow.kind[n]
    IN  /\ <<n, "RESPONSE">> \in log => <<n, "REQUEST">> \in log
        /\ node[n] \in {"called", "answered", "refused"} => kind = "agent"
        /\ node[n] = "pausing" => kind = "human"
        /\ node[n] \in {"answered", "refused"} => bound
        /\ node[n] \in {"pausing", "passing", "passed"} /\ kind = "human" =>
             mission \in {"WAITING_HUMAN", "SUCCEEDED", "FAILED"}
        /\ node[n] # "idle" /\ kind = "agent" /\ bound =>
             /\ node[n] \in {"called", "answered", "refused", "passing", "passed"} =>
                  <<n, "REQUEST">> \in log
             /\ node[n] \in {"passing", "passed"} => <<n, "RESPONSE">> \in log

\* The runner's local status is true of the nodes from the moment it is set.
Verdict ==
    /\ levels # << >>
    /\ \A n \in Nodes : node[n] \in Settled \union {"idle"}
    /\ status = "SUCCEEDED" =>
         \A n \in Nodes : node[n] = "passed" /\ flow.kind[n] # "human"
    /\ status = "FAILED" => \E n \in Nodes : node[n] = "failed"
    /\ status = "BLOCKED" =>
         /\ \A n \in Nodes : node[n] \in {"idle", "passed"}
         /\ \E n \in Nodes : node[n] = "passed" /\ flow.kind[n] = "human"

Ended ==
    /\ phase \in {"final", "complete", "over"} \/ session \in Terminal => Verdict
    /\ session \in Terminal => session = status /\ phase \in {"complete", "over", "lost"}
    /\ phase \in {"complete", "over"} => session = status
    /\ phase = "complete" => status # "BLOCKED"
    /\ mission \in {"SUCCEEDED", "FAILED"} => phase = "over" /\ session = mission

IInv ==
    /\ TypeOK
    /\ PlanKept
    /\ levels # << >> => \E k \in 1..Len(levels) : Reached(k)
    /\ \A n \in Nodes : Told(n)
    /\ Ended

----------------------------------------------------------------------------
(* Init, and the run up to its first level *)

LEMMA InitInv == Init => IInv
<1> SUFFICES ASSUME Init PROVE IInv
    OBVIOUS
<1>1. TypeOK
    <2>1. << >> \in Seq(SUBSET Nodes)  OBVIOUS
    <2> QED  BY <2>1 DEF Init, TypeOK, Phases, Sessions, Missions, NodeStates, Settled
<1>2. PlanKept  BY DEF Init, PlanKept, Unplanned, Past
<1>3. \A n \in Nodes : Told(n)  BY DEF Init, Told
<1>4. Ended  BY DEF Init, Ended, Terminal
<1> QED  BY <1>1, <1>2, <1>3, <1>4 DEF IInv, Init

(* While there are no levels no node has begun and nothing has ended. *)
LEMMA NoLevelsInv ==
    ASSUME IInv, levels = << >>, TypeOK', PlanKept', Ended',
           UNCHANGED <<levels, node, log>>
    PROVE  IInv'
<1>1. \A n \in Nodes : node[n] = "idle"  BY DEF IInv, PlanKept
<1>2. \A n \in Nodes : Told(n)'
    BY <1>1 DEF Told, IInv
<1> QED  BY <1>2 DEF IInv

LEMMA BeginInv ==
    ASSUME IInv,
           (\E f \in Flows : Run(f)) \/ CreateMission \/ StartMission \/ PlanThrows
    PROVE  IInv'
<1>0. TypeOK /\ PlanKept /\ Ended  BY DEF IInv
<1>1. ASSUME NEW f \in Flows, Run(f) PROVE IInv'
    <2>0. f \in Flow  BY FlowAssumption
    <2>1. levels = << >> /\ UNCHANGED <<levels, node, log>>
        BY <1>0, <1>1 DEF Run, PlanKept, Unplanned
    <2>2. TypeOK'  BY <1>0, <1>1, <2>0 DEF Run, TypeOK, Phases, Sessions
    <2>3. PlanKept'  BY <1>0, <1>1, <2>0 DEF Run, PlanKept, Unplanned, Past
    <2>4. Ended'  BY <1>0, <1>1 DEF Run, Ended, Terminal
    <2> QED  BY <2>1, <2>2, <2>3, <2>4, NoLevelsInv
<1>2. ASSUME CreateMission PROVE IInv'
    <2>1. levels = << >> /\ UNCHANGED <<levels, node, log>>
        BY <1>0, <1>2 DEF CreateMission, PlanKept, Unplanned
    <2>2. TypeOK'  BY <1>0, <1>2 DEF CreateMission, TypeOK, Phases, Missions
    <2>3. PlanKept'  BY <1>0, <1>2 DEF CreateMission, PlanKept, Unplanned, Past
    <2>4. Ended'  BY <1>0, <1>2 DEF CreateMission, Ended, Terminal
    <2> QED  BY <2>1, <2>2, <2>3, <2>4, NoLevelsInv
<1>3. ASSUME StartMission PROVE IInv'
    <2>1. levels = << >> /\ UNCHANGED <<levels, node, log>>
        BY <1>0, <1>3 DEF StartMission, PlanKept, Unplanned
    <2>2. TypeOK'  BY <1>0, <1>3 DEF StartMission, TypeOK, Phases, Missions
    <2>3. PlanKept'  BY <1>0, <1>3 DEF StartMission, PlanKept, Unplanned, Past
    <2>4. Ended'  BY <1>0, <1>3 DEF StartMission, Ended, Terminal
    <2> QED  BY <2>1, <2>2, <2>3, <2>4, NoLevelsInv
<1>4. ASSUME PlanThrows PROVE IInv'
    <2>1. levels = << >> /\ UNCHANGED <<levels, node, log>>
        BY <1>0, <1>4 DEF PlanThrows, PlanKept, Unplanned
    <2>2. TypeOK'  BY <1>0, <1>4 DEF PlanThrows, TypeOK, Phases
    <2>3. PlanKept'  BY <1>0, <1>4 DEF PlanThrows, PlanKept, Unplanned, Past
    <2>4. Ended'  BY <1>0, <1>4 DEF PlanThrows, Ended, Terminal
    <2> QED  BY <2>1, <2>2, <2>3, <2>4, NoLevelsInv
<1> QED  BY <1>1, <1>2, <1>3, <1>4

(* A node has one place in a plan. *)
LEMMA OnePlace ==
    ASSUME NEW f, NEW L, Planned(f, L), NEW n \in Nodes,
           NEW i \in 1..Len(L), NEW j \in 1..Len(L), n \in L[i], n \in L[j]
    PROVE  i = j
BY DEF Planned, Placed

LEMMA PlanLevelsInv ==
    ASSUME IInv, PlanLevels
    PROVE  IInv'
<1>0. TypeOK /\ PlanKept /\ Ended  BY DEF IInv
<1>1. flow \in Flow /\ ~Unplannable(flow) /\ levels = << >>
    BY <1>0 DEF PlanLevels, PlanKept, Unplanned
<1>2. Planned(flow, Plan(flow))  BY <1>1, PlanIsSound
<1>3. /\ levels' = Plan(flow) /\ flow' = flow /\ Planned(flow', levels')
      /\ levels' \in Seq(SUBSET Nodes) /\ 1 \in 1..Len(levels') /\ levels' # << >>
    <2>1. levels' = Plan(flow) /\ flow' = flow  BY DEF PlanLevels
    <2>2. levels' \in Seq(SUBSET Nodes) /\ Len(levels') \in Nat \ {0}
        BY <1>2, <2>1 DEF Planned
    <2> QED  BY <1>2, <2>1, <2>2
<1>4. \A n \in Nodes : node[n] = "idle"  BY <1>0, <1>1 DEF PlanKept
<1>5. node' = [n \in Nodes |-> IF n \in levels'[1] THEN "active" ELSE node[n]]
    BY DEF PlanLevels, Enter
<1>6. \A n \in Nodes : node'[n] = IF n \in levels'[1] THEN "active" ELSE "idle"
    BY <1>4, <1>5
<1>7. phase' = "level" /\ UNCHANGED <<flow, session, mission, bound, status, rows, log>>
    BY DEF PlanLevels
<1>8. TypeOK'
    <2>1. node' \in [Nodes -> NodeStates]
        BY <1>0, <1>5 DEF TypeOK, NodeStates
    <2> QED  BY <1>0, <1>3, <1>7, <2>1 DEF TypeOK, Phases
<1>9. PlanKept'
    BY <1>1, <1>3, <1>7 DEF PlanKept, Unplanned, Past
<1>10. Reached(1)'
    <2> SUFFICES ASSUME NEW n \in Nodes, NEW j \in 1..Len(levels'), n \in levels'[j]
                 PROVE  /\ ~(j < 1)
                        /\ j = 1 => node'[n] # "idle"
                        /\ j > 1 => node'[n] = "idle"
        BY DEF Reached
    <2>1. n \in levels'[1] => j = 1
        BY <1>3, OnePlace
    <2> QED  BY <1>3, <1>6, <2>1
<1>11. ASSUME NEW n \in Nodes PROVE Told(n)'
    BY <1>0, <1>6, <1>7 DEF Told, Ended, PlanLevels, TypeOK, IInv
<1>12. Ended'
    BY <1>0, <1>7 DEF Ended, Terminal, PlanLevels
<1> QED  BY <1>3, <1>8, <1>9, <1>10, <1>11, <1>12 DEF IInv

----------------------------------------------------------------------------
(* One node of the level moves *)

Signals == {"REQUEST", "RESPONSE", "SYSTEM", "EVENT"}

LEMMA MoveInv ==
    ASSUME IInv, NEW n \in Nodes, phase \in {"level", "thrown"},
           node[n] \notin {"idle", "passed"},
           NEW t \in NodeStates \ {"idle"}, Move(n, t),
           phase' \in {phase, "thrown"},
           UNCHANGED <<flow, session, bound, levels, status, rows>>,
           mission' \in {mission, "WAITING_HUMAN"},
           NEW sig \in Signals, Thrown(<<n, sig>>),
           Told(n)'
    PROVE  IInv'
<1>0. TypeOK /\ PlanKept /\ Ended /\ \A m \in Nodes : Told(m)  BY DEF IInv
<1>1. levels # << >>  BY <1>0 DEF PlanKept, Past
<1>2. PICK k \in 1..Len(levels) : Reached(k)  BY <1>1 DEF IInv
<1>3. UNCHANGED <<flow, session, bound, levels, status, rows>>
    OBVIOUS
<1>4. /\ node' \in [Nodes -> NodeStates] /\ node'[n] = t
      /\ \A m \in Nodes \ {n} : node'[m] = node[m]
    BY <1>0 DEF TypeOK, Move
<1>5. <<n, sig>> \in Messages /\ log' \in {log, log \union {<<n, sig>>}}
    BY DEF Messages, Signals, Thrown
<1>6. TypeOK'
    BY <1>0, <1>3, <1>4, <1>5 DEF TypeOK, Missions, Phases
<1>7. PlanKept'
    BY <1>0, <1>1, <1>3 DEF PlanKept, Past, Unplanned
<1>8. Reached(k)'
    <2> SUFFICES ASSUME NEW m \in Nodes, NEW j \in 1..Len(levels), m \in levels[j]
                 PROVE  /\ j < k => node'[m] = "passed" /\ flow.kind[m] # "human"
                        /\ j = k => node'[m] # "idle"
                        /\ j > k => node'[m] = "idle"
        BY <1>3 DEF Reached
    <2>1. /\ j < k => node[m] = "passed" /\ flow.kind[m] # "human"
          /\ j = k => node[m] # "idle"
          /\ j > k => node[m] = "idle"
        BY <1>2 DEF Reached
    <2> QED  BY <2>1, <1>4
<1>9. ASSUME NEW m \in Nodes PROVE Told(m)'
    <2>1. CASE m = n  BY <2>1
    <2>2. CASE m # n
        <3>1. Told(m) /\ node'[m] = node[m]  BY <1>0, <1>4, <2>2
        <3>2. /\ <<m, "REQUEST">> \in log => <<m, "REQUEST">> \in log'
              /\ <<m, "RESPONSE">> \in log => <<m, "RESPONSE">> \in log'
              /\ <<m, "RESPONSE">> \in log' => <<m, "RESPONSE">> \in log
            BY <1>5, <2>2
        <3> QED  BY <3>1, <3>2, <1>3 DEF Told
    <2> QED  BY <2>1, <2>2
<1>10. Ended'
    BY <1>0, <1>3 DEF Ended, Terminal
<1> QED  BY <1>2, <1>3, <1>6, <1>7, <1>8, <1>9, <1>10 DEF IInv

\* What of a node is not touched by the step of a call without the bus.
LEMMA QuietInv ==
    ASSUME IInv, NEW n \in Nodes, NEW s \in NodeStates \ (Settled \union {"idle"}), At(n, s),
           Succeed(n) \/ Fail(n),
           flow.kind[n] = "human" => Fail(n),
           flow.kind[n] = "agent" /\ bound => Fail(n),
           NodeFrame, UNCHANGED <<mission, log>>
    PROVE  IInv'
<1>0. TypeOK /\ Told(n)  BY DEF IInv
<1>1. PICK t \in {"passing", "passed", "failing", "failed"} :
        /\ Move(n, t)
        /\ flow.kind[n] = "human" => t \in {"failing", "failed"}
        /\ flow.kind[n] = "agent" /\ bound => t \in {"failing", "failed"}
    BY DEF Succeed, Fail
<1>2. node'[n] = t  BY <1>0, <1>1 DEF TypeOK, Move
<1>3. Told(n)'
    BY <1>0, <1>1, <1>2 DEF Told, NodeFrame
<1>4. /\ t \in NodeStates \ {"idle"} /\ phase \in {"level", "thrown"}
      /\ node[n] \notin {"idle", "passed"} /\ phase' = phase
      /\ UNCHANGED <<flow, session, bound, levels, status, rows>>
    BY DEF NodeStates, Settled, At, NodeFrame
<1>5. "EVENT" \in Signals /\ Thrown(<<n, "EVENT">>)  BY DEF Signals, Thrown
<1> QED  BY <1>1, <1>3, <1>4, <1>5, MoveInv

LEMMA NodeStepInv ==
    ASSUME IInv, NEW n \in Nodes, NodeStep(n)
    PROVE  IInv'
<1>0. TypeOK /\ Told(n) /\ Ended  BY DEF IInv
<1> DEFINE Live == {"active", "called", "answered", "refused", "pausing", "passing", "failing"}
<1>a. /\ \A s \in Live : s \in NodeStates \ (Settled \union {"idle"})
      /\ \A t \in Live \union Settled : t \in NodeStates \ {"idle"}
    BY DEF NodeStates, Settled
<1>b. ASSUME NEW t, Move(n, t) PROVE node'[n] = t
    BY <1>0, <1>b DEF TypeOK, Move
<1>c. ASSUME NEW t \in Live \union Settled, Move(n, t), NEW s \in Live, At(n, s), NodeFrame,
             mission' \in {mission, "WAITING_HUMAN"},
             NEW sig \in Signals, Thrown(<<n, sig>>), Told(n)'
      PROVE  IInv'
    <2>1. /\ phase \in {"level", "thrown"} /\ node[n] \notin {"idle", "passed"}
          /\ phase' = phase /\ UNCHANGED <<flow, session, bound, levels, status, rows>>
        BY <1>c DEF At, NodeFrame
    <2>2. t \in NodeStates \ {"idle"}  BY <1>a
    <2> HIDE DEF Live
    <2> QED  BY <1>c, <2>1, <2>2, MoveInv
<1> HIDE DEF Live
<1>1. ASSUME Mark(n) PROVE IInv'
    <2>1. At(n, "active") /\ "active" \in Live  BY <1>1 DEF Mark, Live
    <2> QED  BY <1>1, <2>1, <1>a, QuietInv DEF Mark
<1>2. ASSUME Refuse(n) PROVE IInv'
    <2>1. At(n, "active") /\ "active" \in Live  BY <1>2 DEF Refuse, Live
    <2> QED  BY <1>2, <2>1, <1>a, QuietInv DEF Refuse
<1>3. ASSUME Perform(n) PROVE IInv'
    <2>1. At(n, "active") /\ "active" \in Live  BY <1>3 DEF Perform, Live
    <2> QED  BY <1>3, <2>1, <1>a, QuietInv DEF Perform
<1>4. ASSUME Ask(n) PROVE IInv'
    <2>1. PICK t \in {"called", "failing", "failed"} :
            Move(n, t) /\ (t = "called" /\ bound => <<n, "REQUEST">> \in log')
        BY <1>4 DEF Ask, Fail, Delivered
    <2>2. At(n, "active") /\ "active" \in Live /\ t \in Live \union Settled /\ "REQUEST" \in Signals
        BY <1>4 DEF Ask, Live, Settled, Signals
    <2>3. NodeFrame /\ mission' \in {mission, "WAITING_HUMAN"} /\ flow.kind[n] = "agent"
        BY <1>4 DEF Ask
    <2>4. Thrown(<<n, "REQUEST">>)  BY <1>4 DEF Ask, Delivered, Thrown
    <2>5. node'[n] = t  BY <2>1, <1>b
    <2>6. Told(n)'
        BY <1>0, <2>1, <2>2, <2>3, <2>4, <2>5 DEF Told, NodeFrame, Thrown
    <2> QED  BY <2>1, <2>2, <2>3, <2>4, <2>6, <1>c
<1>5. ASSUME KernelReturns(n) PROVE IInv'
    <2>1. At(n, "called") /\ "called" \in Live /\ flow.kind[n] = "agent"
        BY <1>5, <1>0 DEF KernelReturns, Live, Told, At
    <2>2. CASE bound
        <3>1. PICK t \in {"answered", "refused"} : Move(n, t)
            BY <1>5, <2>2 DEF KernelReturns
        <3>2. t \in Live \union Settled /\ "EVENT" \in Signals  BY DEF Live, Signals
        <3>3. NodeFrame /\ mission' \in {mission, "WAITING_HUMAN"} /\ log' = log
            BY <1>5 DEF KernelReturns
        <3>4. Thrown(<<n, "EVENT">>)  BY <3>3 DEF Thrown
        <3>5. node'[n] = t  BY <3>1, <1>b
        <3>6. Told(n)'
            BY <1>0, <2>1, <2>2, <3>3, <3>5 DEF Told, NodeFrame, At
        <3> QED  BY <2>1, <3>1, <3>2, <3>3, <3>4, <3>6, <1>c
    <2>3. CASE ~bound
        BY <1>5, <2>1, <2>3, <1>a, QuietInv DEF KernelReturns
    <2> QED  BY <2>2, <2>3
<1>6. ASSUME Answer(n) PROVE IInv'
    <2>1. At(n, "answered") /\ "answered" \in Live /\ flow.kind[n] = "agent" /\ bound
        BY <1>6, <1>0 DEF Answer, Live, Told, At
    <2>2. PICK t \in {"passing", "failing"} :
            Move(n, t) /\ (t = "passing" => <<n, "RESPONSE">> \in log')
        BY <1>6, <2>1 DEF Answer, Succeed, Fail, Delivered
    <2>3. NodeFrame /\ mission' \in {mission, "WAITING_HUMAN"} /\ Thrown(<<n, "RESPONSE">>)
        BY <1>6 DEF Answer, Delivered, Thrown
    <2>4. t \in Live \union Settled /\ "RESPONSE" \in Signals  BY DEF Live, Signals
    <2>5. node'[n] = t  BY <2>2, <1>b
    <2>6. <<n, "REQUEST">> \in log  BY <1>0, <2>1 DEF Told, At
    <2>7. <<n, "REQUEST">> \in log'  BY <2>6, <2>3 DEF Thrown
    <2>8. Told(n)'
        BY <2>1, <2>2, <2>3, <2>5, <2>7 DEF Told, NodeFrame
    <2> QED  BY <2>1, <2>2, <2>3, <2>4, <2>8, <1>c
<1>7. ASSUME ReportError(n) PROVE IInv'
    <2>1. At(n, "refused") /\ "refused" \in Live /\ flow.kind[n] = "agent" /\ bound
        BY <1>7, <1>0 DEF ReportError, Live, Told, At
    <2>2. Move(n, "failing")  BY <1>7, <2>1 DEF ReportError, Fail
    <2>3. NodeFrame /\ mission' \in {mission, "WAITING_HUMAN"} /\ Thrown(<<n, "EVENT">>)
        BY <1>7 DEF ReportError
    <2>4. "failing" \in Live \union Settled /\ "EVENT" \in Signals  BY DEF Live, Signals
    <2>5. node'[n] = "failing"  BY <2>2, <1>b
    <2>6. <<n, "REQUEST">> \in log  BY <1>0, <2>1 DEF Told, At
    <2>7. <<n, "REQUEST">> \in log'  BY <2>6, <2>3 DEF Thrown
    <2>8. Told(n)'
        BY <2>1, <2>3, <2>5, <2>7 DEF Told, NodeFrame
    <2> QED  BY <2>1, <2>2, <2>3, <2>4, <2>8, <1>c
<1>8. ASSUME PauseMission(n) PROVE IInv'
    <2>1. At(n, "active") /\ "active" \in Live /\ flow.kind[n] = "human"
        BY <1>8 DEF PauseMission, Live
    <2>2. Move(n, "pausing") /\ NodeFrame /\ mission' = "WAITING_HUMAN" /\ log' = log
        BY <1>8 DEF PauseMission
    <2>3. "pausing" \in Live \union Settled /\ "EVENT" \in Signals /\ Thrown(<<n, "EVENT">>)
          /\ mission' \in {mission, "WAITING_HUMAN"}
        BY <2>2 DEF Live, Signals, Thrown
    <2>4. node'[n] = "pausing"  BY <2>2, <1>b
    <2>5. Told(n)'
        BY <1>0, <2>1, <2>2, <2>4 DEF Told, NodeFrame
    <2> QED  BY <2>1, <2>2, <2>3, <2>5, <1>c
<1>9. ASSUME PausePublished(n) PROVE IInv'
    <2>1. At(n, "pausing") /\ "pausing" \in Live /\ flow.kind[n] = "human"
        BY <1>9, <1>0 DEF PausePublished, Live, Told, At
    <2>2. PICK t \in {"passing", "passed", "failing", "failed"} : Move(n, t)
        BY <1>9 DEF PausePublished, Succeed, Fail
    <2>3. NodeFrame /\ mission' \in {mission, "WAITING_HUMAN"} /\ mission' = mission
          /\ Thrown(<<n, "SYSTEM">>)
        BY <1>9 DEF PausePublished, Delivered, Thrown
    <2>4. t \in Live \union Settled /\ "SYSTEM" \in Signals  BY DEF Live, Settled, Signals
    <2>5. node'[n] = t  BY <2>2, <1>b
    <2>6. mission \in {"WAITING_HUMAN", "SUCCEEDED", "FAILED"}
        BY <1>0, <2>1 DEF Told, At
    <2>7. Told(n)'
        BY <1>0, <2>1, <2>2, <2>3, <2>5, <2>6 DEF Told, NodeFrame, Thrown
    <2> QED  BY <2>1, <2>2, <2>3, <2>4, <2>7, <1>c
<1>10. ASSUME PublishEvent(n) PROVE IInv'
    <2>1. NodeFrame /\ mission' \in {mission, "WAITING_HUMAN"} /\ mission' = mission
          /\ Thrown(<<n, "EVENT">>) /\ "EVENT" \in Signals
        BY <1>10 DEF PublishEvent, Signals
    <2>2. CASE At(n, "passing") /\ Move(n, "passed")
        <3>1. "passing" \in Live /\ "passed" \in Live \union Settled  BY DEF Live, Settled
        <3>2. node'[n] = "passed"  BY <2>2, <1>b
        <3>3. Told(n)'
            BY <1>0, <2>1, <2>2, <3>2 DEF Told, NodeFrame, Thrown, At
        <3> QED  BY <2>1, <2>2, <3>1, <3>3, <1>c
    <2>3. CASE At(n, "failing") /\ Move(n, "failed")
        <3>1. "failing" \in Live /\ "failed" \in Live \union Settled  BY DEF Live, Settled
        <3>2. node'[n] = "failed"  BY <2>3, <1>b
        <3>3. Told(n)'
            BY <1>0, <2>1, <2>3, <3>2 DEF Told, NodeFrame, Thrown, At
        <3> QED  BY <2>1, <2>3, <3>1, <3>3, <1>c
    <2> QED  BY <1>10, <2>2, <2>3 DEF PublishEvent
<1>11. ASSUME MappingThrows(n) PROVE IInv'
    <2>1. /\ phase \in {"level", "thrown"} /\ node[n] = "active"
          /\ phase' = "thrown" /\ mission' = mission /\ log' = log
          /\ UNCHANGED <<flow, session, bound, levels, status, rows>>
        BY <1>11 DEF MappingThrows, At
    <2>2. Move(n, "thrown") /\ node'[n] = "thrown"
        BY <1>11, <1>b DEF MappingThrows
    <2>3. "thrown" \in NodeStates \ {"idle"} /\ "EVENT" \in Signals
        BY DEF NodeStates, Signals
    <2>4. Told(n)'
        BY <1>0, <2>1, <2>2 DEF Told
    <2>5. Thrown(<<n, "EVENT">>)  BY <2>1 DEF Thrown
    <2> QED  BY <2>1, <2>2, <2>3, <2>4, <2>5, MoveInv
<1> QED
    BY <1>1, <1>2, <1>3, <1>4, <1>5, <1>6, <1>7, <1>8, <1>9, <1>10, <1>11 DEF NodeStep

----------------------------------------------------------------------------
(* After a level *)

LEMMA LevelsPlanned ==
    ASSUME IInv, levels # << >>
    PROVE  flow \in Flow /\ Planned(flow, levels)
BY PlanIsSound DEF IInv, PlanKept

\* Current finds the level that is under way.
LEMMA CurrentIs ==
    ASSUME IInv, levels # << >>, NEW k \in 1..Len(levels), Reached(k)
    PROVE  Current = k
<1>1. Planned(flow, levels)  BY LevelsPlanned
<1>2. \A j \in 1..Len(levels) : levels[j] \subseteq Nodes /\ levels[j] # {}
    BY <1>1 DEF Planned
<1>3. Len(levels) \in Nat  BY <1>1 DEF Planned
<1>4. levels[k] \subseteq Begun
    BY <1>2 DEF Reached, Begun
<1>5. \A j \in (k + 1)..Len(levels) : j \in 1..Len(levels) /\ levels[j] \intersect Begun = {}
    <2> TAKE j \in (k + 1)..Len(levels)
    <2>1. j \in 1..Len(levels) /\ j > k  BY <1>3
    <2> QED  BY <2>1, <1>2 DEF Reached, Begun
<1>6. ASSUME NEW i \in 1..Len(levels), levels[i] \subseteq Begun,
             \A j \in (i + 1)..Len(levels) : levels[j] \intersect Begun = {}
      PROVE  i = k
    <2>1. ~(i > k)
        <3> SUFFICES ASSUME i > k PROVE FALSE
            OBVIOUS
        <3>1. i \in (k + 1)..Len(levels)  BY <1>3
        <3> QED  BY <3>1, <1>2, <1>5, <1>6
    <2>2. ~(i < k)
        <3> SUFFICES ASSUME i < k PROVE FALSE
            OBVIOUS
        <3>1. k \in (i + 1)..Len(levels)  BY <1>3
        <3> QED  BY <3>1, <1>2, <1>4, <1>6
    <2> QED  BY <2>1, <2>2
<1> QED  BY <1>4, <1>5, <1>6 DEF Current

LEMMA EndLevelInv ==
    ASSUME IInv, EndLevel
    PROVE  IInv'
<1>0. TypeOK /\ PlanKept /\ Ended /\ \A n \in Nodes : Told(n)  BY DEF IInv
<1>1. phase = "level" /\ levels # << >>
    BY <1>0 DEF EndLevel, LevelSettled, PlanKept, Past
<1>2. PICK k \in 1..Len(levels) : Reached(k)  BY <1>1 DEF IInv
<1>3. Current = k  BY <1>1, <1>2, CurrentIs
<1>4. flow \in Flow /\ Planned(flow, levels)  BY <1>1, LevelsPlanned
<1>5. /\ Len(levels) \in Nat
      /\ \A j \in 1..Len(levels) : levels[j] \subseteq Nodes /\ levels[j] # {}
    BY <1>4 DEF Planned
<1>6. \A n \in levels[k] : n \in Nodes /\ node[n] \in Settled
    BY <1>3, <1>5 DEF EndLevel, LevelSettled
<1>7. UNCHANGED <<flow, session, mission, bound, levels, log>>
    BY DEF EndLevel
<1>8. rows' \subseteq Nodes
    <2>1. PICK written \in SUBSET levels[k] : rows' = rows \union written
        BY <1>3 DEF EndLevel
    <2> QED  BY <2>1, <1>0, <1>5 DEF TypeOK
<1>9. ASSUME NEW n \in Nodes
      PROVE  \E j \in 1..Len(levels) : n \in levels[j]
    BY <1>4 DEF Planned, Placed
<1> DEFINE failed == \E n \in levels[k] : node[n] = "failed"
           paused == \E n \in levels[k] : flow.kind[n] = "human"
<1>10. CASE failed \/ paused \/ k = Len(levels)
    <2>1. /\ status' = IF failed THEN "FAILED" ELSE IF paused THEN "BLOCKED" ELSE "SUCCEEDED"
          /\ phase' = "final" /\ node' = node
        BY <1>3, <1>10 DEF EndLevel
    <2>2. TypeOK'
        BY <1>0, <1>7, <1>8, <2>1 DEF TypeOK, Phases
    <2>3. PlanKept'
        BY <1>0, <1>1, <1>7, <2>1 DEF PlanKept, Unplanned, Past
    <2>4. Reached(k)'
        BY <1>2, <1>7, <2>1 DEF Reached
    <2>5. \A n \in Nodes : Told(n)'
        BY <1>0, <1>7, <2>1 DEF Told
    <2>6. ASSUME NEW n \in Nodes
          PROVE  \/ node[n] = "idle"
                 \/ node[n] = "passed" /\ flow.kind[n] # "human"
                 \/ n \in levels[k]
        <3>1. PICK j \in 1..Len(levels) : n \in levels[j]  BY <1>9
        <3>2. j < k \/ j = k \/ j > k  OBVIOUS
        <3> QED  BY <3>1, <3>2, <1>2 DEF Reached
    <2>7. Verdict'
        <3>1. \A n \in Nodes : node[n] \in Settled \union {"idle"}
            BY <2>6, <1>6 DEF Settled
        <3>2. CASE failed
            <4>1. status' = "FAILED"  BY <2>1, <3>2
            <4>2. \E n \in Nodes : node[n] = "failed"  BY <3>2, <1>6
            <4> QED  BY <4>1, <4>2, <3>1, <1>1, <1>7, <2>1 DEF Verdict
        <3>3. CASE ~failed /\ paused
            <4>1. status' = "BLOCKED"  BY <2>1, <3>3
            <4>2. \A n \in levels[k] : node[n] = "passed"
                BY <3>3, <1>6 DEF Settled
            <4>3. \E n \in Nodes : node[n] = "passed" /\ flow.kind[n] = "human"
                BY <3>3, <4>2, <1>6
            <4>4. \A n \in Nodes : node[n] \in {"idle", "passed"}
                BY <2>6, <4>2
            <4> QED  BY <4>1, <4>3, <4>4, <3>1, <1>1, <1>7, <2>1 DEF Verdict
        <3>4. CASE ~failed /\ ~paused
            <4>1. status' = "SUCCEEDED" /\ k = Len(levels)  BY <2>1, <3>4, <1>10
            <4>2. \A n \in levels[k] : node[n] = "passed" /\ flow.kind[n] # "human"
                BY <3>4, <1>6 DEF Settled
            <4>3. ASSUME NEW n \in Nodes PROVE node[n] = "passed" /\ flow.kind[n] # "human"
                <5>1. PICK j \in 1..Len(levels) : n \in levels[j]  BY <1>9
                <5>2. j < k \/ j = k  BY <4>1, <1>5
                <5> QED  BY <5>1, <5>2, <4>2, <1>2 DEF Reached
            <4> QED  BY <4>1, <4>3, <3>1, <1>1, <1>7, <2>1 DEF Verdict
        <3> QED  BY <3>2, <3>3, <3>4
    <2>8. Ended'
        BY <1>0, <1>1, <1>7, <2>1, <2>7 DEF Ended, Terminal
    <2> QED  BY <1>7, <2>2, <2>3, <2>4, <2>5, <2>8 DEF IInv
<1>11. CASE ~failed /\ ~paused /\ k # Len(levels)
    <2>1. Enter(levels[k + 1]) /\ status' = status /\ phase' = phase
        BY <1>3, <1>11 DEF EndLevel
    <2>2. k + 1 \in 1..Len(levels)  BY <1>5, <1>11
    <2>3. \A n \in levels[k] : node[n] = "passed" /\ flow.kind[n] # "human"
        BY <1>6, <1>11 DEF Settled
    <2>4. node' = [n \in Nodes |-> IF n \in levels[k + 1] THEN "active" ELSE node[n]]
        BY <2>1 DEF Enter
    <2>5. \A n \in Nodes : node'[n] = IF n \in levels[k + 1] THEN "active" ELSE node[n]
        BY <2>4
    <2>6. TypeOK'
        <3>1. node' \in [Nodes -> NodeStates]
            BY <1>0, <2>4 DEF TypeOK, NodeStates
        <3> QED  BY <1>0, <1>7, <1>8, <2>1, <3>1 DEF TypeOK
    <2>7. PlanKept'
        BY <1>0, <1>1, <1>7, <2>1 DEF PlanKept
    <2>8. Reached(k + 1)'
        <3> SUFFICES ASSUME NEW n \in Nodes, NEW j \in 1..Len(levels), n \in levels[j]
                     PROVE  /\ j < k + 1 => node'[n] = "passed" /\ flow.kind[n] # "human"
                            /\ j = k + 1 => node'[n] # "idle"
                            /\ j > k + 1 => node'[n] = "idle"
            BY <1>7 DEF Reached
        <3>1. n \in levels[k + 1] => j = k + 1
            BY <1>4, <2>2, OnePlace
        <3>2. j < k + 1 => j < k \/ j = k  BY <1>5
        <3>3. j > k + 1 => j > k  BY <1>5
        <3> QED  BY <3>1, <3>2, <3>3, <2>3, <2>5, <1>2, <1>5 DEF Reached
    <2>9. ASSUME NEW n \in Nodes PROVE Told(n)'
        <3>1. Told(n)  BY <1>0
        <3> QED  BY <3>1, <2>5, <1>7 DEF Told
    <2>10. Ended'
        BY <1>0, <1>1, <1>7, <2>1 DEF Ended, Terminal
    <2> QED  BY <1>7, <2>2, <2>6, <2>7, <2>8, <2>9, <2>10 DEF IInv
<1> QED  BY <1>10, <1>11

----------------------------------------------------------------------------
(* The end of the run, a kill and a dying process *)

LEMMA StandingInv ==
    ASSUME IInv, TypeOK', PlanKept', Ended', \A n \in Nodes : Told(n)',
           UNCHANGED <<flow, levels, node>>
    PROVE  IInv'
<1>1. ASSUME levels # << >> PROVE \E k \in 1..Len(levels') : Reached(k)'
    BY <1>1 DEF IInv, Reached
<1> QED  BY <1>1 DEF IInv

LEMMA EndingInv ==
    ASSUME IInv, Finalize \/ FinalizeThrows \/ CompleteMission \/ Kill \/ ProcessDies
    PROVE  IInv'
<1>0. TypeOK /\ PlanKept /\ Ended /\ \A n \in Nodes : Told(n)  BY DEF IInv
<1>1. ASSUME Finalize PROVE IInv'
    <2>1. TypeOK'  BY <1>0, <1>1 DEF Finalize, TypeOK, Phases, Sessions
    <2>2. PlanKept'  BY <1>0, <1>1 DEF Finalize, PlanKept, Unplanned, Past
    <2>3. Verdict'  BY <1>0, <1>1 DEF Finalize, Ended, Verdict
    <2>4. Ended'  BY <1>0, <1>1, <2>3 DEF Finalize, Ended, Terminal, TypeOK
    <2>5. \A n \in Nodes : Told(n)'  BY <1>0, <1>1 DEF Finalize, Told
    <2>6. UNCHANGED <<flow, levels, node>>  BY <1>1 DEF Finalize
    <2> QED  BY <2>1, <2>2, <2>4, <2>5, <2>6, StandingInv
<1>2. ASSUME FinalizeThrows PROVE IInv'
    <2>1. TypeOK'  BY <1>0, <1>2 DEF FinalizeThrows, TypeOK, Phases
    <2>2. PlanKept'  BY <1>0, <1>2 DEF FinalizeThrows, PlanKept, Unplanned, Past
    <2>3. Ended'  BY <1>0, <1>2 DEF FinalizeThrows, Ended, Verdict
    <2>4. \A n \in Nodes : Told(n)'  BY <1>0, <1>2 DEF FinalizeThrows, Told
    <2>5. UNCHANGED <<flow, levels, node>>  BY <1>2 DEF FinalizeThrows
    <2> QED  BY <2>1, <2>2, <2>3, <2>4, <2>5, StandingInv
<1>3. ASSUME CompleteMission PROVE IInv'
    <2>1. phase = "complete" /\ session = status /\ status \in {"SUCCEEDED", "FAILED"}
        BY <1>0, <1>3 DEF CompleteMission, Ended, TypeOK
    <2>2. mission' \in {mission, status} /\ phase' = "over"
          /\ UNCHANGED <<flow, session, bound, levels, node, status, rows, log>>
        BY <1>3 DEF CompleteMission
    <2>3. TypeOK'  BY <1>0, <2>1, <2>2 DEF TypeOK, Phases, Missions
    <2>4. PlanKept'  BY <1>0, <2>1, <2>2 DEF PlanKept, Unplanned, Past
    <2>5. Ended'  BY <1>0, <2>1, <2>2 DEF Ended, Verdict, Terminal
    <2>6. \A n \in Nodes : Told(n)'  BY <1>0, <2>1, <2>2 DEF Told
    <2> QED  BY <2>2, <2>3, <2>4, <2>5, <2>6, StandingInv
<1>4. ASSUME Kill PROVE IInv'
    <2>1. TypeOK'  BY <1>0, <1>4 DEF Kill, TypeOK, Sessions
    <2>2. PlanKept'  BY <1>0, <1>4 DEF Kill, PlanKept
    <2>3. status \in Terminal  BY <1>0 DEF TypeOK, Terminal
    <2>4. Ended'  BY <1>0, <1>4, <2>3 DEF Kill, Ended, Verdict, Terminal
    <2>5. \A n \in Nodes : Told(n)'  BY <1>0, <1>4 DEF Kill, Told
    <2>6. UNCHANGED <<flow, levels, node>>  BY <1>4 DEF Kill
    <2> QED  BY <2>1, <2>2, <2>4, <2>5, <2>6, StandingInv
<1>5. ASSUME ProcessDies PROVE IInv'
    <2>1. TypeOK'  BY <1>0, <1>5 DEF ProcessDies, TypeOK, Phases
    <2>2. PlanKept'  BY <1>0, <1>5 DEF ProcessDies, PlanKept, Unplanned, Past
    <2>3. Ended'  BY <1>0, <1>5 DEF ProcessDies, Ended, Verdict, Terminal
    <2>4. \A n \in Nodes : Told(n)'  BY <1>0, <1>5 DEF ProcessDies, Told
    <2>5. UNCHANGED <<flow, levels, node>>  BY <1>5 DEF ProcessDies
    <2> QED  BY <2>1, <2>2, <2>3, <2>4, <2>5, StandingInv
<1> QED  BY <1>1, <1>2, <1>3, <1>4, <1>5

----------------------------------------------------------------------------
(* The invariant and what follows from it *)

LEMMA StutterInv ==
    ASSUME IInv, UNCHANGED vars
    PROVE  IInv'
<1>1. TypeOK'  BY DEF IInv, TypeOK, vars
<1>2. PlanKept'  BY DEF IInv, PlanKept, vars
<1>3. Ended'  BY DEF IInv, Ended, Verdict, vars
<1>4. \A n \in Nodes : Told(n)'  BY DEF IInv, Told, vars
<1>5. UNCHANGED <<flow, levels, node>>  BY DEF vars
<1> QED  BY <1>1, <1>2, <1>3, <1>4, <1>5, StandingInv

LEMMA NextInv ==
    ASSUME IInv, [Next]_vars
    PROVE  IInv'
BY BeginInv, PlanLevelsInv, NodeStepInv, EndLevelInv, EndingInv, StutterInv
   DEF Next, RunStep

LEMMA Invariant == Spec => []IInv
<1>1. IInv /\ [Next]_vars => IInv'  BY NextInv
<1> QED  BY InitInv, <1>1, PTL DEF Spec

(* Every variable of a run holds values of its type, for every workflow. *)
THEOREM TypeCorrect == Spec => []TypeOK
<1>1. IInv => TypeOK  BY DEF IInv
<1> QED  BY Invariant, <1>1, PTL

(* The levels partition the nodes and layer them by dependsOn, and only a
   graph that no order can start is rejected, whatever the graph
   (planExecutionLevels). *)
THEOREM PlansAreSound == Spec => []PlanSound
<1>1. ASSUME IInv PROVE PlanSound
    <2>1. phase = "rejected" => Stuck(flow)
        BY <1>1, UnplannableStuck DEF IInv, PlanKept
    <2>2. ASSUME levels # << >>
          PROVE  ~Stuck(flow) /\ Planned(flow, levels)
        BY <1>1, <2>2, LevelsPlanned, PlannableNotStuck DEF IInv, PlanKept
    <2> QED  BY <2>1, <2>2 DEF PlanSound, Planned, Placed
<1> QED  BY Invariant, <1>1, PTL

(* A node starts only when what comes before it passed without a human, and an
   agent of a mission is called and answers on record, for every interleaving
   of the calls of a level. *)
THEOREM NodesRunInOrder == Spec => []InOrder
<1>1. ASSUME IInv PROVE InOrder
    <2>0. \A n \in Nodes : Told(n)  BY <1>1 DEF IInv
    <2>1. CallsOnRecord
        BY <2>0 DEF CallsOnRecord, Told, Begun
    <2>2. ASSUME NEW n \in Begun, NEW d \in Before(n)
          PROVE  node[d] = "passed" /\ flow.kind[d] # "human"
        <3>1. n \in Nodes /\ node[n] # "idle"  BY DEF Begun
        <3>2. levels # << >>  BY <1>1, <3>1 DEF IInv, PlanKept
        <3>3. flow \in Flow /\ Planned(flow, levels)  BY <1>1, <3>2, LevelsPlanned
        <3>4. PICK k \in 1..Len(levels) : Reached(k)  BY <1>1, <3>2 DEF IInv
        <3>5. PICK i \in 1..Len(levels) : Placed(flow, levels, n, i)
            BY <3>1, <3>3 DEF Planned
        <3>6. n \in levels[i]  BY <3>5 DEF Placed
        <3>7. Len(levels) \in Nat /\ \A j \in 1..Len(levels) : levels[j] \subseteq Nodes
            BY <3>3 DEF Planned
        <3>8. ~(i > k)  BY <3>1, <3>4, <3>6 DEF Reached
        <3>9. \E j \in 1..(i - 1) : j \in 1..Len(levels) /\ d \in levels[j]
            <4>1. CASE HasDeps(flow)
                <5>1. d \in flow.deps[n]  BY <4>1 DEF Before
                <5>2. PICK j \in 1..(i - 1) : d \in levels[j]
                    BY <4>1, <5>1, <3>5 DEF Placed
                <5> QED  BY <5>2, <3>7
            <4>2. CASE ~HasDeps(flow)
                <5>0. Len(Order) \in Nat  BY OrderAssumption
                <5>p. PICK p \in 1..Len(Order) :
                          d = Order[p] /\ \E q \in (p + 1)..Len(Order) : Order[q] = n
                    BY <4>2 DEF Before
                <5>q. PICK q \in (p + 1)..Len(Order) : Order[q] = n
                    BY <5>p
                <5>1. d = Order[p] /\ Order[q] = n
                    BY <5>p, <5>q
                <5>2. q \in 1..Len(Order) /\ p < q /\ d \in Nodes
                    BY <5>0, <5>1 DEF Nodes
                <5>3. n = Order[i]  BY <4>2, <3>5 DEF Placed
                <5>4. levels = [j \in 1..Len(Order) |-> {Order[j]}]
                    BY <1>1, <3>2, <4>2 DEF IInv, PlanKept, Plan
                <5>5. Len(levels) = Len(Order)  BY <5>0, <5>4
                <5>6. i = q  BY <5>1, <5>2, <5>3, <5>5, OrderAssumption
                <5>7. d \in levels[p]  BY <5>1, <5>4
                <5> QED  BY <5>2, <5>5, <5>6, <5>7, <5>0
            <4> QED  BY <4>1, <4>2
        <3>10. PICK j \in 1..(i - 1) : j \in 1..Len(levels) /\ d \in levels[j]
            BY <3>9
        <3>11. d \in Nodes /\ j < k  BY <3>10, <3>7, <3>8
        <3> QED  BY <3>4, <3>10, <3>11 DEF Reached
    <2> QED  BY <2>1, <2>2 DEF InOrder
<1> QED  BY Invariant, <1>1, PTL

(* What the run writes at its end is what happened to its nodes and to its
   mission, whatever failed, was killed or died on the way. *)
THEOREM VerdictsStand == Spec => []VerdictStands
<1>1. ASSUME IInv PROVE VerdictStands
    <2>0. Ended /\ \A n \in Nodes : Told(n)  BY <1>1 DEF IInv
    <2>1. session \in Terminal => Verdict /\ session = status  BY <2>0 DEF Ended
    <2>2. mission \in {"SUCCEEDED", "FAILED"} => session = mission  BY <2>0 DEF Ended
    <2>3. ASSUME session = "BLOCKED" PROVE mission = "WAITING_HUMAN"
        <3>1. PICK n \in Nodes : node[n] = "passed" /\ flow.kind[n] = "human"
            BY <2>1, <2>3 DEF Terminal, Verdict
        <3>2. mission \in {"WAITING_HUMAN", "SUCCEEDED", "FAILED"}
            BY <3>1, <2>0 DEF Told
        <3> QED  BY <3>2, <2>2, <2>3
    <2>4. session = "BLOCKED" =>
            /\ \A n \in Begun : node[n] = "passed"
            /\ \E n \in Begun : flow.kind[n] = "human"
        BY <2>1 DEF Terminal, Verdict, Begun
    <2>5. session \in Terminal => \A n \in Begun : node[n] \in Settled
        BY <2>1 DEF Verdict, Begun
    <2> QED  BY <2>1, <2>2, <2>3, <2>4, <2>5 DEF VerdictStands, Verdict, Terminal
<1> QED  BY Invariant, <1>1, PTL
=============================================================================
