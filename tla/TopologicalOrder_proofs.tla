------------------------- MODULE TopologicalOrder_proofs -------------------------
(***************************************************************************)
(* The algorithm of Plan.topological_order is right about every plan of    *)
(* any size: what it returns is a topological order, and it raises only    *)
(* where there is none.  The argument is by counting: the in-degree of a   *)
(* step is what it lists less what was popped of that, so that it reaches  *)
(* zero exactly when no dependency was listed twice and all were popped.   *)
(***************************************************************************)
EXTENDS TopologicalOrder, SequenceTheorems, FiniteSetTheorems, WellFoundedInduction, TLAPS

-----------------------------------------------------------------------------
(* What is listed, popped and queued *)

Listed(i) == {steps[i].deps[d] : d \in DOMAIN steps[i].deps}
Popped    == {order[k] : k \in DOMAIN order}

\* Popped or about to be, in the order they were queued: it only ever grows at its end.
Worklist == order \o queue
InWorklist == {Worklist[k] : k \in DOMAIN Worklist}

\* Steps carry their positions as ids.
PlanInv ==
  /\ steps \in Seq(Steps({Action}))
  /\ \A i \in DOMAIN steps : steps[i].id = i

AllKnown(n) == \A i \in 1 .. n : \A v \in Listed(i) : v \in DOMAIN steps

\* Counting up to n is done.
CountInv ==
  pc = "counting" =>
    /\ queue = <<>> /\ order = <<>>
    /\ AllKnown(counted)
    /\ \A i \in DOMAIN steps : indeg[i] = IF i <= counted THEN Len(steps[i].deps) ELSE 0

\* The in-degrees say what is still to be popped, and the worklist holds those at zero.
PopInv ==
  pc = "popping" \/ pc = "returned" =>
    /\ AllKnown(Len(steps))
    /\ \A i \in DOMAIN steps : indeg[i] = Len(steps[i].deps) - Cardinality(Popped \cap Listed(i))
    /\ IsInjective(Worklist)
    /\ InWorklist = {i \in DOMAIN steps : indeg[i] = 0}
    /\ Respects(steps, Worklist)

DoneInv ==
  /\ pc = "returned" => queue = <<>> /\ Len(order) = Len(steps)
  /\ pc = "raised" => TopologicalOrders(steps) = {}

OrderInv == TypeOK /\ PlanInv /\ CountInv /\ PopInv /\ DoneInv

LEMMA StepsFacts ==
  ASSUME PlanInv, NEW i \in DOMAIN steps
  PROVE  /\ steps[i] \in Steps({Action}) /\ steps[i].id = i
         /\ steps[i].deps \in Seq(Nat) /\ Len(steps[i].deps) \in Nat
         /\ DOMAIN steps[i].deps = 1 .. Len(steps[i].deps)
         /\ i \in 1 .. Len(steps) /\ Len(steps) \in Nat
<1>1. steps[i] \in Steps({Action})
  BY DEF PlanInv
<1>2. steps[i].deps \in Seq(Nat)
  BY <1>1 DEF Steps
<1>3. Len(steps[i].deps) \in Nat /\ DOMAIN steps[i].deps = 1 .. Len(steps[i].deps)
  BY <1>2
<1>4. i \in 1 .. Len(steps) /\ Len(steps) \in Nat
  BY DEF PlanInv
<1>. QED BY <1>1, <1>2, <1>3, <1>4 DEF PlanInv

\* Where ids are positions, depending on a step is listing its position.
LEMMA DependsIsListed ==
  ASSUME PlanInv, NEW i \in DOMAIN steps, NEW j \in DOMAIN steps
  PROVE  /\ DependsOn(steps[i], steps[j]) <=> j \in Listed(i)
         /\ Known(j)
<1>1. steps[j].id = j
  BY DEF PlanInv
<1>. QED BY <1>1 DEF DependsOn, Listed, Known

LEMMA KnownIsPosition ==
  ASSUME PlanInv, NEW v
  PROVE  Known(v) <=> v \in DOMAIN steps
BY DEF Known, PlanInv

\* A step lists no more steps than it has dependencies, and exactly as many only if none
\* is listed twice.
LEMMA ListedCount ==
  ASSUME PlanInv, NEW i \in DOMAIN steps
  PROVE  /\ IsFiniteSet(Listed(i))
         /\ Cardinality(Listed(i)) \in Nat
         /\ Cardinality(Listed(i)) <= Len(steps[i].deps)
         /\ Cardinality(Listed(i)) = Len(steps[i].deps) <=> ~ListsTwice(steps[i])
<1> DEFINE deps == steps[i].deps
           n == Len(deps)
<1>1. n \in Nat /\ DOMAIN deps = 1 .. n /\ deps \in Seq(Nat)
  BY StepsFacts
<1>2. deps \in Surjection(1 .. n, Listed(i))
  BY <1>1 DEF Surjection, Listed
<1>3. IsFiniteSet(1 .. n) /\ Cardinality(1 .. n) = n
  BY <1>1, FS_Interval
<1>4. /\ IsFiniteSet(Listed(i))
      /\ Cardinality(Listed(i)) <= n
      /\ Cardinality(Listed(i)) = n <=> deps \in Injection(1 .. n, Listed(i))
  BY <1>2, <1>3, FS_Surjection
<1>5. deps \in Injection(1 .. n, Listed(i)) <=> IsInjective(deps)
  BY <1>1, <1>2 DEF Injection, IsInjective, Surjection
<1>. QED BY <1>4, <1>5, FS_CardinalityType DEF ListsTwice

\* Of what a step lists, any set holds at most as many as it has dependencies; if it holds
\* as many it holds all, none of them listed twice.
LEMMA ReleasedCount ==
  ASSUME PlanInv, NEW i \in DOMAIN steps, NEW S
  PROVE  /\ IsFiniteSet(S \cap Listed(i)) /\ Cardinality(S \cap Listed(i)) \in Nat
         /\ Cardinality(S \cap Listed(i)) <= Len(steps[i].deps)
         /\ Cardinality(S \cap Listed(i)) = Len(steps[i].deps)
              <=> Listed(i) \subseteq S /\ ~ListsTwice(steps[i])
<1>1. S \cap Listed(i) \in SUBSET Listed(i)
  OBVIOUS
<1>2. /\ IsFiniteSet(S \cap Listed(i))
      /\ Cardinality(S \cap Listed(i)) <= Cardinality(Listed(i))
      /\ Cardinality(Listed(i)) = Cardinality(S \cap Listed(i)) => Listed(i) = S \cap Listed(i)
  BY <1>1, ListedCount, FS_Subset
<1>3. Cardinality(S \cap Listed(i)) \in Nat
  BY <1>2, FS_CardinalityType
<1>4. Len(steps[i].deps) \in Nat
  BY StepsFacts
<1>5. CASE Listed(i) \subseteq S
  <2>1. S \cap Listed(i) = Listed(i)
    BY <1>5
  <2>. QED BY <1>2, <1>3, <1>5, <2>1, ListedCount
<1>6. CASE ~(Listed(i) \subseteq S)
  <2>1. Cardinality(S \cap Listed(i)) # Cardinality(Listed(i))
    BY <1>2, <1>6
  <2>2. Cardinality(S \cap Listed(i)) < Len(steps[i].deps)
    BY <1>2, <1>3, <1>4, <2>1, ListedCount
  <2>. QED BY <1>2, <1>3, <1>6, <2>2
<1>. QED BY <1>5, <1>6

-----------------------------------------------------------------------------
(* Initial states *)

LEMMA InitOrder == Init => OrderInv
<1> SUFFICES ASSUME Init PROVE OrderInv
  OBVIOUS
<1>1. PICK n \in 0 .. MaxSteps : steps \in PlansOf(n)
  BY DEF Init
<1>2. PICK deps \in [1 .. n -> Lists(n)] :
        steps = [i \in 1 .. n |-> [id |-> i, action |-> Action, deps |-> deps[i], cap |-> 1]]
  BY <1>1 DEF PlansOf
<1>3. n \in Nat
  BY <1>1, OrderConfig
<1>4. ASSUME NEW i \in 1 .. n PROVE deps[i] \in Seq(Nat)
  <2>1. deps[i] \in Lists(n)
    OBVIOUS
  <2>2. PICK m \in 0 .. MaxDeps : deps[i] \in [1 .. m -> 1 .. (n + 1)]
    BY <2>1 DEF Lists
  <2>3. m \in Nat /\ 1 .. (n + 1) \subseteq Nat
    BY <1>3, OrderConfig
  <2>4. deps[i] \in [1 .. m -> Nat]
    BY <2>2, <2>3
  <2>. QED BY <2>3, <2>4, SeqDef
<1>5. ASSUME NEW i \in 1 .. n
      PROVE  steps[i] \in Steps({Action}) /\ steps[i].id = i
  BY <1>2, <1>3, <1>4 DEF Steps
<1>6. DOMAIN steps = 1 .. n /\ steps = [i \in 1 .. n |-> steps[i]]
  BY <1>2
<1>7. steps \in Seq(Steps({Action})) /\ Len(steps) = n
  <2>1. steps \in [1 .. n -> Steps({Action})]
    BY <1>5, <1>6
  <2>2. steps \in Seq(Steps({Action}))
    BY <1>3, <2>1, SeqDef
  <2>. QED BY <1>3, <1>6, <2>2, LenProperties
<1>8. PlanInv
  BY <1>5, <1>6, <1>7 DEF PlanInv
<1>9. pc = "counting" /\ counted = 0 /\ indeg = [i \in DOMAIN steps |-> 0]
      /\ queue = <<>> /\ order = <<>>
  BY DEF Init
<1>10. TypeOK
  BY <1>3, <1>7, <1>9 DEF TypeOK
<1>11. CountInv
  BY <1>3, <1>6, <1>9 DEF CountInv, AllKnown
<1>. QED BY <1>8, <1>9, <1>10, <1>11 DEF OrderInv, PopInv, DoneInv

-----------------------------------------------------------------------------
(* Where there is no order *)

LEMMA NatMin ==
  ASSUME NEW S \in SUBSET Nat, S # {}
  PROVE  \E m \in S : \A k \in S : m <= k
<1>1. PICK m \in S : \A k \in S : ~(<<k, m>> \in OpToRel(<, Nat))
  BY NatLessThanWellFounded, WFMin
<1>2. ASSUME NEW k \in S PROVE m <= k
  <2>1. k \in Nat /\ m \in Nat
    OBVIOUS
  <2>2. ~(k < m)
    BY <1>1, <2>1 DEF OpToRel
  <2>. QED BY <2>1, <2>2
<1>. QED BY <1>2

LEMMA ListingCount ==
  ASSUME NEW n \in Nat, NEW m \in Nat, NEW f \in [1 .. n -> 1 .. m], IsInjective(f),
         \A i \in 1 .. m : \E k \in 1 .. n : f[k] = i
  PROVE  n = m
<1>1. f \in Injection(1 .. n, 1 .. m) /\ f \in Surjection(1 .. n, 1 .. m)
  BY DEF Injection, Surjection
<1>2. IsFiniteSet(1 .. m) /\ Cardinality(1 .. m) = m /\ Cardinality(1 .. n) = n
  BY FS_Interval
<1>3. Cardinality(1 .. n) = Cardinality(1 .. m)
  BY <1>1, <1>2, FS_Injection
<1>. QED BY <1>2, <1>3

\* An order of the steps, if there is one, lists all of them.
LEMMA OrdersAreComplete ==
  ASSUME PlanInv, NEW o \in DependencyOrders(steps)
  PROVE  /\ o \in [DOMAIN steps -> DOMAIN steps] /\ Respects(steps, o)
         /\ \A i \in DOMAIN steps : \E k \in DOMAIN steps : o[k] = i
<1>1. o \in Injection(DOMAIN steps, DOMAIN steps) /\ Respects(steps, o)
  BY DEF DependencyOrders
<1>2. DOMAIN steps = 1 .. Len(steps) /\ Len(steps) \in Nat
  BY DEF PlanInv
<1>3. IsFiniteSet(DOMAIN steps)
  BY <1>2, FS_Interval
<1>4. o \in Surjection(DOMAIN steps, DOMAIN steps)
  BY <1>1, <1>3, FS_Injection
<1>. QED BY <1>1, <1>4 DEF Injection, Surjection

LEMMA UnknownNoOrder ==
  ASSUME PlanInv, NEW i \in DOMAIN steps, NEW d \in DOMAIN steps[i].deps,
         ~Known(steps[i].deps[d])
  PROVE  TopologicalOrders(steps) = {}
<1>1. ASSUME NEW o \in DependencyOrders(steps) PROVE FALSE
  <2>1. PICK k \in DOMAIN steps : o[k] = i
    BY OrdersAreComplete
  <2>2. DOMAIN o = DOMAIN steps /\ \A k2 \in DOMAIN steps : o[k2] \in DOMAIN steps
    BY OrdersAreComplete
  <2>3. PICK j \in 1 .. (k - 1) : steps[o[j]].id = steps[i].deps[d]
    BY <2>1, <2>2, OrdersAreComplete DEF Respects
  <2>4. j \in DOMAIN steps
    <3>1. DOMAIN steps = 1 .. Len(steps) /\ Len(steps) \in Nat
      BY DEF PlanInv
    <3>. QED BY <3>1
  <2>. QED BY <2>2, <2>3, <2>4 DEF Known
<1>. QED BY <1>1 DEF TopologicalOrders

\* Once nothing is left to pop, an order would have a first step that was never popped;
\* all it depends on was popped, so that it should have been queued.
LEMMA StuckNoOrder ==
  ASSUME OrderInv, pc = "popping", queue = <<>>, Len(order) # Len(steps)
  PROVE  TopologicalOrders(steps) = {}
<1>1. PlanInv /\ order \in Seq(DOMAIN steps) /\ PopInv
  BY DEF OrderInv, TypeOK
<1>2. DOMAIN steps = 1 .. Len(steps) /\ Len(steps) \in Nat
  BY <1>1 DEF PlanInv
<1>order. order \in [1 .. Len(order) -> DOMAIN steps] /\ Len(order) \in Nat
  BY <1>1, LenProperties
<1>3. Worklist = order
  BY <1>1, ConcatEmptySeq DEF Worklist
<1>4. IsInjective(order) /\ Popped = {i \in DOMAIN steps : indeg[i] = 0}
  BY <1>1, <1>3 DEF PopInv, InWorklist, Popped
<1>5. Popped # DOMAIN steps
  <2>1. SUFFICES ASSUME Popped = DOMAIN steps PROVE FALSE
    OBVIOUS
  <2>2. order \in [1 .. Len(order) -> 1 .. Len(steps)]
    BY <1>2, <1>order
  <2>3. \A i \in 1 .. Len(steps) : \E k \in 1 .. Len(order) : order[k] = i
    BY <1>2, <1>order, <2>1 DEF Popped
  <2>. QED BY <1>2, <1>order, <1>4, <2>2, <2>3, ListingCount
<1>6. ASSUME NEW o \in DependencyOrders(steps), \A i \in DOMAIN steps : ~ListsTwice(steps[i])
      PROVE  FALSE
  <2> DEFINE K == {k \in DOMAIN steps : o[k] \notin Popped}
  <2>1. K \in SUBSET Nat
    BY <1>2
  <2>2. K # {}
    <3>1. PICK i \in DOMAIN steps : i \notin Popped
      BY <1>4, <1>5
    <3>. QED BY <1>1, <3>1, OrdersAreComplete
  <2>3. PICK k \in K : \A k2 \in K : k <= k2
    BY <2>1, <2>2, NatMin
  <2>4. o[k] \in DOMAIN steps /\ o[k] \notin Popped /\ DOMAIN o = DOMAIN steps /\ k \in DOMAIN steps
    BY <1>1, OrdersAreComplete
  <2>5. ASSUME NEW v \in Listed(o[k]) PROVE v \in Popped
    <3>1. PICK d \in DOMAIN steps[o[k]].deps : v = steps[o[k]].deps[d]
      BY DEF Listed
    <3>2. PICK j \in 1 .. (k - 1) : steps[o[j]].id = v
      BY <1>1, <2>4, <3>1, OrdersAreComplete DEF Respects
    <3>3. j \in DOMAIN steps /\ j < k
      BY <1>2, <2>4
    <3>4. j \notin K
      BY <1>2, <2>3, <3>3
    <3>5. o[j] \in Popped
      BY <3>3, <3>4
    <3>6. o[j] \in DOMAIN steps
      BY <1>4, <3>5
    <3>. QED BY <1>1, <3>2, <3>5, <3>6 DEF PlanInv
  <2>6. Cardinality(Popped \cap Listed(o[k])) = Len(steps[o[k]].deps)
    <3>1. Listed(o[k]) \subseteq Popped
      BY <2>5
    <3>. QED BY <1>1, <1>6, <2>4, <3>1, ReleasedCount
  <2>7. indeg[o[k]] = 0
    <3>1. Len(steps[o[k]].deps) \in Nat
      BY <1>1, <2>4, StepsFacts
    <3>2. indeg[o[k]] = Len(steps[o[k]].deps) - Cardinality(Popped \cap Listed(o[k]))
      BY <1>1, <2>4 DEF PopInv
    <3>. QED BY <2>6, <3>1, <3>2
  <2>. QED BY <1>4, <2>4, <2>7
<1>. QED BY <1>6 DEF TopologicalOrders

-----------------------------------------------------------------------------
(* Steps *)

LEMMA InPlanOrderFacts ==
  ASSUME PlanInv, NEW S, S \subseteq DOMAIN steps, NEW list \in InPlanOrder(S)
  PROVE  /\ list \in Seq(DOMAIN steps)
         /\ IsInjective(list)
         /\ {list[k] : k \in DOMAIN list} = S
<1>1. DOMAIN steps = 1 .. Len(steps) /\ Len(steps) \in Nat
  BY DEF PlanInv
<1>2. IsFiniteSet(S)
  <2>1. IsFiniteSet(DOMAIN steps) /\ S \in SUBSET DOMAIN steps
    BY <1>1, FS_Interval
  <2>. QED BY <2>1, FS_Subset
<1>3. Cardinality(S) \in Nat
  BY <1>2, FS_CardinalityType
<1>4. list \in Injection(1 .. Cardinality(S), S) /\ list \in Surjection(1 .. Cardinality(S), S)
  BY DEF InPlanOrder, Bijection
<1>5. list \in [1 .. Cardinality(S) -> DOMAIN steps] /\ IsInjective(list)
  BY <1>4 DEF Injection
<1>6. list \in Seq(DOMAIN steps)
  BY <1>3, <1>5, SeqDef
<1>7. {list[k] : k \in DOMAIN list} = S
  BY <1>4 DEF Surjection
<1>. QED BY <1>5, <1>6, <1>7

LEMMA CountStep == ASSUME OrderInv, Count PROVE OrderInv'
<1>1. pc = "counting" /\ pc' = pc /\ steps' = steps /\ queue' = queue /\ order' = order
      /\ counted < Len(steps) /\ counted' = counted + 1
      /\ \A d \in DOMAIN steps[counted + 1].deps : Known(steps[counted + 1].deps[d])
      /\ indeg' = [indeg EXCEPT ![counted + 1] = Len(steps[counted + 1].deps)]
  BY DEF Count
<1>2. PlanInv /\ PlanInv'
  BY <1>1 DEF OrderInv, PlanInv
<1>3. counted \in Nat /\ DOMAIN steps = 1 .. Len(steps) /\ Len(steps) \in Nat
      /\ counted + 1 \in DOMAIN steps
  BY <1>1, <1>2 DEF OrderInv, TypeOK, PlanInv
<1> DEFINE s == counted + 1
<1>4. s \in DOMAIN steps /\ Len(steps[s].deps) \in Nat
  BY <1>2, <1>3, StepsFacts
<1>5. indeg \in [DOMAIN steps -> Nat] /\ indeg' = [indeg EXCEPT ![s] = Len(steps[s].deps)]
  <2>1. indeg \in [DOMAIN steps -> Nat]
    BY DEF OrderInv, TypeOK
  <2>2. indeg' = [indeg EXCEPT ![s] = Len(steps[s].deps)]
    BY DEF Count
  <2>. QED BY <2>1, <2>2
<1>6. \A v \in Listed(s) : v \in DOMAIN steps
  BY <1>1, <1>2, KnownIsPosition DEF Listed
<1>7. \A i \in 1 .. s : i \in 1 .. counted \/ i = s
  BY <1>3
<1>8. AllKnown(counted)'
  <2>1. AllKnown(counted) /\ \A i : Listed(i)' = Listed(i)
    BY <1>1 DEF OrderInv, CountInv, Listed
  <2>. QED BY <1>1, <1>6, <1>7, <2>1 DEF AllKnown
<1>9. \A i \in DOMAIN steps : indeg'[i] = IF i <= counted' THEN Len(steps[i].deps) ELSE 0
  <2>1. \A i \in DOMAIN steps : indeg[i] = IF i <= counted THEN Len(steps[i].deps) ELSE 0
    BY <1>1 DEF OrderInv, CountInv
  <2>2. counted' = s /\ \A i \in DOMAIN steps : i # s => (i <= s <=> i <= counted)
    BY <1>1, <1>3
  <2>3. s <= s
    BY <1>3
  <2> HIDE DEF s
  <2>. QED BY <1>4, <1>5, <2>1, <2>2, <2>3
<1>10. CountInv'
  <2>1. queue = <<>> /\ order = <<>>
    BY <1>1 DEF OrderInv, CountInv
  <2>. QED BY <1>1, <1>8, <1>9, <2>1 DEF CountInv
<1>11. TypeOK'
  <2>1. indeg' \in [DOMAIN steps -> Nat]
    BY <1>4, <1>5
  <2>2. counted' \in 0 .. Len(steps)
    BY <1>1, <1>3
  <2>. QED BY <1>1, <2>1, <2>2 DEF OrderInv, TypeOK
<1>. QED BY <1>1, <1>2, <1>10, <1>11 DEF OrderInv, PopInv, DoneInv

LEMMA UnknownDependencyStep == ASSUME OrderInv, UnknownDependency PROVE OrderInv'
<1>1. pc' = "raised" /\ steps' = steps /\ counted' = counted /\ indeg' = indeg
      /\ queue' = queue /\ order' = order
      /\ counted < Len(steps)
      /\ \E d \in DOMAIN steps[counted + 1].deps : ~Known(steps[counted + 1].deps[d])
  BY DEF UnknownDependency
<1>2. PlanInv /\ PlanInv' /\ TypeOK'
  BY <1>1 DEF OrderInv, PlanInv, TypeOK
<1>3. counted + 1 \in DOMAIN steps
  BY <1>1, <1>2 DEF OrderInv, TypeOK, PlanInv
<1>4. TopologicalOrders(steps) = {}
  BY <1>1, <1>2, <1>3, UnknownNoOrder
<1>. QED BY <1>1, <1>2, <1>4 DEF OrderInv, CountInv, PopInv, DoneInv

LEMMA FillQueueStep == ASSUME OrderInv, FillQueue PROVE OrderInv'
<1> DEFINE roots == {i \in DOMAIN steps : indeg[i] = 0}
<1>1. pc = "counting" /\ counted = Len(steps) /\ pc' = "popping" /\ steps' = steps
      /\ counted' = counted /\ indeg' = indeg /\ order' = order /\ queue' \in InPlanOrder(roots)
  BY DEF FillQueue
<1>2. PlanInv /\ PlanInv'
  BY <1>1 DEF OrderInv, PlanInv
<1>3. queue' \in Seq(DOMAIN steps) /\ IsInjective(queue')
      /\ {queue'[k] : k \in DOMAIN queue'} = roots
  BY <1>1, <1>2, InPlanOrderFacts
<1>4. order = <<>> /\ AllKnown(Len(steps))
      /\ \A i \in DOMAIN steps : indeg[i] = IF i <= counted THEN Len(steps[i].deps) ELSE 0
  BY <1>1 DEF OrderInv, CountInv
<1>5. TypeOK'
  BY <1>1, <1>3 DEF OrderInv, TypeOK
<1>6. Worklist' = queue'
  BY <1>1, <1>3, <1>4, ConcatEmptySeq DEF Worklist
<1>7. Popped' = {}
  BY <1>1, <1>4 DEF Popped
<1>8. ASSUME NEW i \in DOMAIN steps
      PROVE  indeg[i] = Len(steps[i].deps) - Cardinality(Popped' \cap Listed(i))
             /\ Len(steps[i].deps) \in Nat /\ indeg[i] = Len(steps[i].deps)
  <2>1. Len(steps[i].deps) \in Nat /\ i <= counted
    BY <1>1, <1>2, StepsFacts
  <2>2. Cardinality(Popped' \cap Listed(i)) = 0
    BY <1>7, FS_EmptySet
  <2>3. indeg[i] = Len(steps[i].deps)
    BY <1>4, <2>1
  <2>. QED BY <2>1, <2>2, <2>3
<1>9. Respects(steps, queue')
  <2>1. ASSUME NEW k \in DOMAIN queue' PROVE DOMAIN steps[queue'[k]].deps = {}
    <3>1. queue'[k] \in roots
      BY <1>3
    <3>2. Len(steps[queue'[k]].deps) = 0
      BY <1>8, <3>1
    <3>3. DOMAIN steps[queue'[k]].deps = 1 .. Len(steps[queue'[k]].deps)
      BY <1>2, <3>1, StepsFacts
    <3>. QED BY <3>2, <3>3
  <2>. QED BY <2>1 DEF Respects
<1>10. PopInv'
  <2>1. AllKnown(Len(steps))' /\ \A i : Listed(i)' = Listed(i)
    BY <1>1, <1>4 DEF AllKnown, Listed
  <2>2. InWorklist' = roots
    BY <1>3, <1>6 DEF InWorklist
  <2>. QED BY <1>1, <1>3, <1>6, <1>8, <1>9, <2>1, <2>2 DEF PopInv
<1>. QED BY <1>1, <1>2, <1>5, <1>10 DEF OrderInv, CountInv, DoneInv

\* Popping the head of the queue: the worklist stays and gets the released steps appended.
LEMMA WorklistGrows ==
  ASSUME NEW S, NEW done \in Seq(S), NEW q \in Seq(S), q # <<>>, NEW new \in Seq(S)
  PROVE  LET w == done \o q
             v == Append(done, Head(q)) \o (Tail(q) \o new)
         IN  /\ w \in Seq(S) /\ Len(w) = Len(done) + Len(q)
             /\ v \in Seq(S) /\ Len(v) = Len(w) + Len(new)
             /\ \A k \in 1 .. Len(w) : v[k] = w[k]
             /\ \A k \in Len(w) + 1 .. Len(v) : v[k] = new[k - Len(w)]
             /\ w[Len(done) + 1] = Head(q)
<1> DEFINE n == Len(done)  m == Len(q)  p == Len(new)
           longer == Append(done, Head(q))
           rest == Tail(q) \o new
           w == done \o q
           v == longer \o rest
<1>1. n \in Nat /\ m \in Nat /\ p \in Nat /\ m > 0
  BY EmptySeq, LenProperties
<1>2. Head(q) \in S /\ Head(q) = q[1] /\ Tail(q) \in Seq(S) /\ Len(Tail(q)) = m - 1
      /\ \A i \in 1 .. m - 1 : Tail(q)[i] = q[i + 1]
  BY HeadTailProperties
<1>3. longer \in Seq(S) /\ Len(longer) = n + 1
      /\ (\A i \in 1 .. n : longer[i] = done[i]) /\ longer[n + 1] = q[1]
  BY <1>2, AppendProperties
<1>4. rest \in Seq(S) /\ Len(rest) = m - 1 + p
      /\ \A i \in 1 .. m - 1 + p : rest[i] = IF i <= m - 1 THEN Tail(q)[i] ELSE new[i - (m - 1)]
  BY <1>2, ConcatProperties
<1>5. w \in Seq(S) /\ Len(w) = n + m
      /\ \A i \in 1 .. n + m : w[i] = IF i <= n THEN done[i] ELSE q[i - n]
  BY ConcatProperties
<1>6. v \in Seq(S) /\ Len(v) = n + 1 + (m - 1 + p)
      /\ \A i \in 1 .. n + 1 + (m - 1 + p) :
           v[i] = IF i <= n + 1 THEN longer[i] ELSE rest[i - (n + 1)]
  BY <1>3, <1>4, ConcatProperties
<1> HIDE DEF longer, rest, w, v, n, m, p
<1>7. Len(v) = Len(w) + p
  BY <1>1, <1>5, <1>6
<1>8. ASSUME NEW k \in 1 .. Len(w) PROVE v[k] = w[k]
  <2>1. k \in Nat /\ k >= 1 /\ k <= n + m /\ v[k] = IF k <= n + 1 THEN longer[k] ELSE rest[k - (n + 1)]
    BY <1>1, <1>5, <1>6
  <2>2. CASE k <= n
    BY <1>1, <1>3, <1>5, <2>1, <2>2
  <2>3. CASE k = n + 1
    BY <1>1, <1>3, <1>5, <2>1, <2>3
  <2>4. CASE k > n + 1
    <3>1. v[k] = rest[k - (n + 1)] /\ k - (n + 1) \in 1 .. m - 1
      BY <1>1, <2>1, <2>4
    <3>2. rest[k - (n + 1)] = Tail(q)[k - (n + 1)]
      <4>1. k - (n + 1) \in 1 .. m - 1 + p /\ k - (n + 1) <= m - 1
        BY <1>1, <3>1
      <4>. QED BY <1>4, <4>1
    <3>3. Tail(q)[k - (n + 1)] = q[k - (n + 1) + 1]
      BY <1>2, <3>1
    <3>4. w[k] = q[k - n] /\ k - (n + 1) + 1 = k - n
      BY <1>1, <1>5, <2>1, <2>4
    <3>. QED BY <3>1, <3>2, <3>3, <3>4
  <2>. QED BY <1>1, <2>1, <2>2, <2>3, <2>4
<1>9. ASSUME NEW k \in Len(w) + 1 .. Len(v) PROVE v[k] = new[k - Len(w)]
  <2>1. k \in Int /\ k > n + m /\ k <= n + 1 + (m - 1 + p) /\ k \in 1 .. n + 1 + (m - 1 + p)
    BY <1>1, <1>5, <1>6
  <2>2. v[k] = rest[k - (n + 1)]
    BY <1>1, <1>6, <2>1
  <2>3. k - (n + 1) \in 1 .. m - 1 + p /\ ~(k - (n + 1) <= m - 1)
        /\ k - (n + 1) - (m - 1) = k - (n + m)
    BY <1>1, <2>1
  <2>4. rest[k - (n + 1)] = new[k - (n + m)]
    BY <1>4, <2>3
  <2>. QED BY <1>5, <2>2, <2>4
<1>10. w[n + 1] = Head(q)
  BY <1>1, <1>2, <1>5
<1>. QED BY <1>5, <1>6, <1>7, <1>8, <1>9, <1>10 DEF w, v, longer, rest, n, m, p

LEMMA PopStep == ASSUME OrderInv, Pop PROVE OrderInv'
<1> DEFINE h == Head(queue)
           waiting == {i \in DOMAIN steps : DependsOn(steps[i], steps[h])}
           ready   == {i \in waiting : indeg[i] = 1}
           n == Len(order)
<1>1. pc = "popping" /\ queue # <<>> /\ steps' = steps /\ pc' = pc /\ counted' = counted
  BY DEF Pop
<1>2. order' = Append(order, h)
  BY DEF Pop
<1>3. indeg' = [i \in DOMAIN steps |-> IF i \in waiting THEN indeg[i] - 1 ELSE indeg[i]]
  BY DEF Pop
<1>4. PICK released \in InPlanOrder(ready) : queue' = Tail(queue) \o released
  BY DEF Pop
<1>5. PlanInv /\ PlanInv' /\ TypeOK
  BY <1>1 DEF OrderInv, PlanInv
<1>6. order \in Seq(DOMAIN steps) /\ queue \in Seq(DOMAIN steps) /\ n \in Nat
  BY <1>5 DEF TypeOK
<1>7. released \in Seq(DOMAIN steps) /\ IsInjective(released)
      /\ {released[k] : k \in DOMAIN released} = ready
  BY <1>4, <1>5, InPlanOrderFacts
<1> DEFINE w == Worklist  v == Worklist'
<1>8. /\ w \in Seq(DOMAIN steps) /\ Len(w) = n + Len(queue)
      /\ v \in Seq(DOMAIN steps) /\ Len(v) = Len(w) + Len(released)
      /\ \A k \in 1 .. Len(w) : v[k] = w[k]
      /\ \A k \in Len(w) + 1 .. Len(v) : v[k] = released[k - Len(w)]
      /\ w[n + 1] = h
  BY <1>1, <1>2, <1>4, <1>6, <1>7, WorklistGrows DEF Worklist
<1>9. /\ AllKnown(Len(steps))
      /\ \A i \in DOMAIN steps : indeg[i] = Len(steps[i].deps) - Cardinality(Popped \cap Listed(i))
      /\ IsInjective(w)
      /\ InWorklist = {i \in DOMAIN steps : indeg[i] = 0}
      /\ Respects(steps, w)
  BY <1>1 DEF OrderInv, PopInv
<1>10. h \in DOMAIN steps /\ Len(queue) \in Nat /\ Len(queue) > 0 /\ Len(released) \in Nat
  BY <1>1, <1>6, <1>7, HeadTailProperties, EmptySeq, LenProperties
<1>11. order' \in Seq(DOMAIN steps) /\ queue' \in Seq(DOMAIN steps) /\ Len(order') = n + 1
       /\ (\A k \in 1 .. n : order'[k] = order[k]) /\ order'[n + 1] = h
  <2>1. order' \in Seq(DOMAIN steps) /\ Len(order') = n + 1
        /\ (\A k \in 1 .. n : order'[k] = order[k]) /\ order'[n + 1] = h
    BY <1>2, <1>6, <1>10, AppendProperties
  <2>2. Tail(queue) \in Seq(DOMAIN steps)
    BY <1>1, <1>6, HeadTailProperties
  <2>. QED BY <1>4, <1>7, <2>1, <2>2, ConcatProperties
<1>12. /\ \A k \in 1 .. n : order[k] = w[k]
       /\ Popped = {w[k] : k \in 1 .. n}
  <2>1. \A k \in 1 .. n : w[k] = order[k]
    BY <1>6, ConcatProperties DEF Worklist
  <2>2. DOMAIN order = 1 .. n
    BY <1>6, LenProperties
  <2>. QED BY <2>1, <2>2 DEF Popped
<1>13. Popped' = Popped \cup {h} /\ h \notin Popped
  <2>1. DOMAIN order' = 1 .. n + 1 /\ DOMAIN order = 1 .. n
    BY <1>6, <1>11, LenProperties
  <2>2. \A k \in 1 .. n + 1 : k \in 1 .. n \/ k = n + 1
    BY <1>6
  <2>3. \A k \in 1 .. n : k \in 1 .. n + 1
    BY <1>6
  <2>4. Popped' = Popped \cup {h}
    <3>1. n + 1 \in 1 .. n + 1
      BY <1>6
    <3>2. Popped' = {order'[k] : k \in 1 .. n + 1} /\ Popped = {order[k] : k \in 1 .. n}
      BY <2>1 DEF Popped
    <3>3. \A k \in 1 .. n + 1 : order'[k] \in Popped \cup {h}
      BY <1>11, <2>2, <3>2
    <3>4. \A k \in 1 .. n : order[k] \in Popped'
      BY <1>11, <2>3, <3>2
    <3>5. h \in Popped'
      BY <1>11, <3>1, <3>2
    <3>. QED BY <3>2, <3>3, <3>4, <3>5
  <2>5. DOMAIN w = 1 .. n + Len(queue)
    BY <1>8, LenProperties
  <2>6. ASSUME NEW k \in 1 .. n PROVE w[k] # h
    <3>1. k \in DOMAIN w /\ n + 1 \in DOMAIN w /\ k # n + 1
      BY <1>6, <1>10, <2>5
    <3>. QED BY <1>8, <1>9, <3>1 DEF IsInjective
  <2>. QED BY <1>12, <2>4, <2>6
<1>14. ASSUME NEW i \in DOMAIN steps
       PROVE  /\ i \in waiting <=> h \in Listed(i)
              /\ indeg'[i] = Len(steps[i].deps) - Cardinality(Popped' \cap Listed(i))
              /\ indeg'[i] \in Nat
  <2>1. i \in waiting <=> h \in Listed(i)
    BY <1>5, <1>10, DependsIsListed
  <2>2. IsFiniteSet(Popped \cap Listed(i)) /\ Cardinality(Popped \cap Listed(i)) \in Nat
        /\ Len(steps[i].deps) \in Nat
    BY <1>5, ReleasedCount, StepsFacts
  <2>3. Cardinality(Popped' \cap Listed(i)) \in Nat
        /\ Cardinality(Popped' \cap Listed(i)) <= Len(steps[i].deps)
    BY <1>5, ReleasedCount
  <2>4. indeg[i] = Len(steps[i].deps) - Cardinality(Popped \cap Listed(i))
    BY <1>9
  <2>5. indeg'[i] = Len(steps[i].deps) - Cardinality(Popped' \cap Listed(i))
    <3>1. ASSUME h \in Listed(i)
          PROVE  indeg'[i] = Len(steps[i].deps) - Cardinality(Popped' \cap Listed(i))
      <4>1. Popped' \cap Listed(i) = (Popped \cap Listed(i)) \cup {h} /\ h \notin Popped \cap Listed(i)
        BY <1>13, <3>1
      <4>2. Cardinality(Popped' \cap Listed(i)) = Cardinality(Popped \cap Listed(i)) + 1
        BY <2>2, <4>1, FS_AddElement
      <4>3. indeg'[i] = indeg[i] - 1
        BY <1>3, <2>1, <3>1
      <4>. QED BY <2>2, <2>4, <4>2, <4>3
    <3>2. ASSUME h \notin Listed(i)
          PROVE  indeg'[i] = Len(steps[i].deps) - Cardinality(Popped' \cap Listed(i))
      <4>1. Popped' \cap Listed(i) = Popped \cap Listed(i)
        BY <1>13, <3>2
      <4>2. indeg'[i] = indeg[i]
        BY <1>3, <2>1, <3>2
      <4>. QED BY <2>4, <4>1, <4>2
    <3>. QED BY <3>1, <3>2
  <2>. QED BY <2>1, <2>2, <2>3, <2>5
<1>15. {i \in DOMAIN steps : indeg'[i] = 0} = InWorklist \cup ready
  <2>1. ASSUME NEW i \in DOMAIN steps, indeg'[i] = 0 PROVE i \in InWorklist \cup ready
    <3>1. indeg[i] = 0 \/ (i \in waiting /\ indeg[i] = 1)
      <4>1. indeg[i] \in Nat
        BY <1>5 DEF TypeOK
      <4>. QED BY <1>3, <2>1, <4>1
    <3>. QED BY <1>9, <3>1
  <2>2. ASSUME NEW i \in InWorklist PROVE i \in DOMAIN steps /\ indeg'[i] = 0
    <3>1. i \in DOMAIN steps /\ indeg[i] = 0
      BY <1>9
    <3>2. i \notin waiting
      <4>1. i \in waiting => indeg'[i] = -1
        BY <1>3, <3>1
      <4>2. indeg'[i] \in Nat
        BY <1>14, <3>1
      <4>. QED BY <4>1, <4>2
    <3>. QED BY <1>3, <3>1, <3>2
  <2>3. ASSUME NEW i \in ready PROVE i \in DOMAIN steps /\ indeg'[i] = 0
    BY <1>3
  <2>. QED BY <2>1, <2>2, <2>3
<1>16. \A k \in 1 .. Len(v) : k \in 1 .. Len(w) \/ k \in Len(w) + 1 .. Len(v)
  BY <1>6, <1>8, <1>10
<1>17. DOMAIN w = 1 .. Len(w) /\ DOMAIN v = 1 .. Len(v) /\ DOMAIN released = 1 .. Len(released)
       /\ Len(w) \in Nat /\ Len(v) \in Nat
  BY <1>7, <1>8, LenProperties
<1>18. ASSUME NEW k \in Len(w) + 1 .. Len(v)
       PROVE  k - Len(w) \in DOMAIN released /\ v[k] \in ready
  <2>1. k - Len(w) \in 1 .. Len(released)
    BY <1>8, <1>10, <1>17
  <2>. QED BY <1>7, <1>8, <1>17, <2>1
<1>19. InWorklist' = InWorklist \cup ready
  <2>1. InWorklist = {w[k] : k \in 1 .. Len(w)} /\ InWorklist' = {v[k] : k \in 1 .. Len(v)}
    BY <1>17 DEF InWorklist
  <2>2. ASSUME NEW k \in 1 .. Len(v) PROVE v[k] \in InWorklist \cup ready
    BY <1>8, <1>16, <1>18, <2>1
  <2>3. ASSUME NEW k \in 1 .. Len(w) PROVE w[k] \in InWorklist'
    <3>1. k \in 1 .. Len(v)
      BY <1>8, <1>10, <1>17
    <3>. QED BY <1>8, <2>1, <3>1
  <2>4. ASSUME NEW i \in ready PROVE i \in InWorklist'
    <3>1. PICK k \in 1 .. Len(released) : released[k] = i
      BY <1>7, <1>17
    <3>2. k + Len(w) \in 1 .. Len(v) /\ k + Len(w) \in Len(w) + 1 .. Len(v)
          /\ k + Len(w) - Len(w) = k
      BY <1>8, <1>10, <1>17
    <3>3. PICK j \in Len(w) + 1 .. Len(v) : j \in 1 .. Len(v) /\ j - Len(w) = k
      BY <3>2
    <3>4. v[j] = released[j - Len(w)]
      BY <1>8, <3>3
    <3>. QED BY <2>1, <3>1, <3>3, <3>4
  <2>. QED BY <2>1, <2>2, <2>3, <2>4
<1>20. IsInjective(v)
  <2>1. ASSUME NEW j \in 1 .. Len(v), NEW k \in 1 .. Len(v), v[j] = v[k] PROVE j = k
    <3>1. \A i \in ready : i \notin InWorklist
      BY <1>9
    <3>2. \A i \in 1 .. Len(w) : v[i] \in InWorklist
      BY <1>8, <1>17 DEF InWorklist
    <3>3. CASE j \in 1 .. Len(w) /\ k \in 1 .. Len(w)
      BY <1>8, <1>9, <1>17, <2>1, <3>3 DEF IsInjective
    <3>4. CASE j \in Len(w) + 1 .. Len(v) /\ k \in Len(w) + 1 .. Len(v)
      <4>1. released[j - Len(w)] = released[k - Len(w)]
        BY <1>8, <2>1, <3>4
      <4>2. j - Len(w) = k - Len(w)
        BY <1>7, <1>18, <3>4, <4>1 DEF IsInjective
      <4>. QED BY <1>17, <4>2
    <3>. QED BY <1>16, <1>18, <2>1, <3>1, <3>2, <3>3, <3>4
  <2>. QED BY <1>17, <2>1 DEF IsInjective
<1>21. Respects(steps, v)
  <2>1. ASSUME NEW k \in 1 .. Len(v), NEW d \in DOMAIN steps[v[k]].deps
        PROVE  \E j \in 1 .. (k - 1) : steps[v[j]].id = steps[v[k]].deps[d]
    <3>1. CASE k \in 1 .. Len(w)
      <4>1. v[k] = w[k]
        BY <1>8, <3>1
      <4>2. PICK j \in 1 .. (k - 1) : steps[w[j]].id = steps[w[k]].deps[d]
        BY <1>9, <1>17, <3>1, <4>1 DEF Respects
      <4>3. j \in 1 .. Len(w)
        BY <1>17, <3>1
      <4>4. v[j] = w[j]
        BY <1>8, <4>3
      <4>. QED BY <4>1, <4>2, <4>4
    <3>2. CASE k \in Len(w) + 1 .. Len(v)
      <4> DEFINE i == v[k]
      <4>1. i \in DOMAIN steps /\ indeg'[i] = 0
        BY <1>15, <1>18, <3>2
      <4>2. Cardinality(Popped' \cap Listed(i)) = Len(steps[i].deps)
        <5>1. Cardinality(Popped' \cap Listed(i)) \in Nat /\ Len(steps[i].deps) \in Nat
          BY <1>5, <4>1, ReleasedCount, StepsFacts
        <5>2. 0 = Len(steps[i].deps) - Cardinality(Popped' \cap Listed(i))
          BY <1>14, <4>1
        <5>. QED BY <5>1, <5>2
      <4>3. Listed(i) \subseteq Popped'
        BY <1>5, <4>1, <4>2, ReleasedCount
      <4>4. steps[i].deps[d] \in Popped \cup {h}
        BY <1>13, <4>3 DEF Listed
      <4>5. PICK j \in 1 .. n + 1 : w[j] = steps[i].deps[d]
        <5>1. CASE steps[i].deps[d] = h
          <6>1. n + 1 \in 1 .. n + 1 /\ w[n + 1] = h
            BY <1>6, <1>8
          <6>. QED BY <5>1, <6>1
        <5>2. CASE steps[i].deps[d] \in Popped
          <6>1. PICK j \in 1 .. n : w[j] = steps[i].deps[d]
            BY <1>12, <5>2
          <6>2. j \in 1 .. n + 1
            BY <1>6
          <6>. QED BY <6>1, <6>2
        <5>. QED BY <4>4, <5>1, <5>2
      <4>6. j \in 1 .. Len(w) /\ j \in 1 .. (k - 1)
        BY <1>6, <1>8, <1>10, <1>17, <3>2
      <4>7. v[j] = w[j] /\ w[j] \in DOMAIN steps
        BY <1>8, <1>17, <4>6
      <4>8. steps[v[j]].id = steps[i].deps[d]
        BY <1>5, <4>5, <4>7 DEF PlanInv
      <4>. QED BY <4>6, <4>8
    <3>. QED BY <1>16, <3>1, <3>2
  <2>. QED BY <1>17, <2>1 DEF Respects
<1>22. PopInv'
  <2>1. AllKnown(Len(steps))' /\ \A i : Listed(i)' = Listed(i)
    BY <1>1, <1>9 DEF AllKnown, Listed
  <2>2. InWorklist' = {i \in DOMAIN steps : indeg'[i] = 0}
    BY <1>15, <1>19
  <2>. QED BY <1>1, <1>14, <1>20, <1>21, <2>1, <2>2 DEF PopInv
<1>23. TypeOK'
  <2>1. indeg' \in [DOMAIN steps -> Nat]
    BY <1>3, <1>14
  <2>. QED BY <1>1, <1>5, <1>11, <2>1 DEF TypeOK
<1>. QED BY <1>1, <1>5, <1>22, <1>23 DEF OrderInv, CountInv, DoneInv

LEMMA FinishStep == ASSUME OrderInv, Finish PROVE OrderInv'
<1>1. pc = "popping" /\ queue = <<>> /\ steps' = steps /\ counted' = counted
      /\ indeg' = indeg /\ queue' = queue /\ order' = order
      /\ pc' = IF Len(order) = Len(steps) THEN "returned" ELSE "raised"
  BY DEF Finish
<1>2. PlanInv' /\ TypeOK'
  BY <1>1 DEF OrderInv, PlanInv, TypeOK
<1>3. PopInv'
  <2>1. PopInv /\ pc = "popping"
    BY <1>1 DEF OrderInv
  <2>. QED BY <1>1, <2>1 DEF PopInv, AllKnown, Listed, Popped, InWorklist, Worklist
<1>4. Len(order) # Len(steps) => TopologicalOrders(steps) = {}
  BY <1>1, StuckNoOrder
<1>. QED BY <1>1, <1>2, <1>3, <1>4 DEF OrderInv, CountInv, DoneInv

LEMMA OrderKept == Spec => []OrderInv
<1>1. OrderInv /\ [Next]_vars => OrderInv'
  <2> SUFFICES ASSUME OrderInv, [Next]_vars PROVE OrderInv'
    OBVIOUS
  <2>1. CASE UNCHANGED vars
    <3>1. PlanInv' /\ TypeOK' /\ CountInv' /\ DoneInv'
      BY <2>1 DEF vars, OrderInv, PlanInv, TypeOK, CountInv, AllKnown, Listed, DoneInv
    <3>2. PopInv'
      BY <2>1 DEF vars, OrderInv, PopInv, AllKnown, Listed, Popped, InWorklist, Worklist
    <3>. QED BY <3>1, <3>2 DEF OrderInv
  <2>. QED BY <2>1, CountStep, UnknownDependencyStep, FillQueueStep, PopStep, FinishStep DEF Next
<1>. QED BY <1>1, InitOrder, PTL DEF Spec

-----------------------------------------------------------------------------
(* What follows *)

\* In-degrees never go below zero, and every list holds steps of the plan.
THEOREM OrderTyped == Spec => []TypeOK
<1>1. OrderInv => TypeOK
  BY DEF OrderInv
<1>. QED BY <1>1, OrderKept, PTL

\* What Plan.topological_order returns lists every step once, after all it depends on.
THEOREM ReturnsAnOrder == Spec => []ReturnsOrder
<1>1. OrderInv => ReturnsOrder
  <2> SUFFICES ASSUME OrderInv, pc = "returned" PROVE order \in TopologicalOrders(steps)
    BY DEF ReturnsOrder
  <2>1. PlanInv /\ PopInv /\ queue = <<>> /\ Len(order) = Len(steps) /\ order \in Seq(DOMAIN steps)
    BY DEF OrderInv, DoneInv, TypeOK
  <2>2. Worklist = order
    BY <2>1, ConcatEmptySeq DEF Worklist
  <2>3. IsInjective(order) /\ Respects(steps, order) /\ Popped = {i \in DOMAIN steps : indeg[i] = 0}
    BY <2>1, <2>2 DEF PopInv, InWorklist, Popped
  <2>4. DOMAIN steps = 1 .. Len(steps) /\ Len(steps) \in Nat
    BY <2>1 DEF PlanInv
  <2>5. order \in Injection(DOMAIN steps, DOMAIN steps)
    <3>1. order \in [DOMAIN steps -> DOMAIN steps]
      BY <2>1, <2>4, LenProperties
    <3>. QED BY <2>3, <3>1 DEF Injection
  <2>6. order \in Surjection(DOMAIN steps, DOMAIN steps)
    <3>1. IsFiniteSet(DOMAIN steps)
      BY <2>4, FS_Interval
    <3>. QED BY <2>5, <3>1, FS_Injection
  <2>7. ASSUME NEW i \in DOMAIN steps PROVE ~ListsTwice(steps[i])
    <3>1. i \in Popped
      BY <2>5, <2>6 DEF Surjection, Injection, Popped
    <3>2. indeg[i] = 0
      BY <2>3, <3>1
    <3>3. indeg[i] = Len(steps[i].deps) - Cardinality(Popped \cap Listed(i))
      BY <2>1 DEF PopInv, OrderInv
    <3>4. Cardinality(Popped \cap Listed(i)) \in Nat /\ Len(steps[i].deps) \in Nat
      BY <2>1, ReleasedCount, StepsFacts
    <3>5. Cardinality(Popped \cap Listed(i)) = Len(steps[i].deps)
      BY <3>2, <3>3, <3>4
    <3>. QED BY <2>1, <3>5, ReleasedCount
  <2>. QED BY <2>3, <2>5, <2>7 DEF TopologicalOrders, DependencyOrders
<1>. QED BY <1>1, OrderKept, PTL

\* It raises for no plan that has an order, a chain, a diamond or a forest, as long as
\* every step lists a dependency once.
THEOREM RaisesWithCause == Spec => []RaisesOnlyWithCause
<1>1. OrderInv => RaisesOnlyWithCause
  BY DEF OrderInv, DoneInv, RaisesOnlyWithCause, TopologicalOrders
<1>. QED BY <1>1, OrderKept, PTL
=============================================================================
