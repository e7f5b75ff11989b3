---------------------------- MODULE Judgements_proofs ----------------------------
(***************************************************************************)
(* What holds of the judgements for every question.  Sums and folds are    *)
(* read from a table over the subsets of a finite set, and what is said of *)
(* them is shown by well-founded induction; the rest is arithmetic, once   *)
(* an answer on record is known to be that to the question on record.      *)
(***************************************************************************)
EXTENDS Judgements, Admission_proofs, FiniteSetTheorems, WellFoundedInduction,
        NaturalsInduction

-----------------------------------------------------------------------------
(* Tables: folds take one member of a set at a time, and read their result *)
(* from a table that has an entry for every subset.                        *)

\* Induction over the subsets of a finite set: among sets there are smallest ones.
LEMMA Smallest ==
  ASSUME NEW S, IsFiniteSet(S), NEW F, F \subseteq SUBSET S, F # {}
  PROVE  \E m \in F : \A t \in F : t \subseteq m => t = m
<1>1. FiniteSubsetsOf(S) = SUBSET S
  BY FS_FiniteSubsetsOfFinite
<1>2. IsWellFoundedOn(StrictSubsetOrdering(S), SUBSET S)
  BY <1>1, FS_StrictSubsetOrderingWellFounded
<1>3. PICK m \in F : \A t \in F : ~(<<t, m>> \in StrictSubsetOrdering(S))
  BY <1>2, WFMin
<1>. QED BY <1>3 DEF StrictSubsetOrdering

\* The entry of a set: that of the set without the member picked, taken a step further.
Entry(base, pick, step, g, s) ==
  IF s = {} THEN base ELSE step[pick[s]][g[s \ {pick[s]}]]

IsTable(base, pick, step, g, S) == g = [s \in SUBSET S |-> Entry(base, pick, step, g, s)]

Picks(pick, S) == \A s \in SUBSET S : s # {} => pick[s] \in s

LEMMA TableEntry ==
  ASSUME NEW base, NEW pick, NEW step, NEW g, NEW S, IsTable(base, pick, step, g, S),
         NEW s \in SUBSET S
  PROVE  g[s] = Entry(base, pick, step, g, s)
BY DEF IsTable

LEMMA TablesAgree ==
  ASSUME NEW base, NEW pick, NEW step, NEW S, IsFiniteSet(S), Picks(pick, S), NEW T,
         NEW g, NEW h, IsTable(base, pick, step, g, S), IsTable(base, pick, step, h, T),
         NEW s \in SUBSET S, s \subseteq T
  PROVE  g[s] = h[s]
<1> DEFINE F == {u \in SUBSET S : u \subseteq T /\ g[u] # h[u]}
<1>1. SUFFICES ASSUME F # {} PROVE FALSE
  OBVIOUS
<1>2. PICK m \in F : \A u \in F : u \subseteq m => u = m
  <2>1. F \subseteq SUBSET S
    OBVIOUS
  <2> HIDE DEF F
  <2>. QED BY <1>1, <2>1, Smallest
<1>3. g[m] = IF m = {} THEN base ELSE step[pick[m]][g[m \ {pick[m]}]]
  <2>1. g[m] = Entry(base, pick, step, g, m)
    BY <1>2, TableEntry
  <2>. QED BY <2>1 DEF Entry
<1>4. h[m] = IF m = {} THEN base ELSE step[pick[m]][h[m \ {pick[m]}]]
  <2>1. h[m] = Entry(base, pick, step, h, m)
    BY <1>2, TableEntry
  <2>. QED BY <2>1 DEF Entry
<1>5. m # {}
  BY <1>2, <1>3, <1>4
<1>6. pick[m] \in m
  BY <1>2, <1>5 DEF Picks
<1>7. m \ {pick[m]} \in SUBSET S /\ m \ {pick[m]} \subseteq T /\ m \ {pick[m]} # m
  BY <1>2, <1>6
<1>8. g[m \ {pick[m]}] = h[m \ {pick[m]}]
  BY <1>2, <1>7
<1>. QED BY <1>2, <1>3, <1>4, <1>8

LEMMA TableFound ==
  ASSUME NEW base, NEW pick, NEW step, NEW S, IsFiniteSet(S), Picks(pick, S)
  PROVE  \E g : IsTable(base, pick, step, g, S)
<1> DEFINE F == {T \in SUBSET S : ~ \E g : IsTable(base, pick, step, g, T)}
<1>1. SUFFICES ASSUME F # {} PROVE FALSE
  OBVIOUS
<1>2. PICK m \in F : \A u \in F : u \subseteq m => u = m
  <2>1. F \subseteq SUBSET S
    OBVIOUS
  <2> HIDE DEF F
  <2>. QED BY <1>1, <2>1, Smallest
<1> DEFINE tableOf(u) == CHOOSE g : IsTable(base, pick, step, g, u)
<1>3. ASSUME NEW u \in SUBSET m, u # m PROVE IsTable(base, pick, step, tableOf(u), u)
  <2>1. \E g : IsTable(base, pick, step, g, u)
    BY <1>2, <1>3
  <2>. QED BY <2>1
<1>4. \A u \in SUBSET m : u \in SUBSET S /\ (u # {} => pick[u] \in u)
  BY <1>2 DEF Picks
<1> HIDE DEF tableOf
<1> DEFINE below(u) == tableOf(u \ {pick[u]})[u \ {pick[u]}]
           g == [u \in SUBSET m |-> IF u = {} THEN base ELSE step[pick[u]][below(u)]]
<1>5. ASSUME NEW u \in SUBSET m, u # m PROVE g[u] = tableOf(u)[u]
  <2>1. tableOf(u)[u] = IF u = {} THEN base ELSE step[pick[u]][tableOf(u)[u \ {pick[u]}]]
    <3>1. tableOf(u)[u] = Entry(base, pick, step, tableOf(u), u)
      BY <1>3, <1>5, TableEntry
    <3>. QED BY <3>1 DEF Entry
  <2>2. CASE u = {}
    BY <2>1, <2>2
  <2>3. CASE u # {}
    <3> DEFINE v == u \ {pick[u]}
    <3>1. pick[u] \in u
      BY <2>3, <1>4
    <3>2. v \in SUBSET m /\ v # m /\ v \subseteq u
      BY <3>1
    <3>3. IsTable(base, pick, step, tableOf(v), v) /\ IsTable(base, pick, step, tableOf(u), u)
      BY <3>2, <1>3, <1>5
    <3>4. IsFiniteSet(v)
      BY <3>2, <1>2, FS_Subset
    <3>5. Picks(pick, v)
      BY <3>2, <1>4 DEF Picks
    <3>6. tableOf(v)[v] = tableOf(u)[v]
      BY <3>2, <3>3, <3>4, <3>5, TablesAgree
    <3>. QED BY <2>1, <2>3, <3>6
  <2>. QED BY <2>2, <2>3
<1>6. ASSUME NEW u \in SUBSET m
      PROVE  g[u] = Entry(base, pick, step, g, u)
  <2>1. CASE u = {}
    BY <2>1 DEF Entry
  <2>2. CASE u # {}
    <3>1. pick[u] \in u
      BY <2>2, <1>4
    <3>2. u \ {pick[u]} \in SUBSET m /\ u \ {pick[u]} # m
      BY <3>1
    <3>3. g[u \ {pick[u]}] = below(u)
      BY <3>2, <1>5
    <3>4. g[u] = step[pick[u]][below(u)]
      BY <2>2
    <3> HIDE DEF g, below
    <3>. QED BY <2>2, <3>3, <3>4 DEF Entry
  <2>. QED BY <2>1, <2>2
<1>7. IsTable(base, pick, step, g, m)
  <2>1. g = [u \in SUBSET m |-> g[u]]
    OBVIOUS
  <2> HIDE DEF g
  <2>. QED BY <1>6, <2>1 DEF IsTable
<1>. QED BY <1>2, <1>7

\* A table of steps within a set has its entries there.
LEMMA TableTyped ==
  ASSUME NEW base, NEW pick, NEW step, NEW S, IsFiniteSet(S), Picks(pick, S), NEW V,
         base \in V, \A x \in S : \A v \in V : step[x][v] \in V,
         NEW g, IsTable(base, pick, step, g, S), NEW s \in SUBSET S
  PROVE  g[s] \in V
<1> DEFINE F == {u \in SUBSET S : g[u] \notin V}
<1>1. SUFFICES ASSUME F # {} PROVE FALSE
  OBVIOUS
<1>2. PICK m \in F : \A u \in F : u \subseteq m => u = m
  <2>1. F \subseteq SUBSET S
    OBVIOUS
  <2> HIDE DEF F
  <2>. QED BY <1>1, <2>1, Smallest
<1>3. g[m] = IF m = {} THEN base ELSE step[pick[m]][g[m \ {pick[m]}]]
  <2>1. g[m] = Entry(base, pick, step, g, m)
    BY <1>2, TableEntry
  <2>. QED BY <2>1 DEF Entry
<1>4. m # {}
  BY <1>2, <1>3
<1>5. pick[m] \in m
  BY <1>2, <1>4 DEF Picks
<1>6. m \ {pick[m]} \in SUBSET S /\ m \ {pick[m]} \subseteq m /\ m \ {pick[m]} # m
  BY <1>2, <1>5
<1>7. g[m \ {pick[m]}] \in V
  BY <1>2, <1>6
<1>. QED BY <1>2, <1>3, <1>4, <1>5, <1>7

-----------------------------------------------------------------------------
(* Sums *)

PickOf(s) == CHOOSE x \in s : TRUE
IsSums(f, g, S) ==
  g = [s \in SUBSET S |-> IF s = {} THEN 0 ELSE f[PickOf(s)] + g[s \ {PickOf(s)}]]

\* The sum of the values a function has on a part of its domain.
SumOver(f, s) == (CHOOSE g : IsSums(f, g, DOMAIN f))[s]

LEMMA SumUnfolded ==
  ASSUME NEW f PROVE SumFunction(f) = SumOver(f, DOMAIN f)
BY DEF SumFunction, SumFunctionOnSet, FoldFunctionOnSet, MapThenFoldSet, SumOver, IsSums, PickOf

LEMMA PickIn == ASSUME NEW s, s # {} PROVE PickOf(s) \in s
BY DEF PickOf

LEMMA SumsFound ==
  ASSUME NEW S, IsFiniteSet(S), NEW f \in [S -> Int]
  PROVE  \E g : IsSums(f, g, S) /\ \A s \in SUBSET S : g[s] \in Int
<1>0. PICK zero \in Int : zero = 0
  OBVIOUS
<1> DEFINE pick == [s \in SUBSET S |-> PickOf(s)]
           step == [x \in S |-> [v \in Int |-> f[x] + v]]
<1>1. Picks(pick, S)
  BY PickIn DEF Picks
<1>2. \A x \in S : \A v \in Int : step[x][v] \in Int /\ step[x][v] = f[x] + v
  OBVIOUS
<1>3. \A s \in SUBSET S : pick[s] = PickOf(s)
  OBVIOUS
<1> HIDE DEF pick, step
<1>4. PICK g : IsTable(zero, pick, step, g, S)
  BY <1>1, TableFound
<1>5. \A s \in SUBSET S : g[s] \in Int
  BY <1>1, <1>2, <1>4, TableTyped
<1>6. ASSUME NEW s \in SUBSET S
      PROVE  g[s] = IF s = {} THEN 0 ELSE f[PickOf(s)] + g[s \ {PickOf(s)}]
  <2>1. g[s] = IF s = {} THEN 0 ELSE step[pick[s]][g[s \ {pick[s]}]]
    <3>1. g[s] = Entry(zero, pick, step, g, s)
      BY <1>4, TableEntry
    <3>. QED BY <1>0, <3>1 DEF Entry
  <2>2. ASSUME s # {} PROVE PickOf(s) \in S /\ s \ {PickOf(s)} \in SUBSET S
    BY <2>2, PickIn
  <2>. QED BY <1>2, <1>3, <1>5, <2>1, <2>2
<1>7. g = [s \in SUBSET S |-> g[s]]
  BY <1>4 DEF IsTable
<1>8. IsSums(f, g, S)
  BY <1>6, <1>7 DEF IsSums
<1>. QED BY <1>5, <1>8

LEMMA SumBegins ==
  ASSUME NEW S, IsFiniteSet(S), NEW f \in [S -> Int], NEW s \in SUBSET S
  PROVE  SumOver(f, s) = IF s = {} THEN 0 ELSE f[PickOf(s)] + SumOver(f, s \ {PickOf(s)})
<1>1. DOMAIN f = S
  OBVIOUS
<1>2. PICK g : g = CHOOSE h : IsSums(f, h, S)
  OBVIOUS
<1>3. IsSums(f, g, S)
  BY <1>2, SumsFound
<1>4. g[s] = IF s = {} THEN 0 ELSE f[PickOf(s)] + g[s \ {PickOf(s)}]
  BY <1>3 DEF IsSums
<1>. QED BY <1>1, <1>2, <1>4 DEF SumOver

LEMMA SumType ==
  ASSUME NEW S, IsFiniteSet(S), NEW f \in [S -> Int], NEW s \in SUBSET S
  PROVE  SumOver(f, s) \in Int
<1> DEFINE F == {u \in SUBSET S : SumOver(f, u) \notin Int}
<1>1. SUFFICES ASSUME F # {} PROVE FALSE
  OBVIOUS
<1>2. PICK m \in F : \A u \in F : u \subseteq m => u = m
  <2>1. F \subseteq SUBSET S
    OBVIOUS
  <2> HIDE DEF F
  <2>. QED BY <1>1, <2>1, Smallest
<1>3. DOMAIN f = S /\ m \in SUBSET S
  BY <1>2
<1>4. SumOver(f, m) = IF m = {} THEN 0 ELSE f[PickOf(m)] + SumOver(f, m \ {PickOf(m)})
  BY <1>3, SumBegins
<1>5. m # {}
  BY <1>2, <1>4
<1>6. PickOf(m) \in m
  BY <1>5, PickIn
<1>7. m \ {PickOf(m)} \in SUBSET S /\ m \ {PickOf(m)} \subseteq m /\ m \ {PickOf(m)} # m
  BY <1>3, <1>6
<1>8. SumOver(f, m \ {PickOf(m)}) \in Int
  BY <1>2, <1>7
<1>9. f[PickOf(m)] \in Int
  BY <1>3, <1>6
<1>. QED BY <1>2, <1>4, <1>5, <1>8, <1>9

\* Any member of the set may be taken first.
LEMMA SumTakes ==
  ASSUME NEW S, IsFiniteSet(S), NEW f \in [S -> Int], NEW s \in SUBSET S, NEW x \in s
  PROVE  SumOver(f, s) = f[x] + SumOver(f, s \ {x})
<1> DEFINE Works(u) == \A y \in u : SumOver(f, u) = f[y] + SumOver(f, u \ {y})
           F == {u \in SUBSET S : ~Works(u)}
<1>1. SUFFICES ASSUME F # {} PROVE FALSE
  OBVIOUS
<1>2. PICK m \in F : \A u \in F : u \subseteq m => u = m
  <2>1. F \subseteq SUBSET S
    OBVIOUS
  <2> HIDE DEF F
  <2>. QED BY <1>1, <2>1, Smallest
<1>3. DOMAIN f = S /\ m \in SUBSET S
  BY <1>2
<1>4. PICK y \in m : SumOver(f, m) # f[y] + SumOver(f, m \ {y})
  BY <1>2
<1> DEFINE p == PickOf(m)
<1>5. p \in m
  BY <1>4, PickIn
<1> HIDE DEF p
<1>6. SumOver(f, m) = f[p] + SumOver(f, m \ {p})
  BY <1>3, <1>5, SumBegins DEF p
<1>7. y # p
  BY <1>4, <1>6
<1>8. /\ m \ {p} \in SUBSET S /\ m \ {y} \in SUBSET S /\ (m \ {p}) \ {y} \in SUBSET S
      /\ m \ {p} \subseteq m /\ m \ {y} \subseteq m /\ m \ {p} # m /\ m \ {y} # m
      /\ y \in m \ {p} /\ p \in m \ {y}
      /\ (m \ {p}) \ {y} = (m \ {y}) \ {p}
  BY <1>3, <1>5, <1>7
<1>9. Works(m \ {p}) /\ Works(m \ {y})
  BY <1>2, <1>8
<1>10. SumOver(f, m \ {p}) = f[y] + SumOver(f, (m \ {p}) \ {y})
  BY <1>8, <1>9
<1>11. SumOver(f, m \ {y}) = f[p] + SumOver(f, (m \ {p}) \ {y})
  BY <1>8, <1>9
<1>12. f[p] \in Int /\ f[y] \in Int /\ SumOver(f, (m \ {p}) \ {y}) \in Int
  BY <1>3, <1>5, <1>8, SumType
<1>. QED BY <1>4, <1>6, <1>10, <1>11, <1>12

LEMMA SumOfNone ==
  ASSUME NEW S, IsFiniteSet(S), NEW f \in [S -> Int]
  PROVE  SumOver(f, {}) = 0
<1>1. DOMAIN f = S
  OBVIOUS
<1>. QED BY <1>1, SumBegins

\* What is at most as large everywhere has at most as large a sum.
LEMMA SumMonotone ==
  ASSUME NEW S, IsFiniteSet(S), NEW f \in [S -> Int], NEW g \in [S -> Int],
         \A x \in S : f[x] <= g[x]
  PROVE  /\ SumFunction(f) \in Int /\ SumFunction(g) \in Int
         /\ SumFunction(f) <= SumFunction(g)
<1> DEFINE F == {u \in SUBSET S : ~(SumOver(f, u) <= SumOver(g, u))}
<1>1. F = {}
  <2> SUFFICES ASSUME F # {} PROVE FALSE
    OBVIOUS
  <2>2. PICK m \in F : \A u \in F : u \subseteq m => u = m
    <3>1. F \subseteq SUBSET S
      OBVIOUS
    <3> HIDE DEF F
    <3>. QED BY <3>1, Smallest
  <2>3. m \in SUBSET S /\ ~(SumOver(f, m) <= SumOver(g, m))
    BY <2>2
  <2>4. m # {}
    BY <2>3, SumOfNone
  <2>5. PICK x \in m : TRUE
    BY <2>4
  <2> DEFINE r == m \ {x}
  <2>6. r \in SUBSET S /\ r \subseteq m /\ r # m
    BY <2>3, <2>5
  <2>7. SumOver(f, r) <= SumOver(g, r)
    BY <2>2, <2>6
  <2>8. SumOver(f, m) = f[x] + SumOver(f, r) /\ SumOver(g, m) = g[x] + SumOver(g, r)
    BY <2>3, <2>5, SumTakes
  <2>9. SumOver(f, r) \in Int /\ SumOver(g, r) \in Int /\ f[x] \in Int /\ g[x] \in Int
        /\ f[x] <= g[x]
    BY <2>3, <2>5, <2>6, SumType
  <2> HIDE DEF r, F
  <2>. QED BY <2>3, <2>7, <2>8, <2>9
<1>2. SumOver(f, S) <= SumOver(g, S)
  BY <1>1
<1>3. DOMAIN f = S /\ DOMAIN g = S
  OBVIOUS
<1>. QED BY <1>2, <1>3, SumUnfolded, SumType

\* Sums are linear.
LEMMA SumLinear ==
  ASSUME NEW S, IsFiniteSet(S), NEW f \in [S -> Int], NEW g \in [S -> Int],
         NEW a \in Int, NEW b \in Int, NEW h \in [S -> Int],
         \A x \in S : h[x] = a * f[x] + b * g[x]
  PROVE  SumFunction(h) = a * SumFunction(f) + b * SumFunction(g)
<1> DEFINE F == {u \in SUBSET S : SumOver(h, u) # a * SumOver(f, u) + b * SumOver(g, u)}
<1>1. F = {}
  <2> SUFFICES ASSUME F # {} PROVE FALSE
    OBVIOUS
  <2>2. PICK m \in F : \A u \in F : u \subseteq m => u = m
    <3>1. F \subseteq SUBSET S
      OBVIOUS
    <3> HIDE DEF F
    <3>. QED BY <3>1, Smallest
  <2>3. m \in SUBSET S /\ SumOver(h, m) # a * SumOver(f, m) + b * SumOver(g, m)
    BY <2>2
  <2>4. m # {}
    <3>1. SumOver(f, {}) = 0 /\ SumOver(g, {}) = 0 /\ SumOver(h, {}) = 0
      BY SumOfNone
    <3>2. a * 0 + b * 0 = 0
      OBVIOUS
    <3>. QED BY <2>3, <3>1, <3>2
  <2>5. PICK x \in m : TRUE
    BY <2>4
  <2> DEFINE r == m \ {x}
  <2>6. r \in SUBSET S /\ r \subseteq m /\ r # m
    BY <2>3, <2>5
  <2>7. SumOver(h, r) = a * SumOver(f, r) + b * SumOver(g, r)
    BY <2>2, <2>6
  <2>8. SumOver(f, m) = f[x] + SumOver(f, r) /\ SumOver(g, m) = g[x] + SumOver(g, r)
        /\ SumOver(h, m) = h[x] + SumOver(h, r)
    BY <2>3, <2>5, SumTakes
  <2>9. SumOver(f, r) \in Int /\ SumOver(g, r) \in Int /\ f[x] \in Int /\ g[x] \in Int
    BY <2>3, <2>5, <2>6, SumType
  <2>10. h[x] = a * f[x] + b * g[x]
    BY <2>3, <2>5
  <2> HIDE DEF r, F
  <2>11. a * (f[x] + SumOver(f, r)) = a * f[x] + a * SumOver(f, r)
         /\ b * (g[x] + SumOver(g, r)) = b * g[x] + b * SumOver(g, r)
    BY <2>9
  <2>12. a * f[x] \in Int /\ a * SumOver(f, r) \in Int /\ b * g[x] \in Int
         /\ b * SumOver(g, r) \in Int
    BY <2>9
  <2>. QED BY <2>3, <2>7, <2>8, <2>10, <2>11, <2>12
<1>2. SumOver(h, S) = a * SumOver(f, S) + b * SumOver(g, S)
  BY <1>1
<1>3. DOMAIN f = S /\ DOMAIN g = S /\ DOMAIN h = S
  OBVIOUS
<1>. QED BY <1>2, <1>3, SumUnfolded

\* Where a function is zero it adds nothing.
LEMMA SumWithoutZeros ==
  ASSUME NEW S, IsFiniteSet(S), NEW f \in [S -> Int], NEW T \in SUBSET S,
         NEW g \in [T -> Int], \A x \in T : g[x] = f[x], \A x \in S \ T : f[x] = 0
  PROVE  SumFunction(g) = SumFunction(f)
<1> DEFINE F == {u \in SUBSET S : SumOver(f, u) # SumOver(g, u \cap T)}
<1>0. IsFiniteSet(T)
  BY FS_Subset
<1>1. F = {}
  <2> SUFFICES ASSUME F # {} PROVE FALSE
    OBVIOUS
  <2>2. PICK m \in F : \A u \in F : u \subseteq m => u = m
    <3>1. F \subseteq SUBSET S
      OBVIOUS
    <3> HIDE DEF F
    <3>. QED BY <3>1, Smallest
  <2>3. m \in SUBSET S /\ SumOver(f, m) # SumOver(g, m \cap T)
    BY <2>2
  <2>4. m # {}
    <3>1. ASSUME m = {} PROVE m \cap T = {}
      BY <3>1
    <3>. QED BY <2>3, <3>1, <1>0, SumOfNone
  <2>5. PICK x \in m : TRUE
    BY <2>4
  <2> DEFINE r == m \ {x}
  <2>6. r \in SUBSET S /\ r \subseteq m /\ r # m
    BY <2>3, <2>5
  <2>7. SumOver(f, r) = SumOver(g, r \cap T)
    BY <2>2, <2>6
  <2>8. SumOver(f, m) = f[x] + SumOver(f, r)
    BY <2>3, <2>5, SumTakes
  <2>9. SumOver(f, r) \in Int
    BY <2>6, SumType
  <2>10. CASE x \in T
    <3>1. m \cap T \in SUBSET T /\ x \in m \cap T /\ (m \cap T) \ {x} = r \cap T
      BY <2>5, <2>10
    <3>2. SumOver(g, m \cap T) = g[x] + SumOver(g, (m \cap T) \ {x})
      BY <1>0, <3>1, SumTakes
    <3>3. g[x] = f[x]
      BY <2>10
    <3>. QED BY <2>3, <2>7, <2>8, <3>1, <3>2, <3>3
  <2>11. CASE x \notin T
    <3>1. m \cap T = r \cap T
      BY <2>5, <2>11
    <3>2. f[x] = 0
      BY <2>3, <2>5, <2>11
    <3>3. SumOver(f, m) = SumOver(f, r)
      BY <2>8, <2>9, <3>2
    <3>. QED BY <2>3, <2>7, <3>1, <3>3
  <2>. QED BY <2>10, <2>11
<1>2. SumOver(f, S) = SumOver(g, S \cap T)
  BY <1>1
<1>3. DOMAIN f = S /\ DOMAIN g = T /\ S \cap T = T
  OBVIOUS
<1>. QED BY <1>2, <1>3, SumUnfolded

-----------------------------------------------------------------------------
(* Answers on record *)

SuiteAnswered ==
  \E suite \in Suites :
    call = [what |-> "suite", suite |-> suite, answer |-> SuitePassed(suite, CostPercent)]

PlanAnswered ==
  \E start \in Starts, plan \in PlansUpTo(MaxActions) :
    call = [what |-> "plan", start |-> start, plan |-> plan,
            answer |-> PlanIsFeasible(start, plan)]

PlansAnswered ==
  \E start \in Starts, p, q \in PlansUpTo(MaxActions - 1), limit \in 0 .. 3 :
    call = [what |-> "plans", start |-> start, plans |-> <<p, q>>, limit |-> limit,
            answer |-> CounterfactualSequences(start, <<p, q>>, limit)]

WeightsAnswered ==
  \E class \in TaskClasses, stakes \in Stakes :
    call = [what |-> "weights", class |-> class, stakes |-> stakes,
            answer |-> WeightsFor(class, stakes)]

ChoiceAnswered ==
  \E candidates \in CandidateSets, class \in TaskClasses, stakes \in Stakes :
    call = [what |-> "choice", candidates |-> candidates,
            weights |-> WeightsFor(class, stakes),
            answer |-> Resolve(candidates, WeightsFor(class, stakes))]

ScoreAnswered ==
  \E claims \in UNION {[1 .. n -> Claims] : n \in 0 .. 2}, words \in SUBSET Words,
     confidence \in Confidences, severity \in Severities, friction \in 0 .. 6 :
    LET corpus == Corpus(claims, words) IN
    call = [what |-> "score", claims |-> claims, words |-> words,
            confidence |-> confidence, severity |-> severity, friction |-> friction,
            supported |-> SupportedClaims(claims, corpus),
            answer |-> SignalsPass(confidence, claims, corpus, severity, friction,
                                   PassThreshold)]

MergeAnswered ==
  \E observers \in [Observers -> Samples] :
    /\ Contributing(observers) # {}
    /\ call = [what |-> "merge", observers |-> observers, answer |-> MergedRate(observers)]

AdmitAnswered ==
  \E task \in Requests, belief \in Beliefs, novelty \in Novelties :
  \E budget \in Allocate(task) :
    call = [what |-> "admit", task |-> task, belief |-> belief, budget |-> budget,
            granted |-> Granted(task, belief, novelty),
            gates |-> Gated(task, belief, novelty)]

\* An answer on record is that to the question on record, which somebody may ask.
AnswerInv ==
  \/ call.what = "none" \/ SuiteAnswered \/ PlanAnswered \/ PlansAnswered
  \/ WeightsAnswered \/ ChoiceAnswered \/ ScoreAnswered \/ MergeAnswered
  \/ AdmitAnswered

LEMMA AnswersOnRecord == Spec => []AnswerInv
<1>1. Init => AnswerInv
  BY DEF Init, NoCall, AnswerInv
<1>2. AnswerInv /\ [Next]_call => AnswerInv'
  <2> SUFFICES ASSUME AnswerInv, [Next]_call PROVE AnswerInv'
    OBVIOUS
  <2>1. CASE Return
    BY <2>1 DEF Return, NoCall, AnswerInv
  <2>2. CASE RunSuite
    BY <2>2 DEF RunSuite, SuiteAnswered, AnswerInv
  <2>3. CASE TryPlan
    BY <2>3 DEF TryPlan, PlanAnswered, AnswerInv
  <2>4. CASE TryPlans
    BY <2>4 DEF TryPlans, PlansAnswered, AnswerInv
  <2>5. CASE Weigh
    BY <2>5 DEF Weigh, WeightsAnswered, AnswerInv
  <2>6. CASE ChooseOne
    BY <2>6 DEF ChooseOne, ChoiceAnswered, AnswerInv
  <2>7. CASE ScoreOutput
    BY <2>7 DEF ScoreOutput, ScoreAnswered, AnswerInv
  <2>8. CASE Merge
    BY <2>8 DEF Merge, MergeAnswered, AnswerInv
  <2>9. CASE Admit
    BY <2>9 DEF Admit, AdmitAnswered, AnswerInv
  <2>10. CASE UNCHANGED call
    BY <2>10 DEF AnswerInv, SuiteAnswered, PlanAnswered, PlansAnswered, WeightsAnswered,
                 ChoiceAnswered, ScoreAnswered, MergeAnswered, AdmitAnswered
  <2>. QED BY <2>1, <2>2, <2>3, <2>4, <2>5, <2>6, <2>7, <2>8, <2>9, <2>10 DEF Next
<1>. QED BY <1>1, <1>2, PTL DEF Spec

\* The kind of a call tells which question was asked.
LEMMA AnswerOf ==
  ASSUME AnswerInv
  PROVE  /\ call.what = "suite" => SuiteAnswered
         /\ call.what = "plan" => PlanAnswered
         /\ call.what = "plans" => PlansAnswered
         /\ call.what = "weights" => WeightsAnswered
         /\ call.what = "choice" => ChoiceAnswered
         /\ call.what = "score" => ScoreAnswered
         /\ call.what = "merge" => MergeAnswered
         /\ call.what = "admit" => AdmitAnswered
<1>1. SuiteAnswered => call.what = "suite"
  BY DEF SuiteAnswered
<1>2. WeightsAnswered => call.what = "weights"
  BY DEF WeightsAnswered
<1>3. ChoiceAnswered => call.what = "choice"
  BY DEF ChoiceAnswered
<1>4. ScoreAnswered => call.what = "score"
  BY DEF ScoreAnswered
<1>5. MergeAnswered => call.what = "merge"
  BY DEF MergeAnswered
<1>6. PlanAnswered => call.what = "plan"
  BY DEF PlanAnswered
<1>7. PlansAnswered => call.what = "plans"
  BY DEF PlansAnswered
<1>8. AdmitAnswered => call.what = "admit"
  BY DEF AdmitAnswered
<1>. QED BY <1>1, <1>2, <1>3, <1>4, <1>5, <1>6, <1>7, <1>8 DEF AnswerInv

-----------------------------------------------------------------------------
(* Admission *)

\* What was granted on record.
GrantRecorded ==
  /\ call.task \in Tasks /\ call.belief \in Capabilities
  /\ call.budget \in Allocate(call.task)
  /\ \E novelty \in Nat :
       /\ call.granted = Granted(call.task, call.belief, novelty)
       /\ call.gates = Gated(call.task, call.belief, novelty)

LEMMA GrantOnRecord ==
  ASSUME AnswerInv, call.what = "admit" PROVE GrantRecorded
<1>1. PICK task \in Requests, belief \in Beliefs, novelty \in Novelties :
      \E budget \in Allocate(task) :
        call = [what |-> "admit", task |-> task, belief |-> belief, budget |-> budget,
                granted |-> Granted(task, belief, novelty),
                gates |-> Gated(task, belief, novelty)]
  BY AnswerOf DEF AdmitAnswered
<1>2. task \in Tasks /\ belief \in Capabilities /\ novelty \in Nat
  BY JudgementsConfig
<1>3. call.task = task /\ call.belief = belief /\ call.budget \in Allocate(task)
      /\ call.granted = Granted(task, belief, novelty)
      /\ call.gates = Gated(task, belief, novelty)
  BY <1>1
<1>. QED BY <1>2, <1>3 DEF GrantRecorded

\* Every budget handed out adds up, has no negative part and respects the ceiling.
THEOREM BudgetsFit == Spec => []BudgetFits
<1>1. AnswerInv => BudgetFits
  BY GrantOnRecord, AllocateFits DEF GrantRecorded, BudgetFits
<1>. QED BY <1>1, AnswersOnRecord, PTL

\* The same task at higher stakes never gets fewer tokens, and never loses the
\* verification it had, whenever the multipliers rise with the stakes.
THEOREM HigherStakesNeverCost ==
  ASSUME MultipliersRise
  PROVE  Spec => []StakesMonotone
<1>1. AnswerInv => StakesMonotone
  <2> SUFFICES ASSUME AnswerInv, call.what = "admit", NEW s \in Below[call.task.stakes]
               PROVE  LET lesser == Lowered(call.task, s) IN
                      /\ \A b \in Allocate(lesser) : b.total <= call.budget.total
                      /\ Granted(lesser, call.belief, 0).verification
                           => call.granted.verification
    BY DEF StakesMonotone
  <2> DEFINE lesser == Lowered(call.task, s)
  <2>1. call.task \in Tasks /\ GrantRecorded
    BY GrantOnRecord DEF GrantRecorded
  <2>2. ASSUME NEW b \in Allocate(lesser) PROVE b.total <= call.budget.total
    <3>1. PICK m \in Totals(lesser) : b = SplitTotal(m)
      BY DEF Allocate
    <3>2. PICK n \in Totals(call.task) : call.budget = SplitTotal(n)
      BY <2>1 DEF GrantRecorded, Allocate
    <3>3. m <= n
      BY <2>1, TotalsRise
    <3>. QED BY <3>1, <3>2, <3>3 DEF SplitTotal
  <2>3. Granted(lesser, call.belief, 0).verification => call.granted.verification
    BY <2>1, VerificationRises DEF GrantRecorded
  <2>. QED BY <2>2, <2>3
<1>. QED BY <1>1, AnswersOnRecord, PTL

\* The two components apply the same rule: routing never moves the gate.
THEOREM RouterConfirms == Spec => []RouterConfirmsScheduler
<1>1. AnswerInv => RouterConfirmsScheduler
  BY GrantOnRecord, GateConfirmed DEF GrantRecorded, RouterConfirmsScheduler
<1>. QED BY <1>1, AnswersOnRecord, PTL

\* No task runs unverified unless its stakes are below high and its class is known
\* to win more than 85 percent of the time.
THEOREM SkipsEarned == Spec => []VerificationEarned
<1>1. AnswerInv => VerificationEarned
  <2> SUFFICES ASSUME AnswerInv, call.what = "admit", ~call.gates.verification
               PROVE  /\ call.task.stakes \in {"low", "medium"}
                      /\ call.belief.known /\ call.belief.rate > 8500
    BY DEF VerificationEarned
  <2>1. PICK novelty \in Nat : call.gates = Gated(call.task, call.belief, novelty)
    BY GrantOnRecord DEF GrantRecorded
  <2>2. call.task \in Tasks /\ call.belief \in Capabilities
    BY GrantOnRecord DEF GrantRecorded
  <2>3. ~Granted(call.task, call.belief, novelty).verification
    BY <2>1, <2>2, GateConfirmed
  <2>. QED BY <2>2, <2>3, ClosedGateEarned
<1>. QED BY <1>1, AnswersOnRecord, PTL

-----------------------------------------------------------------------------
(* Evidence *)

LEMMA ProductMonotone ==
  ASSUME NEW x \in Nat, NEW y \in Nat, NEW u \in Nat, NEW v \in Nat, x <= y, u <= v
  PROVE  x * u <= y * v /\ x * u \in Nat
<1>1. x * u <= y * u
  OBVIOUS
<1>2. y * u <= y * v
  OBVIOUS
<1>. QED BY <1>1, <1>2

LEMMA SeqFromDomain ==
  ASSUME NEW S, NEW n \in Nat, NEW f \in [1 .. n -> S]
  PROVE  f \in Seq(S) /\ Len(f) = n /\ DOMAIN f = 1 .. n
OBVIOUS

LEMMA OwnWordsSupport ==
  ASSUME NEW claim \in Claims, claim # {}, NEW corpus, claim \subseteq corpus
  PROVE  Supported(claim, corpus)
<1>1. claim \subseteq Words /\ IsFiniteSet(Words)
  BY JudgementsConfig
<1>2. IsFiniteSet(claim)
  BY <1>1, FS_Subset
<1>3. Cardinality(claim) \in Nat
  BY <1>2, FS_CardinalityType
<1>4. claim \cap corpus = claim
  OBVIOUS
<1>5. 2 * Cardinality(claim) >= Cardinality(claim)
  BY <1>3
<1>. QED BY <1>4, <1>5 DEF Supported

\* Whatever was surfaced, exactly the claims with a word are supported.
LEMMA EveryClaimSupported ==
  ASSUME NEW n, NEW claims \in [1 .. n -> Claims], NEW surfaced
  PROVE  SupportedClaims(claims, Corpus(claims, surfaced)) = {k \in DOMAIN claims : claims[k] # {}}
<1> DEFINE corpus == Corpus(claims, surfaced)
<1>1. ASSUME NEW k \in DOMAIN claims PROVE claims[k] \in Claims /\ claims[k] \subseteq corpus
  BY DEF Corpus
<1> HIDE DEF corpus
<1>2. ASSUME NEW k \in DOMAIN claims, claims[k] # {} PROVE Supported(claims[k], corpus)
  BY <1>1, <1>2, OwnWordsSupport
<1>3. ASSUME NEW k \in DOMAIN claims, Supported(claims[k], corpus) PROVE claims[k] # {}
  BY <1>3 DEF Supported
<1>4. SupportedClaims(claims, corpus) = {k \in DOMAIN claims : claims[k] # {}}
  BY <1>2, <1>3 DEF SupportedClaims
<1>. QED BY <1>4 DEF corpus

\* What the penalty of friction takes from the scaled score of n claims.
LEMMA PenaltyRises ==
  ASSUME NEW friction \in Nat, NEW n \in Nat
  PROVE  /\ 100 * FrictionPenalty(friction) * n \in Nat
         /\ 100 * FrictionPenalty(friction + 1) * n \in Nat
         /\ 100 * FrictionPenalty(friction) * n <= 100 * FrictionPenalty(friction + 1) * n
<1>1. /\ FrictionPenalty(friction) \in Nat /\ FrictionPenalty(friction + 1) \in Nat
      /\ FrictionPenalty(friction) <= FrictionPenalty(friction + 1)
  BY DEF FrictionPenalty
<1>2. 100 * FrictionPenalty(friction) \in Nat /\ 100 * FrictionPenalty(friction + 1) \in Nat
      /\ 100 * FrictionPenalty(friction) <= 100 * FrictionPenalty(friction + 1)
  BY <1>1
<1> DEFINE a == 100 * FrictionPenalty(friction)  b == 100 * FrictionPenalty(friction + 1)
<1> HIDE DEF a, b
<1>3. a \in Nat /\ b \in Nat /\ a <= b
  BY <1>2 DEF a, b
<1>4. a * n \in Nat /\ a * n <= b * n /\ b * n \in Nat
  BY <1>3, ProductMonotone
<1>. QED BY <1>4 DEF a, b

ManyOf(claims) == IF claims = <<>> THEN 1 ELSE Len(claims)
SupportOf(claims, corpus) ==
  IF claims = <<>> THEN 1 ELSE Cardinality(SupportedClaims(claims, corpus))

LEMMA ScoreUnfolded ==
  ASSUME NEW confidence, NEW claims, NEW corpus, NEW severity, NEW friction
  PROVE  ScaledScore(confidence, claims, corpus, severity, friction)
           = 40 * confidence * ManyOf(claims) + 3500 * SupportOf(claims, corpus)
               + 25 * (100 - severity) * ManyOf(claims)
               - 100 * FrictionPenalty(friction) * ManyOf(claims)
BY DEF ScaledScore, ManyOf, SupportOf

\* The same support under more friction never scores higher.
LEMMA FrictionLowersScore ==
  ASSUME NEW n \in Nat, NEW claims \in [1 .. n -> Claims], NEW c1, NEW c2,
         SupportedClaims(claims, c1) = SupportedClaims(claims, c2),
         NEW confidence \in 0 .. 100, NEW severity \in 0 .. 100, NEW friction \in Nat
  PROVE  /\ ScaledScore(confidence, claims, c1, severity, friction) \in Int
         /\ ScaledScore(confidence, claims, c2, severity, friction + 1) \in Int
         /\ ScaledScore(confidence, claims, c2, severity, friction + 1)
              <= ScaledScore(confidence, claims, c1, severity, friction)
<1> DEFINE many       == ManyOf(claims)
           support    == SupportOf(claims, c1)
           confident  == 40 * confidence * many
           coherent   == 25 * (100 - severity) * many
           lost(f)    == 100 * FrictionPenalty(f) * many
<1>1. claims \in Seq(Claims) /\ Len(claims) = n /\ IsFiniteSet(DOMAIN claims)
  BY SeqFromDomain, FS_Interval
<1>2. many \in Nat
  BY <1>1 DEF ManyOf
<1>3. support \in Nat
  <2>1. SupportedClaims(claims, c1) \subseteq DOMAIN claims
    BY DEF SupportedClaims
  <2>2. Cardinality(SupportedClaims(claims, c1)) \in Nat
    BY <1>1, <2>1, FS_Subset, FS_CardinalityType
  <2>. QED BY <2>2 DEF SupportOf
<1>4. support = SupportOf(claims, c2)
  BY DEF SupportOf
<1>5. /\ ScaledScore(confidence, claims, c1, severity, friction)
           = confident + 3500 * support + coherent - lost(friction)
      /\ ScaledScore(confidence, claims, c2, severity, friction + 1)
           = confident + 3500 * support + coherent - lost(friction + 1)
  BY <1>4, ScoreUnfolded
<1> HIDE DEF many, support
<1>6. confident \in Int /\ coherent \in Int
  BY <1>2
<1>7. lost(friction) \in Nat /\ lost(friction + 1) \in Nat /\ lost(friction) <= lost(friction + 1)
  BY <1>2, PenaltyRises
<1> HIDE DEF confident, coherent, lost
<1>. QED BY <1>3, <1>5, <1>6, <1>7

\* The signals of an output on record.
ScoreRecorded ==
  /\ \E n \in 0 .. 2 : call.claims \in [1 .. n -> Claims]
  /\ call.confidence \in 0 .. 100 /\ call.severity \in 0 .. 100 /\ call.friction \in Nat
  /\ call.answer <=> SignalsPass(call.confidence, call.claims, Corpus(call.claims, call.words),
                                 call.severity, call.friction, PassThreshold)

LEMMA ScoreOnRecord ==
  ASSUME AnswerInv, call.what = "score" PROVE ScoreRecorded
<1>1. PICK claims \in UNION {[1 .. n -> Claims] : n \in 0 .. 2}, words \in SUBSET Words,
           confidence \in Confidences, severity \in Severities, friction \in 0 .. 6 :
       call = [what |-> "score", claims |-> claims, words |-> words,
               confidence |-> confidence, severity |-> severity, friction |-> friction,
               supported |-> SupportedClaims(claims, Corpus(claims, words)),
               answer |-> SignalsPass(confidence, claims, Corpus(claims, words),
                                      severity, friction, PassThreshold)]
  BY AnswerOf DEF ScoreAnswered
<1>2. PICK n \in 0 .. 2 : claims \in [1 .. n -> Claims]
  OBVIOUS
<1>3. call.claims = claims /\ call.words = words /\ call.confidence = confidence
      /\ call.severity = severity /\ call.friction = friction
  BY <1>1
<1>4. call.answer = SignalsPass(confidence, claims, Corpus(claims, words),
                                severity, friction, PassThreshold)
  BY <1>1
<1>5. confidence \in 0 .. 100 /\ severity \in 0 .. 100 /\ friction \in Nat
  BY JudgementsConfig
<1>. QED BY <1>2, <1>3, <1>4, <1>5 DEF ScoreRecorded

\* One more failed tool call never lets a rejected output pass, for any claims, words,
\* confidence, severity, friction and threshold.
THEOREM FailureCannotHelp == Spec => []FailureNeverHelps
<1>1. AnswerInv => FailureNeverHelps
  <2> SUFFICES ASSUME AnswerInv, call.what = "score", ~call.answer, NEW more \in SUBSET Words
               PROVE  ~SignalsPass(call.confidence, call.claims,
                                   Corpus(call.claims, call.words \cup more),
                                   call.severity, call.friction + 1, PassThreshold)
    BY DEF FailureNeverHelps
  <2> DEFINE before == Corpus(call.claims, call.words)
             after  == Corpus(call.claims, call.words \cup more)
             many   == IF call.claims = <<>> THEN 1 ELSE Len(call.claims)
  <2>1. ScoreRecorded
    BY ScoreOnRecord
  <2>2. PICK n \in 0 .. 2 : call.claims \in [1 .. n -> Claims]
    BY <2>1 DEF ScoreRecorded
  <2>3. SupportedClaims(call.claims, before) = SupportedClaims(call.claims, after)
    <3>1. SupportedClaims(call.claims, before) = {k \in DOMAIN call.claims : call.claims[k] # {}}
      BY <2>2, EveryClaimSupported
    <3>2. SupportedClaims(call.claims, after) = {k \in DOMAIN call.claims : call.claims[k] # {}}
      BY <2>2, EveryClaimSupported
    <3>. QED BY <3>1, <3>2
  <2> DEFINE first  == ScaledScore(call.confidence, call.claims, before, call.severity,
                                   call.friction)
             second == ScaledScore(call.confidence, call.claims, after, call.severity,
                                   call.friction + 1)
             bound  == 100 * PassThreshold * many
  <2>4. ~(first >= bound)
    BY <2>1 DEF ScoreRecorded, SignalsPass
  <2> HIDE DEF before, after
  <2>5. first \in Int /\ second \in Int /\ second <= first
    <3>1. call.confidence \in 0 .. 100 /\ call.severity \in 0 .. 100 /\ call.friction \in Nat
          /\ n \in Nat
      BY <2>1 DEF ScoreRecorded
    <3>. QED BY <2>2, <2>3, <3>1, FrictionLowersScore
  <2>6. bound \in Int
    <3>1. many \in Nat
      BY <2>2, SeqFromDomain
    <3>. QED BY <3>1, JudgementsConfig
  <2> HIDE DEF first, second, bound
  <2>7. ~(second >= bound)
    BY <2>4, <2>5, <2>6
  <2>. QED BY <2>7 DEF SignalsPass, second, bound, after
<1>. QED BY <1>1, AnswersOnRecord, PTL

-----------------------------------------------------------------------------
(* Regressions *)

\* With less of a gap between the two, the gap counts for less of the spread.
LEMMA GapAgainstSpread ==
  ASSUME NEW x \in Nat, NEW y \in Nat, NEW g \in Nat, x <= y
  PROVE  x * (y + g) <= (x + g) * y
<1>1. x * (y + g) = x * y + x * g /\ (x + g) * y = x * y + g * y
  OBVIOUS
<1>2. x * g <= y * g
  BY ProductMonotone
<1>. QED BY <1>1, <1>2

LEMMA DividedOut ==
  ASSUME NEW p \in Nat, NEW q \in Nat, NEW r \in Nat, p * r > q * r
  PROVE  p > q
<1>1. CASE p <= q
  BY <1>1, ProductMonotone
<1>. QED BY <1>1

\* _statistically_regressed: of two candidates held against the same baseline, the one
\* that passes more cases is not the one that regressed.
THEOREM RegressionMonotone ==
  ASSUME NEW n \in Nat, NEW b \in 0 .. n, NEW c \in Nat, NEW d \in Nat,
         c <= d, Regressed(n, b, d)
  PROVE  Regressed(n, b, c)
<1> DEFINE x == b - d  y == 2 * n - b - d  g == d - c
           x1 == b - c  y1 == 2 * n - b - c  s == b + d  s1 == b + c
<1>1. d < b /\ 80000 * n * (x * x) > 108241 * (s * y)
  BY DEF Regressed
<1>2. x \in Nat /\ y \in Nat /\ g \in Nat /\ s \in Nat /\ s1 \in Nat
      /\ x1 \in Nat /\ y1 \in Nat /\ x <= y /\ x <= x1 /\ s1 <= s
      /\ x1 = x + g /\ y1 = y + g /\ s1 > 0 /\ y1 > 0 /\ s > 0 /\ y > 0
  BY <1>1
<1> HIDE DEF x, y, g, x1, y1, s, s1
<1>3. x * y1 <= x1 * y
  BY <1>2, GapAgainstSpread
<1>4. x * s1 <= x1 * s
  BY <1>2, ProductMonotone
<1>5. (x * y1) * (x * s1) <= (x1 * y) * (x1 * s)
  <2>1. x * y1 \in Nat /\ x1 * y \in Nat /\ x * s1 \in Nat /\ x1 * s \in Nat
    BY <1>2
  <2>. QED BY <1>3, <1>4, <2>1, ProductMonotone
<1>6. (x * x) * (s1 * y1) <= (x1 * x1) * (s * y)
  <2>1. (x * x) * (s1 * y1) = (x * y1) * (x * s1)
    BY <1>2
  <2>2. (x1 * x1) * (s * y) = (x1 * y) * (x1 * s)
    BY <1>2
  <2>. QED BY <1>5, <2>1, <2>2
<1> DEFINE p == x * x  p1 == x1 * x1  q == s * y  q1 == s1 * y1  k == 80000 * n
<1>7. p \in Nat /\ p1 \in Nat /\ q \in Nat /\ q1 \in Nat /\ k \in Nat /\ q1 > 0 /\ q > 0
  BY <1>2
<1>8. p * q1 <= p1 * q /\ k * p > 108241 * q
  BY <1>1, <1>6
<1>9. c < b
  BY <1>1
<1> HIDE DEF p, p1, q, q1, k
<1>10. (k * p1) * q > (108241 * q1) * q
  <2>1. k * (p * q1) <= k * (p1 * q)
    <3>1. p * q1 \in Nat /\ p1 * q \in Nat /\ k <= k
      BY <1>7
    <3>. QED BY <1>7, <1>8, <3>1, ProductMonotone
  <2>2. (k * p) * q1 > (108241 * q) * q1
    <3>1. k * p >= 108241 * q + 1 /\ k * p \in Nat /\ 108241 * q + 1 \in Nat
      BY <1>7, <1>8
    <3>2. (108241 * q + 1) * q1 <= (k * p) * q1
      BY <1>7, <3>1, ProductMonotone
    <3>3. (108241 * q + 1) * q1 = (108241 * q) * q1 + q1
      BY <1>7
    <3>4. (108241 * q) * q1 \in Nat
      BY <1>7
    <3>. QED BY <1>7, <3>1, <3>2, <3>3, <3>4
  <2>3. k * (p * q1) = (k * p) * q1 /\ k * (p1 * q) = (k * p1) * q
        /\ (108241 * q1) * q = (108241 * q) * q1
    BY <1>7
  <2>. QED BY <1>7, <2>1, <2>2, <2>3
<1>11. k * p1 > 108241 * q1
  <2>1. k * p1 \in Nat /\ 108241 * q1 \in Nat
    BY <1>7
  <2>. QED BY <1>7, <1>10, <2>1, DividedOut
<1>12. 80000 * n * (x1 * x1) > 108241 * (s1 * y1)
  BY <1>11 DEF k, p1, q1
<1>. QED BY <1>9, <1>12 DEF Regressed, x1, s1, y1

-----------------------------------------------------------------------------
(* Suites *)

LEMMA PassesCounted ==
  ASSUME NEW suite \in Suites, NEW type
  PROVE  /\ IsFiniteSet(OfType(suite, type))
         /\ Cardinality(OfType(suite, type)) \in Nat
         /\ BaselinePasses(suite, type) \in 0 .. Cardinality(OfType(suite, type))
         /\ CandidatePasses(suite, type) \in Nat
<1>1. suite \in Seq(Entries)
  BY JudgementsConfig
<1>2. DOMAIN suite = 1 .. Len(suite) /\ Len(suite) \in Nat
  BY <1>1
<1>3. IsFiniteSet(DOMAIN suite)
  BY <1>2, FS_Interval
<1>4. OfType(suite, type) \subseteq DOMAIN suite
  BY DEF OfType
<1>5. IsFiniteSet(OfType(suite, type)) /\ Cardinality(OfType(suite, type)) \in Nat
  BY <1>3, <1>4, FS_Subset, FS_CardinalityType
<1>6. \A T \in SUBSET OfType(suite, type) :
        Cardinality(T) \in Nat /\ Cardinality(T) <= Cardinality(OfType(suite, type))
  BY <1>5, FS_Subset, FS_CardinalityType
<1>7. BaselinePasses(suite, type) \in Nat
      /\ BaselinePasses(suite, type) <= Cardinality(OfType(suite, type))
  BY <1>6 DEF BaselinePasses
<1>8. CandidatePasses(suite, type) \in Nat
  BY <1>6 DEF CandidatePasses
<1>. QED BY <1>5, <1>7, <1>8

\* What replacing one trace of the candidate changes.
LEMMA OneTraceReplaced ==
  ASSUME NEW suite \in Suites, NEW k \in DOMAIN suite, NEW t
  PROVE  /\ DOMAIN With(suite, k, t) = DOMAIN suite
         /\ \A j \in DOMAIN suite :
              /\ With(suite, k, t)[j].case = suite[j].case
              /\ With(suite, k, t)[j].baseline = suite[j].baseline
              /\ With(suite, k, t)[j].candidate = IF j = k THEN t ELSE suite[j].candidate
<1>1. suite \in Seq(Entries)
  BY JudgementsConfig
<1>2. \A j \in DOMAIN suite : suite[j] \in Entries
  BY <1>1
<1>3. With(suite, k, t) = [j \in DOMAIN suite |->
        IF j = k THEN [suite[j] EXCEPT !.candidate = t] ELSE suite[j]]
  BY DEF With
<1>4. [suite[k] EXCEPT !.candidate = t].case = suite[k].case
      /\ [suite[k] EXCEPT !.candidate = t].baseline = suite[k].baseline
      /\ [suite[k] EXCEPT !.candidate = t].candidate = t
  BY <1>2 DEF Entries
<1>. QED BY <1>3, <1>4

LEMMA ReplacedPasses ==
  ASSUME NEW suite \in Suites, NEW k \in DOMAIN suite, NEW t,
         CasePassed(suite[k].case, t), NEW type
  PROVE  /\ OfType(With(suite, k, t), type) = OfType(suite, type)
         /\ BaselinePasses(With(suite, k, t), type) = BaselinePasses(suite, type)
         /\ CandidatePasses(With(suite, k, t), type) \in Nat
         /\ CandidatePasses(suite, type) <= CandidatePasses(With(suite, k, t), type)
<1> DEFINE new == With(suite, k, t)
           cases == OfType(suite, type)
           won == {j \in cases : CasePassed(suite[j].case, suite[j].candidate)}
           won1 == {j \in cases : CasePassed(new[j].case, new[j].candidate)}
<1>1. DOMAIN new = DOMAIN suite
      /\ \A j \in DOMAIN suite : /\ new[j].case = suite[j].case
                                 /\ new[j].baseline = suite[j].baseline
                                 /\ new[j].candidate = IF j = k THEN t ELSE suite[j].candidate
  BY OneTraceReplaced
<1> HIDE DEF new
<1>2. cases \subseteq DOMAIN suite
  BY DEF OfType
<1>3. OfType(new, type) = cases
  BY <1>1 DEF OfType
<1> HIDE DEF cases
<1>4. {j \in cases : CasePassed(new[j].case, new[j].baseline)}
        = {j \in cases : CasePassed(suite[j].case, suite[j].baseline)}
  BY <1>1, <1>2
<1>5. BaselinePasses(new, type) = BaselinePasses(suite, type)
  BY <1>3, <1>4 DEF BaselinePasses, cases
<1>6. won \subseteq won1
  BY <1>1, <1>2
<1>7. IsFiniteSet(cases) /\ won1 \subseteq cases
  BY PassesCounted DEF cases
<1>8. IsFiniteSet(won1) /\ Cardinality(won1) \in Nat
  BY <1>7, FS_Subset, FS_CardinalityType
<1>9. Cardinality(won) <= Cardinality(won1)
  BY <1>6, <1>8, FS_Subset
<1>10. CandidatePasses(new, type) = Cardinality(won1)
  BY <1>3 DEF CandidatePasses
<1>11. CandidatePasses(suite, type) = Cardinality(won)
  BY DEF CandidatePasses, cases
<1>. QED BY <1>3, <1>5, <1>8, <1>9, <1>10, <1>11 DEF new, cases

LEMMA NewlyRegressed ==
  ASSUME NEW suite \in Suites, NEW k \in DOMAIN suite, NEW t,
         CasePassed(suite[k].case, t), RegressedTypes(suite) = {}
  PROVE  RegressedTypes(With(suite, k, t)) = {}
<1> DEFINE new == With(suite, k, t)
<1>1. SUFFICES ASSUME NEW type \in RegressedTypes(new) PROVE FALSE
  OBVIOUS
<1>2. type \in EvalTypes \ {"target_task"} /\ OfType(new, type) # {}
      /\ Regressed(Cardinality(OfType(new, type)), BaselinePasses(new, type),
                   CandidatePasses(new, type))
  BY <1>1 DEF RegressedTypes
<1>3. /\ OfType(new, type) = OfType(suite, type)
      /\ BaselinePasses(new, type) = BaselinePasses(suite, type)
      /\ CandidatePasses(new, type) \in Nat
      /\ CandidatePasses(suite, type) <= CandidatePasses(new, type)
  BY ReplacedPasses
<1> HIDE DEF new
<1>4. Regressed(Cardinality(OfType(suite, type)), BaselinePasses(suite, type),
                CandidatePasses(new, type))
  BY <1>2, <1>3
<1>5. Regressed(Cardinality(OfType(suite, type)), BaselinePasses(suite, type),
                CandidatePasses(suite, type))
  <2>1. /\ Cardinality(OfType(suite, type)) \in Nat
        /\ BaselinePasses(suite, type) \in 0 .. Cardinality(OfType(suite, type))
        /\ CandidatePasses(suite, type) \in Nat
    BY PassesCounted
  <2>. QED BY <2>1, <1>3, <1>4, RegressionMonotone
<1>6. type \in RegressedTypes(suite)
  BY <1>2, <1>3, <1>5 DEF RegressedTypes
<1>. QED BY <1>6

LEMMA NotDearer ==
  ASSUME NEW suite \in Suites, NEW k \in DOMAIN suite, NEW t \in OtherTraces,
         t.tokens <= suite[k].candidate.tokens, ~CostRegressed(suite, CostPercent)
  PROVE  ~CostRegressed(With(suite, k, t), CostPercent)
<1> DEFINE new == With(suite, k, t)
           target == OfType(suite, "target_task")
           base == [j \in target |-> suite[j].baseline.tokens]
           cost == [j \in target |-> suite[j].candidate.tokens]
           base1 == [j \in target |-> new[j].baseline.tokens]
           cost1 == [j \in target |-> new[j].candidate.tokens]
<1>1. DOMAIN new = DOMAIN suite
      /\ \A j \in DOMAIN suite : /\ new[j].case = suite[j].case
                                 /\ new[j].baseline = suite[j].baseline
                                 /\ new[j].candidate = IF j = k THEN t ELSE suite[j].candidate
  BY OneTraceReplaced
<1>2. OfType(new, "target_task") = target
  BY <1>1 DEF OfType
<1> HIDE DEF new
<1>3. target \subseteq DOMAIN suite /\ IsFiniteSet(target)
  BY PassesCounted DEF OfType
<1> HIDE DEF target
<1>4. \A j \in DOMAIN suite : suite[j] \in Entries
  <2>1. suite \in Seq(Entries)
    BY JudgementsConfig
  <2>. QED BY <2>1
<1>5. t.tokens \in Nat
  BY JudgementsConfig DEF CaseTraces
<1>6. \A j \in DOMAIN suite : suite[j].baseline.tokens \in Nat
                              /\ suite[j].candidate.tokens \in Nat
  BY <1>4 DEF Entries, CaseTraces
<1>7. base1 = base
  BY <1>1, <1>3
<1>8. \A j \in target : cost1[j] <= cost[j] /\ cost1[j] \in Int
  BY <1>1, <1>3, <1>5, <1>6
<1>9. base \in [target -> Int] /\ cost \in [target -> Int] /\ cost1 \in [target -> Int]
  BY <1>3, <1>6, <1>8
<1> DEFINE b == SumFunction(base)  c == SumFunction(cost)  c1 == SumFunction(cost1)
<1>10. c1 <= c /\ c1 \in Int /\ c \in Int
  <2> HIDE DEF cost, cost1
  <2>. QED BY <1>3, <1>8, <1>9, SumMonotone
<1>11. b \in Int
  <2>1. \A j \in target : base[j] <= base[j]
    BY <1>9
  <2> HIDE DEF base
  <2>. QED BY <1>3, <1>9, <2>1, SumMonotone
<1>12. CostRegressed(suite, CostPercent) <=> b > 0 /\ 100 * (c - b) > CostPercent * b
  BY DEF CostRegressed, target
<1>13. CostRegressed(new, CostPercent) <=> b > 0 /\ 100 * (c1 - b) > CostPercent * b
  BY <1>2, <1>7 DEF CostRegressed
<1> HIDE DEF b, c, c1
<1>14. CostPercent * b \in Int
  BY <1>11, JudgementsConfig
<1>. QED BY <1>10, <1>11, <1>12, <1>13, <1>14 DEF new

\* run_suite(), for every suite and every trace: a candidate that passes the gate still
\* passes it when it does better on a case at no higher cost.
THEOREM GateNeverPunishesBetter == Spec => []GateMonotone
<1>1. AnswerInv => GateMonotone
  <2> SUFFICES ASSUME AnswerInv, call.what = "suite", call.answer,
                      NEW k \in DOMAIN call.suite, NEW t \in OtherTraces,
                      CasePassed(call.suite[k].case, t),
                      t.tokens <= call.suite[k].candidate.tokens
               PROVE  SuitePassed(With(call.suite, k, t), CostPercent)
    BY DEF GateMonotone
  <2>1. SuiteAnswered
    BY AnswerOf
  <2>2. call.suite \in Suites /\ SuitePassed(call.suite, CostPercent)
    BY <2>1 DEF SuiteAnswered
  <2>3. TargetImproved(With(call.suite, k, t))
    <3>1. CandidatePasses(call.suite, "target_task")
            > BaselinePasses(call.suite, "target_task")
      BY <2>2 DEF SuitePassed, TargetImproved
    <3>2. /\ BaselinePasses(With(call.suite, k, t), "target_task")
               = BaselinePasses(call.suite, "target_task")
          /\ CandidatePasses(With(call.suite, k, t), "target_task") \in Nat
          /\ CandidatePasses(call.suite, "target_task")
               <= CandidatePasses(With(call.suite, k, t), "target_task")
      BY <2>2, ReplacedPasses
    <3>3. CandidatePasses(call.suite, "target_task") \in Nat
          /\ BaselinePasses(call.suite, "target_task") \in Int
      BY <2>2, PassesCounted
    <3>. QED BY <3>1, <3>2, <3>3 DEF TargetImproved
  <2>4. RegressedTypes(With(call.suite, k, t)) = {}
    BY <2>2, NewlyRegressed DEF SuitePassed
  <2>5. ~CostRegressed(With(call.suite, k, t), CostPercent)
    BY <2>2, NotDearer DEF SuitePassed
  <2>. QED BY <2>3, <2>4, <2>5 DEF SuitePassed
<1>. QED BY <1>1, AnswersOnRecord, PTL

-----------------------------------------------------------------------------
(* Weights *)

LEMMA NineObjectives ==
  /\ Objectives = {"truthfulness", "task_success", "calibration", "helpfulness", "efficiency",
                   "latency", "robustness", "originality", "learning_value"}
  /\ IsFiniteSet(Objectives)
<1>1. Objectives = {"truthfulness", "task_success", "calibration", "helpfulness", "efficiency",
                    "latency", "robustness", "originality", "learning_value"}
  BY DEF Objectives, Defaults
<1>2. IsFiniteSet({"truthfulness", "task_success", "calibration", "helpfulness"}
                  \cup {"efficiency", "latency", "robustness"}
                  \cup {"originality", "learning_value"})
  <2>1. IsFiniteSet({} \cup {"truthfulness"} \cup {"task_success"} \cup {"calibration"}
                    \cup {"helpfulness"} \cup {"efficiency"} \cup {"latency"}
                    \cup {"robustness"} \cup {"originality"} \cup {"learning_value"})
    <3> DEFINE few  == {} \cup {"truthfulness"} \cup {"task_success"} \cup {"calibration"}
               more == few \cup {"helpfulness"} \cup {"efficiency"} \cup {"latency"}
    <3>1. IsFiniteSet(few)
      BY FS_EmptySet, FS_AddElement
    <3> HIDE DEF few
    <3>2. IsFiniteSet(more)
      BY <3>1, FS_AddElement
    <3> HIDE DEF more
    <3>3. IsFiniteSet(more \cup {"robustness"} \cup {"originality"} \cup {"learning_value"})
      BY <3>2, FS_AddElement
    <3>. QED BY <3>3 DEF more, few
  <2>2. {} \cup {"truthfulness"} \cup {"task_success"} \cup {"calibration"}
                    \cup {"helpfulness"} \cup {"efficiency"} \cup {"latency"}
                    \cup {"robustness"} \cup {"originality"} \cup {"learning_value"}
         = {"truthfulness", "task_success", "calibration", "helpfulness"}
                  \cup {"efficiency", "latency", "robustness"}
                  \cup {"originality", "learning_value"}
    OBVIOUS
  <2>. QED BY <2>1, <2>2
<1>3. {"truthfulness", "task_success", "calibration", "helpfulness"}
                  \cup {"efficiency", "latency", "robustness"}
                  \cup {"originality", "learning_value"} = Objectives
  BY <1>1
<1>. QED BY <1>1, <1>2, <1>3

\* One term of a sum over objectives that are still to be summed.
LEMMA NextTerm ==
  ASSUME NEW w \in [Objectives -> Int], NEW s \in SUBSET Objectives, NEW x \in s,
         NEW r, r = s \ {x}
  PROVE  SumOver(w, s) = w[x] + SumOver(w, r)
<1>1. IsFiniteSet(Objectives)
  BY NineObjectives
<1>. QED BY <1>1, SumTakes

LEMMA TotalOfNine ==
  ASSUME NEW w \in [Objectives -> Int]
  PROVE  TotalWeight(w) = w.truthfulness + w.task_success + w.calibration + w.helpfulness
                            + w.efficiency + w.latency + w.robustness + w.originality
                            + w.learning_value
<1>1. TotalWeight(w) = SumOver(w, Objectives)
  BY SumUnfolded DEF TotalWeight
<1>2. SumOver(w, Objectives) = w["truthfulness"]
        + SumOver(w, {"task_success", "calibration", "helpfulness", "efficiency",
                      "latency", "robustness", "originality", "learning_value"})
  BY NineObjectives, NextTerm
<1>3. SumOver(w, {"task_success", "calibration", "helpfulness", "efficiency",
                  "latency", "robustness", "originality", "learning_value"})
        = w["task_success"]
        + SumOver(w, {"calibration", "helpfulness", "efficiency",
                      "latency", "robustness", "originality", "learning_value"})
  BY NineObjectives, NextTerm
<1>4. SumOver(w, {"calibration", "helpfulness", "efficiency",
                  "latency", "robustness", "originality", "learning_value"})
        = w["calibration"]
        + SumOver(w, {"helpfulness", "efficiency",
                      "latency", "robustness", "originality", "learning_value"})
  BY NineObjectives, NextTerm
<1>5. SumOver(w, {"helpfulness", "efficiency",
                  "latency", "robustness", "originality", "learning_value"})
        = w["helpfulness"]
        + SumOver(w, {"efficiency", "latency", "robustness", "originality", "learning_value"})
  BY NineObjectives, NextTerm
<1>6. SumOver(w, {"efficiency", "latency", "robustness", "originality", "learning_value"})
        = w["efficiency"]
        + SumOver(w, {"latency", "robustness", "originality", "learning_value"})
  BY NineObjectives, NextTerm
<1>7. SumOver(w, {"latency", "robustness", "originality", "learning_value"})
        = w["latency"] + SumOver(w, {"robustness", "originality", "learning_value"})
  BY NineObjectives, NextTerm
<1>8. SumOver(w, {"robustness", "originality", "learning_value"})
        = w["robustness"] + SumOver(w, {"originality", "learning_value"})
  BY NineObjectives, NextTerm
<1>9. SumOver(w, {"originality", "learning_value"})
        = w["originality"] + SumOver(w, {"learning_value"})
  BY NineObjectives, NextTerm
<1>10. SumOver(w, {"learning_value"}) = w["learning_value"] + SumOver(w, {})
  BY NineObjectives, NextTerm
<1>11. SumOver(w, {}) = 0
  BY NineObjectives, SumOfNone
<1>12. \A o \in Objectives : w[o] \in Int
  OBVIOUS
<1>. QED BY NineObjectives, <1>1, <1>2, <1>3, <1>4, <1>5, <1>6, <1>7, <1>8, <1>9, <1>10, <1>11,
            <1>12

\* The weights of a domain: what they give truth, calibration and latency, and in all.
Shape(w, truth, calibration, latency, rest) ==
  /\ w \in [Objectives -> Nat]
  /\ w.truthfulness = truth /\ w.calibration = calibration /\ w.latency = latency
  /\ w.task_success + w.helpfulness + w.efficiency + w.robustness + w.originality
       + w.learning_value = rest

LEMMA DomainShapes ==
  ASSUME NEW class
  PROVE  \/ Shape(DomainWeights(class), 45, 25, 5, 48)
         \/ Shape(DomainWeights(class), 10, 15, 5, 73)
         \/ Shape(DomainWeights(class), 20, 15, 25, 57)
         \/ Shape(DomainWeights(class), 25, 15, 5, 65)
         \/ Shape(DomainWeights(class), 30, 15, 5, 50)
<1>1. CASE class = "medical"
  <2>1. DomainWeights(class) =
          [truthfulness |-> 45, task_success |-> 25, calibration |-> 25, helpfulness |-> 10,
           efficiency |-> 8, latency |-> 5, robustness |-> 4, originality |-> 0,
           learning_value |-> 1]
    BY <1>1, NineObjectives DEF DomainWeights, DomainOverrides, Defaults
  <2>. QED BY <2>1, NineObjectives DEF Shape
<1>2. CASE class = "creative_writing"
  <2>1. DomainWeights(class) =
          [truthfulness |-> 10, task_success |-> 30, calibration |-> 15, helpfulness |-> 10,
           efficiency |-> 8, latency |-> 5, robustness |-> 4, originality |-> 20,
           learning_value |-> 1]
    BY <1>2, NineObjectives DEF DomainWeights, DomainOverrides, Defaults
  <2>. QED BY <2>1, NineObjectives DEF Shape
<1>3. CASE class = "real_time_ops"
  <2>1. DomainWeights(class) =
          [truthfulness |-> 20, task_success |-> 25, calibration |-> 15, helpfulness |-> 10,
           efficiency |-> 15, latency |-> 25, robustness |-> 4, originality |-> 2,
           learning_value |-> 1]
    BY <1>3, NineObjectives DEF DomainWeights, DomainOverrides, Defaults
  <2>. QED BY <2>1, NineObjectives DEF Shape
<1>4. CASE class = "research"
  <2>1. DomainWeights(class) =
          [truthfulness |-> 25, task_success |-> 25, calibration |-> 15, helpfulness |-> 10,
           efficiency |-> 8, latency |-> 5, robustness |-> 10, originality |-> 2,
           learning_value |-> 10]
    BY <1>4, NineObjectives DEF DomainWeights, DomainOverrides, Defaults
  <2>. QED BY <2>1, NineObjectives DEF Shape
<1>5. CASE class \notin DOMAIN DomainOverrides
  <2>1. DomainWeights(class) = Defaults
    BY <1>5 DEF DomainWeights, Objectives, Defaults
  <2>. QED BY <2>1, NineObjectives DEF Shape, Defaults
<1>6. DOMAIN DomainOverrides = {"medical", "creative_writing", "real_time_ops", "research"}
  BY DEF DomainOverrides
<1>. QED BY <1>1, <1>2, <1>3, <1>4, <1>5, <1>6

LEMMA Reshaped ==
  ASSUME NEW w, NEW t, NEW c, NEW l, NEW r, Shape(w, t, c, l, r),
         NEW t1 \in Nat, NEW c1 \in Nat, NEW l1 \in Nat, NEW w1, DOMAIN w1 = Objectives,
         w1 = [o \in Objectives |-> w1[o]],
         \A o \in Objectives : w1[o] = CASE o = "truthfulness" -> t1
                                         [] o = "calibration" -> c1
                                         [] o = "latency" -> l1
                                         [] OTHER -> w[o]
  PROVE  Shape(w1, t1, c1, l1, r)
<1>1. w \in [Objectives -> Nat]
      /\ w.task_success + w.helpfulness + w.efficiency + w.robustness + w.originality
           + w.learning_value = r
  BY DEF Shape
<1>2. \A o \in Objectives : w1[o] \in Nat
  BY <1>1
<1>3. w1 \in [Objectives -> Nat]
  BY <1>2
<1>4. /\ w1.truthfulness = t1 /\ w1.calibration = c1 /\ w1.latency = l1
      /\ w1.task_success = w.task_success /\ w1.helpfulness = w.helpfulness
      /\ w1.efficiency = w.efficiency /\ w1.robustness = w.robustness
      /\ w1.originality = w.originality /\ w1.learning_value = w.learning_value
  BY NineObjectives
<1>. QED BY <1>1, <1>3, <1>4 DEF Shape

\* What the stakes make of them.
LEMMA StakesShape ==
  ASSUME NEW w, NEW t \in Nat, NEW c \in Nat, NEW l \in Nat, NEW r \in Nat,
         Shape(w, t, c, l, r), c >= 5, l >= 5
  PROVE  /\ Shape(Adjusted(w, "low"), t, c - 5, l + 5, r)
         /\ Shape(Adjusted(w, "medium"), t, c, l, r)
         /\ Shape(Adjusted(w, "high"), t + 10, c + 5, l - 5, r)
         /\ Shape(Adjusted(w, "critical"), t + 20, c + 10, 0, r)
<1>1. w \in [Objectives -> Nat] /\ w.truthfulness = t /\ w.calibration = c /\ w.latency = l
  BY DEF Shape
<1>2. NotNegative(c - 5) = c - 5 /\ NotNegative(l - 5) = l - 5
      /\ c - 5 \in Nat /\ l - 5 \in Nat
  BY DEF NotNegative
<1>3. Adjusted(w, "low") = [w EXCEPT !.latency = l + 5, !.calibration = c - 5]
  BY <1>1, <1>2, NineObjectives DEF Adjusted
<1>4. Adjusted(w, "medium") = w
  BY DEF Adjusted
<1>5. Adjusted(w, "high")
        = [w EXCEPT !.truthfulness = t + 10, !.calibration = c + 5, !.latency = l - 5]
  BY <1>1, <1>2, NineObjectives DEF Adjusted
<1>6. Adjusted(w, "critical")
        = [w EXCEPT !.truthfulness = t + 20, !.calibration = c + 10, !.latency = 0]
  BY <1>1, <1>2, NineObjectives DEF Adjusted
<1>7. Shape(Adjusted(w, "low"), t, c - 5, l + 5, r)
  <2> DEFINE w1 == Adjusted(w, "low")
  <2>1. w1 = [o \in Objectives |-> w1[o]] /\ DOMAIN w1 = Objectives
    BY <1>1, <1>3
  <2>2. \A o \in Objectives : w1[o] = CASE o = "truthfulness" -> t
                                        [] o = "calibration" -> c - 5
                                        [] o = "latency" -> l + 5
                                        [] OTHER -> w[o]
    BY <1>1, <1>3, NineObjectives
  <2>3. t \in Nat /\ c - 5 \in Nat /\ l + 5 \in Nat
    BY <1>2
  <2> HIDE DEF w1
  <2>4. Shape(w1, t, c - 5, l + 5, r)
    BY <2>1, <2>2, <2>3, Reshaped
  <2>. QED BY <2>4 DEF w1
<1>8. Shape(Adjusted(w, "high"), t + 10, c + 5, l - 5, r)
  <2> DEFINE w1 == Adjusted(w, "high")
  <2>1. w1 = [o \in Objectives |-> w1[o]] /\ DOMAIN w1 = Objectives
    BY <1>1, <1>5
  <2>2. \A o \in Objectives : w1[o] = CASE o = "truthfulness" -> t + 10
                                        [] o = "calibration" -> c + 5
                                        [] o = "latency" -> l - 5
                                        [] OTHER -> w[o]
    BY <1>1, <1>5, NineObjectives
  <2>3. t + 10 \in Nat /\ c + 5 \in Nat /\ l - 5 \in Nat
    BY <1>2
  <2> HIDE DEF w1
  <2>4. Shape(w1, t + 10, c + 5, l - 5, r)
    BY <2>1, <2>2, <2>3, Reshaped
  <2>. QED BY <2>4 DEF w1
<1>9. Shape(Adjusted(w, "critical"), t + 20, c + 10, 0, r)
  <2> DEFINE w1 == Adjusted(w, "critical")
  <2>1. w1 = [o \in Objectives |-> w1[o]] /\ DOMAIN w1 = Objectives
    BY <1>1, <1>6
  <2>2. \A o \in Objectives : w1[o] = CASE o = "truthfulness" -> t + 20
                                        [] o = "calibration" -> c + 10
                                        [] o = "latency" -> 0
                                        [] OTHER -> w[o]
    BY <1>1, <1>6, NineObjectives
  <2>3. t + 20 \in Nat /\ c + 10 \in Nat /\ 0 \in Nat
    BY <1>2
  <2> HIDE DEF w1
  <2>4. Shape(w1, t + 20, c + 10, 0, r)
    BY <2>1, <2>2, <2>3, Reshaped, SMTT(60)
  <2>. QED BY <2>4 DEF w1
<1>. QED BY <1>4, <1>7, <1>8, <1>9

LEMMA ShapeTotal ==
  ASSUME NEW w, NEW t, NEW c, NEW l, NEW r, Shape(w, t, c, l, r)
  PROVE  w.truthfulness = t /\ w.latency = l /\ TotalWeight(w) = t + c + l + r
         /\ t \in Nat /\ c \in Nat /\ l \in Nat /\ r \in Int
<1>1. w \in [Objectives -> Nat] /\ w.truthfulness = t /\ w.calibration = c /\ w.latency = l
      /\ w.task_success + w.helpfulness + w.efficiency + w.robustness + w.originality
           + w.learning_value = r
  BY DEF Shape
<1>2. w \in [Objectives -> Int]
  BY <1>1
<1>3. TotalWeight(w) = w.truthfulness + w.task_success + w.calibration + w.helpfulness
                         + w.efficiency + w.latency + w.robustness + w.originality
                         + w.learning_value
  BY <1>2, TotalOfNine
<1>4. /\ w.truthfulness \in Nat /\ w.task_success \in Nat /\ w.calibration \in Nat
      /\ w.helpfulness \in Nat /\ w.efficiency \in Nat /\ w.latency \in Nat
      /\ w.robustness \in Nat /\ w.originality \in Nat /\ w.learning_value \in Nat
  BY <1>1, NineObjectives
<1>. QED BY <1>1, <1>3, <1>4

\* What the theorem says of two vectors of weights, by what they give truth and latency
\* and in all.
Shifted(t, l, all, t1, l1, all1) == t1 * all >= t * all1 /\ l1 * all <= l * all1

\* The same of every two stakes, for weights of a shape.
ShapeShifts(t, c, l, r) ==
  LET all == t + c + l + r IN
  /\ Shifted(t, l + 5, all, t, l, all)
  /\ Shifted(t, l + 5, all, t + 10, l - 5, all + 10)
  /\ Shifted(t, l + 5, all, t + 20, 0, all + 30 - l)
  /\ Shifted(t, l, all, t + 10, l - 5, all + 10)
  /\ Shifted(t, l, all, t + 20, 0, all + 30 - l)
  /\ Shifted(t + 10, l - 5, all + 10, t + 20, 0, all + 30 - l)

HigherStakesShift(w, stakes, higher) ==
  Shifted(Adjusted(w, stakes).truthfulness, Adjusted(w, stakes).latency,
          TotalWeight(Adjusted(w, stakes)),
          Adjusted(w, higher).truthfulness, Adjusted(w, higher).latency,
          TotalWeight(Adjusted(w, higher)))

LEMMA ShapesShift ==
  ASSUME NEW w, NEW t \in Nat, NEW c \in Nat, NEW l \in Nat, NEW r \in Nat,
         Shape(w, t, c, l, r), c >= 5, l >= 5, ShapeShifts(t, c, l, r),
         NEW stakes \in Stakes, NEW higher \in Higher[stakes]
  PROVE  HigherStakesShift(w, stakes, higher)
<1> DEFINE T(s) == Adjusted(w, s).truthfulness  L(s) == Adjusted(w, s).latency
           All(s) == TotalWeight(Adjusted(w, s))
<1>1. /\ Shape(Adjusted(w, "low"), t, c - 5, l + 5, r)
      /\ Shape(Adjusted(w, "medium"), t, c, l, r)
      /\ Shape(Adjusted(w, "high"), t + 10, c + 5, l - 5, r)
      /\ Shape(Adjusted(w, "critical"), t + 20, c + 10, 0, r)
  BY StakesShape
<1>2. T("low") = t /\ L("low") = l + 5 /\ All("low") = t + c + l + r
  <2>1. T("low") = t /\ L("low") = l + 5 /\ All("low") = t + (c - 5) + (l + 5) + r
    BY <1>1, ShapeTotal
  <2>. QED BY <2>1
<1>3. T("medium") = t /\ L("medium") = l /\ All("medium") = t + c + l + r
  BY <1>1, ShapeTotal
<1>4. T("high") = t + 10 /\ L("high") = l - 5 /\ All("high") = (t + c + l + r) + 10
  <2>1. T("high") = t + 10 /\ L("high") = l - 5
        /\ All("high") = (t + 10) + (c + 5) + (l - 5) + r
    BY <1>1, ShapeTotal
  <2>. QED BY <2>1
<1>5. T("critical") = t + 20 /\ L("critical") = 0 /\ All("critical") = (t + c + l + r) + 30 - l
  <2>1. T("critical") = t + 20 /\ L("critical") = 0
        /\ All("critical") = (t + 20) + (c + 10) + 0 + r
    BY <1>1, ShapeTotal
  <2>. QED BY <2>1
<1>6. \/ stakes = "low" /\ higher \in {"medium", "high", "critical"}
      \/ stakes = "medium" /\ higher \in {"high", "critical"}
      \/ stakes = "high" /\ higher = "critical"
  BY DEF Stakes, Higher
<1> HIDE DEF T, L, All
<1>7. Shifted(T(stakes), L(stakes), All(stakes), T(higher), L(higher), All(higher))
  BY <1>2, <1>3, <1>4, <1>5, <1>6 DEF ShapeShifts
<1>. QED BY <1>7 DEF HigherStakesShift, T, L, All

\* The arithmetic of the five vectors of weights.
LEMMA WeightsShift ==
  ASSUME NEW class, NEW stakes \in Stakes, NEW higher \in Higher[stakes]
  PROVE  HigherStakesShift(DomainWeights(class), stakes, higher)
<1>1. CASE Shape(DomainWeights(class), 45, 25, 5, 48)
  <2>1. ShapeShifts(45, 25, 5, 48)
    BY DEF ShapeShifts, Shifted
  <2>. QED BY <1>1, <2>1, ShapesShift
<1>2. CASE Shape(DomainWeights(class), 10, 15, 5, 73)
  <2>1. ShapeShifts(10, 15, 5, 73)
    BY DEF ShapeShifts, Shifted
  <2>. QED BY <1>2, <2>1, ShapesShift
<1>3. CASE Shape(DomainWeights(class), 20, 15, 25, 57)
  <2>1. ShapeShifts(20, 15, 25, 57)
    BY DEF ShapeShifts, Shifted
  <2>. QED BY <1>3, <2>1, ShapesShift
<1>4. CASE Shape(DomainWeights(class), 25, 15, 5, 65)
  <2>1. ShapeShifts(25, 15, 5, 65)
    BY DEF ShapeShifts, Shifted
  <2>. QED BY <1>4, <2>1, ShapesShift
<1>5. CASE Shape(DomainWeights(class), 30, 15, 5, 50)
  <2>1. ShapeShifts(30, 15, 5, 50)
    BY DEF ShapeShifts, Shifted
  <2>. QED BY <1>5, <2>1, ShapesShift
<1>. QED BY <1>1, <1>2, <1>3, <1>4, <1>5, DomainShapes

\* weights_for(), for every class: after normalisation, higher stakes never make truth
\* count for less or latency for more.
THEOREM StakesAlwaysShift == Spec => []StakesShiftWeights
<1>1. AnswerInv => StakesShiftWeights
  <2> SUFFICES ASSUME AnswerInv, call.what = "weights", NEW higher \in Higher[call.stakes]
               PROVE  HigherStakesShift(DomainWeights(call.class), call.stakes, higher)
                      /\ call.answer = WeightsFor(call.class, call.stakes)
    BY DEF StakesShiftWeights, HigherStakesShift, Shifted, WeightsFor
  <2>1. call.stakes \in Stakes /\ call.answer = WeightsFor(call.class, call.stakes)
    BY AnswerOf DEF WeightsAnswered
  <2>. QED BY <2>1, WeightsShift
<1>. QED BY <1>1, AnswersOnRecord, PTL

-----------------------------------------------------------------------------
(* Choices *)

LEMMA WeightsTyped ==
  ASSUME NEW class, NEW stakes \in Stakes
  PROVE  WeightsFor(class, stakes) \in [Objectives -> Nat]
<1>1. PICK t \in Nat, c \in Nat, l \in Nat, r \in Nat :
        Shape(DomainWeights(class), t, c, l, r) /\ c >= 5 /\ l >= 5
  BY DomainShapes
<1>2. /\ Shape(Adjusted(DomainWeights(class), "low"), t, c - 5, l + 5, r)
      /\ Shape(Adjusted(DomainWeights(class), "medium"), t, c, l, r)
      /\ Shape(Adjusted(DomainWeights(class), "high"), t + 10, c + 5, l - 5, r)
      /\ Shape(Adjusted(DomainWeights(class), "critical"), t + 20, c + 10, 0, r)
  BY <1>1, StakesShape
<1>3. \A s \in Stakes : Adjusted(DomainWeights(class), s) \in [Objectives -> Nat]
  BY <1>2 DEF Shape, Stakes
<1>. QED BY <1>3 DEF WeightsFor

LEMMA ScoreTyped ==
  ASSUME NEW candidate, IsCandidate(candidate), NEW w \in [Objectives -> Nat]
  PROVE  Score(candidate, w) \in Int
<1> DEFINE D == DOMAIN candidate.scores
           f == [o \in D |-> w[o] * candidate.scores[o]]
<1>1. D \in SUBSET Objectives /\ candidate.scores \in [D -> Int]
  BY DEF IsCandidate
<1>2. IsFiniteSet(D)
  BY <1>1, NineObjectives, FS_Subset
<1>3. \A o \in D : w[o] * candidate.scores[o] \in Int
  <2>1. \A o \in D : w[o] \in Int /\ candidate.scores[o] \in Int
    BY <1>1
  <2> HIDE DEF D
  <2>. QED BY <2>1
<1>4. f \in [D -> Int] /\ DOMAIN f = D /\ D \in SUBSET D
  BY <1>3
<1>5. Score(candidate, w) = SumOver(f, D)
  BY <1>4, SumUnfolded DEF Score
<1> HIDE DEF f, D
<1>. QED BY <1>2, <1>4, <1>5, SumType

\* i comes first among S.
LeadsAll(candidates, w, S, i) == \A j \in S \ {i} : RanksBefore(candidates, w, i, j)

Rankable(candidates, w, S) ==
  S \in SUBSET Int /\ \A i \in S : Score(candidates[i], w) \in Int

\* Among finitely many candidates one comes first.
LEMMA FirstExists ==
  ASSUME NEW candidates, NEW w, NEW S, IsFiniteSet(S), S # {},
         Rankable(candidates, w, S)
  PROVE  First(candidates, w, S) \in S /\ LeadsAll(candidates, w, S, First(candidates, w, S))
<1> DEFINE F == {u \in SUBSET S : u # {} /\ ~ \E i \in u : LeadsAll(candidates, w, u, i)}
<1>1. F = {}
  <2> SUFFICES ASSUME F # {} PROVE FALSE
    OBVIOUS
  <2>1. PICK m \in F : \A u \in F : u \subseteq m => u = m
    <3>1. F \subseteq SUBSET S
      OBVIOUS
    <3> HIDE DEF F
    <3>. QED BY <3>1, Smallest
  <2>2. m \in SUBSET S /\ m # {} /\ \A i \in m : ~LeadsAll(candidates, w, m, i)
    BY <2>1
  <2>3. PICK x \in m : TRUE
    BY <2>2
  <2>4. m \ {x} \in SUBSET S /\ m \ {x} \subseteq m /\ m \ {x} # m
    BY <2>2, <2>3
  <2>5. m \ {x} # {}
    <3>1. ASSUME m \ {x} = {} PROVE LeadsAll(candidates, w, m, x)
      BY <3>1 DEF LeadsAll
    <3>. QED BY <2>2, <2>3, <3>1
  <2>6. PICK y \in m \ {x} : LeadsAll(candidates, w, m \ {x}, y)
    BY <2>1, <2>4, <2>5
  <2>7. RanksBefore(candidates, w, y, x) \/ RanksBefore(candidates, w, x, y)
    BY <2>2, <2>3, <2>6 DEF RanksBefore, Rankable
  <2>8. CASE RanksBefore(candidates, w, y, x)
    <3>1. LeadsAll(candidates, w, m, y)
      BY <2>6, <2>8 DEF LeadsAll
    <3>. QED BY <2>2, <2>6, <3>1
  <2>9. CASE RanksBefore(candidates, w, x, y)
    <3>1. ASSUME NEW j \in m \ {x}, j # y PROVE RanksBefore(candidates, w, x, j)
      <4>1. RanksBefore(candidates, w, y, j)
        BY <2>6, <3>1 DEF LeadsAll
      <4>2. j \in S /\ x \in S /\ y \in S /\ j \in Int /\ x \in Int /\ y \in Int
        BY <2>2, <2>3, <2>6, <3>1 DEF Rankable
      <4>3. /\ Score(candidates[j], w) \in Int /\ Score(candidates[x], w) \in Int
            /\ Score(candidates[y], w) \in Int
        BY <4>2 DEF Rankable
      <4>. QED BY <2>9, <4>1, <4>2, <4>3 DEF RanksBefore
    <3>2. LeadsAll(candidates, w, m, x)
      BY <2>9, <3>1 DEF LeadsAll
    <3>. QED BY <2>2, <2>3, <3>2
  <2>. QED BY <2>7, <2>8, <2>9
<1>2. \E i \in S : LeadsAll(candidates, w, S, i)
  BY <1>1
<1>. QED BY <1>2 DEF First, LeadsAll

\* resolve(), for any candidates and weights: what is chosen is permitted, and unless it has
\* the best score it is less than 5% behind the best and of less variance.
THEOREM ChoiceIsNearBest == Spec => []ResolveNearBest
<1>1. AnswerInv => ResolveNearBest
  <2> SUFFICES ASSUME AnswerInv, call.what = "choice" PROVE ResolveNearBest
    BY DEF ResolveNearBest
  <2>1. PICK candidates \in CandidateSets, class \in TaskClasses, stakes \in Stakes :
          /\ call.candidates = candidates /\ call.weights = WeightsFor(class, stakes)
          /\ call.answer = Resolve(candidates, WeightsFor(class, stakes))
    BY AnswerOf DEF ChoiceAnswered
  <2>2. PICK w \in [Objectives -> Nat] : w = WeightsFor(class, stakes)
    BY WeightsTyped
  <2> DEFINE P == {i \in DOMAIN candidates : candidates[i].permitted}
             score(i) == Score(candidates[i], w)
             top == First(candidates, w, P)
             runner == First(candidates, w, P \ {top})
             best == {i \in P : \A j \in P : score(j) <= score(i)}
  <2>3. /\ Len(candidates) \in Nat /\ DOMAIN candidates = 1 .. Len(candidates)
        /\ \A i \in DOMAIN candidates : IsCandidate(candidates[i])
    BY JudgementsConfig
  <2>4. \A i \in P : score(i) \in Int
    BY <2>3, ScoreTyped
  <2>5. IsFiniteSet(P) /\ P \in SUBSET Int
    <3>1. IsFiniteSet(1 .. Len(candidates))
      BY <2>3, FS_Interval
    <3>2. P \in SUBSET (1 .. Len(candidates))
      BY <2>3
    <3>. QED BY <2>3, <3>1, <3>2, FS_Subset
  <2>6. call.answer = IF P = {} THEN 0
                      ELSE IF /\ P # {top} /\ WithinReach(score(top), score(runner))
                              /\ candidates[runner].variance < candidates[top].variance
                           THEN runner ELSE top
    BY <2>1, <2>2 DEF Resolve
  <2>7. SUFFICES ASSUME P # {}
                 PROVE  /\ call.answer \in P
                        /\ call.answer \notin best => \A i \in best :
                             /\ 20 * (score(i) - score(call.answer)) < score(i)
                             /\ candidates[call.answer].variance < candidates[i].variance
    BY <2>1, <2>2, <2>6 DEF ResolveNearBest
  <2>8. top \in P /\ LeadsAll(candidates, w, P, top)
    <3>1. Rankable(candidates, w, P)
      BY <2>4, <2>5 DEF Rankable
    <3> HIDE DEF P
    <3>. QED BY <2>5, <2>7, <3>1, FirstExists
  <2>9. ASSUME P # {top}
        PROVE  runner \in P \ {top} /\ LeadsAll(candidates, w, P \ {top}, runner)
    <3>1. Rankable(candidates, w, P \ {top})
      BY <2>4, <2>5 DEF Rankable
    <3>2. P \ {top} # {}
      BY <2>8, <2>9
    <3>3. IsFiniteSet(P \ {top})
      BY <2>5, FS_Subset
    <3> HIDE DEF P, top
    <3>. QED BY <3>1, <3>2, <3>3, FirstExists
  <2> HIDE DEF P, top, runner
  <2>10. \A j \in P : score(j) <= score(top)
    BY <2>4, <2>8 DEF LeadsAll, RanksBefore
  <2>11. CASE call.answer = top
    BY <2>8, <2>10, <2>11
  <2>12. CASE call.answer # top
    <3>1. /\ call.answer = runner /\ P # {top} /\ WithinReach(score(top), score(runner))
          /\ candidates[runner].variance < candidates[top].variance
      BY <2>6, <2>7, <2>12
    <3>2. runner \in P \ {top}
      BY <2>9, <3>1
    <3>3. \A j \in P \ {top} : score(j) <= score(runner)
      BY <2>4, <2>9, <3>1, <3>2 DEF LeadsAll, RanksBefore
    <3>4. ASSUME runner \notin best, NEW i \in best PROVE i = top
      <4>1. i \in P /\ score(top) <= score(i)
        BY <2>8, <3>4
      <4>2. CASE i # top
        <5>1. score(top) <= score(runner)
          BY <2>4, <2>8, <3>2, <3>3, <4>1, <4>2
        <5>2. runner \in best
          BY <2>4, <2>8, <2>10, <3>2, <5>1
        <5>. QED BY <3>4, <5>2
      <4>. QED BY <4>2
    <3>5. 20 * (score(top) - score(runner)) < score(top)
      BY <3>1 DEF WithinReach
    <3>. QED BY <3>1, <3>2, <3>4, <3>5
  <2>. QED BY <2>11, <2>12
<1>. QED BY <1>1, AnswersOnRecord, PTL

-----------------------------------------------------------------------------
(* Merged rates *)

\* round() is off by at most one half.
LEMMA RoundedNear ==
  ASSUME NEW num \in Int, NEW den \in Nat, den > 0
  PROVE  /\ Rounded(num, den) \in Int
         /\ 2 * (Rounded(num, den) * den) <= 2 * num + den
         /\ 2 * (Rounded(num, den) * den) >= 2 * num - den
<1> DEFINE floor == num \div den  rest == num % den
<1>1. floor \in Int /\ rest \in 0 .. (den - 1) /\ num = den * floor + rest
  OBVIOUS
<1>2. \/ Rounded(num, den) = floor + 1 /\ 2 * rest >= den
      \/ Rounded(num, den) = floor /\ 2 * rest <= den
  BY <1>1 DEF Rounded
<1> HIDE DEF floor, rest
<1>3. floor * den = num - rest /\ (floor + 1) * den = num - rest + den
  BY <1>1
<1>. QED BY <1>1, <1>2, <1>3

LEMMA SumNatural ==
  ASSUME NEW S, IsFiniteSet(S), NEW f \in [S -> Nat], NEW s \in SUBSET S
  PROVE  SumOver(f, s) \in Nat
<1> DEFINE F == {u \in SUBSET S : SumOver(f, u) \notin Nat}
<1>1. SUFFICES ASSUME F # {} PROVE FALSE
  OBVIOUS
<1>2. PICK m \in F : \A u \in F : u \subseteq m => u = m
  <2>1. F \subseteq SUBSET S
    OBVIOUS
  <2> HIDE DEF F
  <2>. QED BY <1>1, <2>1, Smallest
<1>3. m \in SUBSET S /\ SumOver(f, m) \notin Nat /\ f \in [S -> Int]
  BY <1>2
<1>4. m # {}
  BY <1>3, SumOfNone
<1>5. PICK x \in m : TRUE
  BY <1>4
<1>6. m \ {x} \in SUBSET S /\ m \ {x} \subseteq m /\ m \ {x} # m
  BY <1>3, <1>5
<1>7. SumOver(f, m \ {x}) \in Nat
  BY <1>2, <1>6
<1>8. SumOver(f, m) = f[x] + SumOver(f, m \ {x})
  BY <1>3, <1>5, SumTakes
<1>9. f[x] \in Nat
  BY <1>3, <1>5
<1>. QED BY <1>3, <1>7, <1>8, <1>9

\* The sum of natural numbers one of which is positive.
LEMMA PositiveSum ==
  ASSUME NEW S, IsFiniteSet(S), NEW f \in [S -> Nat], NEW x \in S, f[x] > 0
  PROVE  SumFunction(f) \in Nat /\ SumFunction(f) > 0
<1>1. f \in [S -> Int] /\ DOMAIN f = S /\ S \in SUBSET S /\ S \ {x} \in SUBSET S
  OBVIOUS
<1>2. SumFunction(f) = f[x] + SumOver(f, S \ {x})
  BY <1>1, SumTakes, SumUnfolded
<1>3. SumOver(f, S \ {x}) \in Nat
  BY <1>1, SumNatural
<1>4. f[x] \in Nat
  OBVIOUS
<1>. QED BY <1>2, <1>3, <1>4

LEMMA SnapshotNear ==
  ASSUME NEW sample, sample.size \in Nat, sample.size > 0, sample.wins \in Nat
  PROVE  /\ SnapshotRate(sample) \in Int
         /\ 2 * (SnapshotRate(sample) * sample.size) <= 20000 * sample.wins + sample.size
         /\ 2 * (SnapshotRate(sample) * sample.size) >= 20000 * sample.wins - sample.size
<1>1. PICK num \in Int, den \in Nat : num = 10000 * sample.wins /\ den = sample.size
  OBVIOUS
<1>2. SnapshotRate(sample) = Rounded(num, den) /\ den > 0
  BY <1>1 DEF SnapshotRate
<1>3. /\ Rounded(num, den) \in Int
      /\ 2 * (Rounded(num, den) * den) <= 2 * num + den
      /\ 2 * (Rounded(num, den) * den) >= 2 * num - den
  BY <1>2, RoundedNear
<1>4. 2 * num = 20000 * sample.wins
  BY <1>1
<1>. QED BY <1>1, <1>2, <1>3, <1>4

Sizes(observers)     == [i \in Contributing(observers) |-> observers[i].size]
WinCounts(observers) == [i \in Contributing(observers) |-> observers[i].wins]
RatedWins(observers) ==
  [i \in Contributing(observers) |-> SnapshotRate(observers[i]) * observers[i].size]

LEMMA SamplesTyped ==
  ASSUME NEW observers \in [Observers -> Samples]
  PROVE  /\ IsFiniteSet(Contributing(observers))
         /\ Contributing(observers) \in SUBSET Observers
         /\ \A i \in Observers : /\ observers[i].size \in Nat /\ observers[i].wins \in Nat
                                 /\ observers[i].wins <= observers[i].size
         /\ \A i \in Contributing(observers) : observers[i].size > 0
         /\ Sizes(observers) \in [Contributing(observers) -> Nat]
         /\ WinCounts(observers) \in [Contributing(observers) -> Nat]
         /\ RatedWins(observers) \in [Contributing(observers) -> Int]
<1>1. Contributing(observers) \in SUBSET Observers /\ IsFiniteSet(Observers)
  BY JudgementsConfig DEF Contributing
<1>2. IsFiniteSet(Contributing(observers))
  BY <1>1, FS_Subset
<1>3. \A i \in Observers : /\ observers[i].size \in Nat /\ observers[i].wins \in Nat
                           /\ observers[i].wins <= observers[i].size
  BY JudgementsConfig DEF AllSamples
<1>4. \A i \in Contributing(observers) : observers[i].size > 0
  BY DEF Contributing
<1>5. ASSUME NEW i \in Contributing(observers)
      PROVE  SnapshotRate(observers[i]) * observers[i].size \in Int
  <2>1. observers[i].size \in Nat /\ observers[i].size > 0 /\ observers[i].wins \in Nat
    BY <1>1, <1>3, <1>4
  <2>2. SnapshotRate(observers[i]) \in Int
    BY <2>1, SnapshotNear
  <2>. QED BY <2>1, <2>2
<1>. QED BY <1>1, <1>2, <1>3, <1>4, <1>5 DEF Sizes, WinCounts, RatedWins

\* The rates of the Self-Models, times the sizes of the samples, miss the wins by half a
\* basis point at most.
LEMMA SnapshotsNear ==
  ASSUME NEW observers \in [Observers -> Samples]
  PROVE  LET n == SumFunction(Sizes(observers))
             w == SumFunction(WinCounts(observers))
             r == SumFunction(RatedWins(observers))
         IN  /\ r \in Int /\ n \in Int /\ w \in Int
             /\ 2 * r <= 20000 * w + n /\ 2 * r >= 20000 * w - n
<1>0. PICK c0 \in Int, c1 \in Int, c2 \in Int, k \in Int, minus \in Int :
        c0 = 0 /\ c1 = 1 /\ c2 = 2 /\ k = 20000 /\ minus = -1
  OBVIOUS
<1> DEFINE C == Contributing(observers)
           n == Sizes(observers)  w == WinCounts(observers)  r == RatedWins(observers)
           twice == [i \in C |-> c2 * r[i] + c0 * n[i]]
           above == [i \in C |-> k * w[i] + c1 * n[i]]
           below == [i \in C |-> k * w[i] + minus * n[i]]
<1>1. /\ IsFiniteSet(C) /\ n \in [C -> Int] /\ w \in [C -> Int] /\ r \in [C -> Int]
  BY SamplesTyped
<1>2. ASSUME NEW i \in C
      PROVE  2 * r[i] <= 20000 * w[i] + n[i] /\ 2 * r[i] >= 20000 * w[i] - n[i]
  <2>1. observers[i].size \in Nat /\ observers[i].size > 0 /\ observers[i].wins \in Nat
    BY SamplesTyped
  <2>3. /\ 2 * (SnapshotRate(observers[i]) * observers[i].size)
             <= 20000 * observers[i].wins + observers[i].size
        /\ 2 * (SnapshotRate(observers[i]) * observers[i].size)
             >= 20000 * observers[i].wins - observers[i].size
    BY <2>1, SnapshotNear
  <2>4. r[i] = SnapshotRate(observers[i]) * observers[i].size /\ w[i] = observers[i].wins
        /\ n[i] = observers[i].size
    BY DEF RatedWins, WinCounts, Sizes
  <2>. QED BY <2>1, <2>3, <2>4
<1> HIDE DEF C, n, w, r
<1>3. twice \in [C -> Int] /\ above \in [C -> Int] /\ below \in [C -> Int]
  <2>1. \A i \in C : c2 * r[i] + c0 * n[i] \in Int /\ k * w[i] + c1 * n[i] \in Int
                     /\ k * w[i] + minus * n[i] \in Int
    BY <1>1
  <2>. QED BY <2>1
<1>4. \A i \in C : twice[i] <= above[i] /\ below[i] <= twice[i]
  <2>1. ASSUME NEW i \in C
        PROVE  twice[i] = 2 * r[i] /\ above[i] = 20000 * w[i] + n[i]
               /\ below[i] = 20000 * w[i] - n[i]
    BY <1>0, <1>1
  <2>. QED BY <1>2, <2>1
<1>5. /\ \A i \in C : twice[i] = c2 * r[i] + c0 * n[i]
      /\ \A i \in C : above[i] = k * w[i] + c1 * n[i]
      /\ \A i \in C : below[i] = k * w[i] + minus * n[i]
  OBVIOUS
<1> HIDE DEF twice, above, below
<1>6. SumFunction(twice) = c2 * SumFunction(r) + c0 * SumFunction(n)
  BY <1>1, <1>3, <1>5, SumLinear
<1>7. SumFunction(above) = k * SumFunction(w) + c1 * SumFunction(n)
  BY <1>1, <1>3, <1>5, SumLinear
<1>8. SumFunction(below) = k * SumFunction(w) + minus * SumFunction(n)
  BY <1>1, <1>3, <1>5, SumLinear
<1>9. SumFunction(twice) <= SumFunction(above)
  BY <1>1, <1>3, <1>4, SumMonotone
<1>10. SumFunction(below) <= SumFunction(twice)
  BY <1>1, <1>3, <1>4, SumMonotone
<1>11. SumFunction(r) \in Int /\ SumFunction(n) \in Int /\ SumFunction(w) \in Int
  <2>1. DOMAIN r = C /\ DOMAIN n = C /\ DOMAIN w = C /\ C \in SUBSET C
    BY <1>1
  <2>. QED BY <1>1, <2>1, SumUnfolded, SumType
<1>12. 2 * SumFunction(r) <= 20000 * SumFunction(w) + SumFunction(n)
       /\ 2 * SumFunction(r) >= 20000 * SumFunction(w) - SumFunction(n)
  BY <1>0, <1>6, <1>7, <1>8, <1>9, <1>10, <1>11
<1>. QED BY <1>11, <1>12 DEF n, w, r

\* Instances without an outcome have neither wins nor size.
LEMMA OnlyContributing ==
  ASSUME NEW observers \in [Observers -> Samples]
  PROVE  /\ SumFunction([i \in Observers |-> observers[i].wins])
              = SumFunction(WinCounts(observers))
         /\ SumFunction([i \in Observers |-> observers[i].size])
              = SumFunction(Sizes(observers))
<1> DEFINE C == Contributing(observers)
           wins == [i \in Observers |-> observers[i].wins]
           size == [i \in Observers |-> observers[i].size]
<1>1. IsFiniteSet(Observers) /\ C \in SUBSET Observers
      /\ \A i \in Observers : observers[i].wins \in Nat /\ observers[i].size \in Nat
                              /\ observers[i].wins <= observers[i].size
  BY SamplesTyped, JudgementsConfig
<1>2. \A i \in Observers \ C : observers[i].size = 0 /\ observers[i].wins = 0
  <2>1. \A i \in Observers \ C : ~(observers[i].size > 0)
    BY DEF Contributing
  <2>. QED BY <1>1, <2>1
<1>3. wins \in [Observers -> Int] /\ size \in [Observers -> Int]
      /\ WinCounts(observers) \in [C -> Int] /\ Sizes(observers) \in [C -> Int]
  BY <1>1, SamplesTyped
<1>4. \A i \in C : WinCounts(observers)[i] = wins[i] /\ Sizes(observers)[i] = size[i]
  BY <1>1 DEF WinCounts, Sizes
<1>5. \A i \in Observers \ C : wins[i] = 0 /\ size[i] = 0
  BY <1>2
<1> HIDE DEF wins, size, C
<1>6. SumFunction(WinCounts(observers)) = SumFunction(wins)
  <2>1. wins \in [Observers -> Int] /\ WinCounts(observers) \in [C -> Int]
        /\ \A i \in C : WinCounts(observers)[i] = wins[i]
    BY <1>3, <1>4
  <2>2. IsFiniteSet(Observers) /\ C \in SUBSET Observers /\ \A i \in Observers \ C : wins[i] = 0
    BY <1>1, <1>5
  <2>. QED BY <2>1, <2>2, SumWithoutZeros
<1>7. SumFunction(Sizes(observers)) = SumFunction(size)
  <2>1. size \in [Observers -> Int] /\ Sizes(observers) \in [C -> Int]
        /\ \A i \in C : Sizes(observers)[i] = size[i]
    BY <1>3, <1>4
  <2>2. IsFiniteSet(Observers) /\ C \in SUBSET Observers /\ \A i \in Observers \ C : size[i] = 0
    BY <1>1, <1>5
  <2>. QED BY <2>1, <2>2, SumWithoutZeros
<1>. QED BY <1>6, <1>7 DEF wins, size

\* aggregate_self_model(), for any number of instances and any samples: rounded once by
\* every instance and once more when merged, the win rate is within a basis point of the
\* wins among all outcomes.
THEOREM MergedAlwaysPooled == Spec => []MergedIsPooled
<1>1. AnswerInv => MergedIsPooled
  <2> SUFFICES ASSUME AnswerInv, call.what = "merge" PROVE MergedIsPooled
    BY DEF MergedIsPooled
  <2>1. PICK observers \in [Observers -> Samples] :
          Contributing(observers) # {} /\ call.observers = observers
          /\ call.answer = MergedRate(observers)
    BY AnswerOf DEF MergeAnswered
  <2>2. PICK n, w, r : n = SumFunction(Sizes(observers)) /\ w = SumFunction(WinCounts(observers))
                       /\ r = SumFunction(RatedWins(observers))
    OBVIOUS
  <2>3. r \in Int /\ n \in Int /\ w \in Int /\ 2 * r <= 20000 * w + n /\ 2 * r >= 20000 * w - n
    BY <2>2, SnapshotsNear
  <2>4. n \in Nat /\ n > 0
    <3>1. PICK i \in Contributing(observers) : Sizes(observers)[i] > 0
      BY <2>1, SamplesTyped DEF Sizes
    <3>. QED BY <2>2, <3>1, SamplesTyped, PositiveSum
  <2>5. call.answer = Rounded(r, n)
    BY <2>1, <2>2 DEF MergedRate, PooledSize, RatedWins, Sizes
  <2>6. PICK a : a = call.answer
    OBVIOUS
  <2>7. a \in Int /\ 2 * (a * n) <= 2 * r + n /\ 2 * (a * n) >= 2 * r - n
    BY <2>3, <2>4, <2>5, <2>6, RoundedNear
  <2>8. Distance(a * n, 10000 * w) <= n
    <3>1. a * n \in Int
      BY <2>3, <2>7
    <3>. QED BY <2>3, <2>7, <3>1 DEF Distance
  <2>9. SumFunction([i \in Observers |-> call.observers[i].wins]) = w
        /\ SumFunction([i \in Observers |-> call.observers[i].size]) = n
    BY <2>1, <2>2, OnlyContributing
  <2>. QED BY <2>6, <2>8, <2>9 DEF MergedIsPooled
<1>. QED BY <1>1, AnswersOnRecord, PTL

-----------------------------------------------------------------------------
(* Plans *)

Wrote(state, a) == [state EXCEPT ![a.key] = Assigned(a)]

IsWritten(state, as, g, S) ==
  g = [s \in SUBSET S |-> IF s = {} THEN state ELSE Wrote(g[s \ {Max(s)}], as[Max(s)])]

LEMMA ApplyUnfolded ==
  ASSUME NEW state, NEW as
  PROVE  Apply(state, as) = (CHOOSE g : IsWritten(state, as, g, DOMAIN as))[DOMAIN as]
BY DEF Apply, FoldLeft, MapThenFoldSet, IsWritten, Wrote

\* One step of a walk.
Stepped(run, a) ==
  IF run.verdict # "feasible" THEN run
  ELSE IF a \notin DOMAIN Schemas THEN [run EXCEPT !.verdict = "raised"]
  ELSE LET t == Simulate(run.state, a, TRUE)
       IN  [state   |-> t.to,
            verdict |-> IF t.succeeded THEN "feasible" ELSE "infeasible"]

IsWalked(start, plan, g, S) ==
  g = [s \in SUBSET S |-> IF s = {} THEN [state |-> start, verdict |-> "feasible"]
                          ELSE Stepped(g[s \ {Max(s)}], plan[Max(s)])]

LEMMA WalkUnfolded ==
  ASSUME NEW start, NEW plan
  PROVE  Walk(start, plan) = (CHOOSE g : IsWalked(start, plan, g, DOMAIN plan))[DOMAIN plan]
BY DEF Walk, FoldLeft, MapThenFoldSet, IsWalked, Stepped

LEMMA LeastNatural ==
  ASSUME NEW T \in SUBSET Nat, T # {}
  PROVE  \E m \in T : \A n \in T : m <= n
<1>1. PICK m \in T : \A n \in T : ~(<<n, m>> \in OpToRel(<, Nat))
  BY NatLessThanWellFounded, WFMin
<1>2. \A n \in T : ~(n < m)
  BY <1>1 DEF OpToRel
<1>. QED BY <1>2

LEMMA MaxFacts ==
  ASSUME NEW n \in Nat, NEW S \in SUBSET (1 .. n), S # {}
  PROVE  Max(S) \in S /\ \A j \in S : j <= Max(S)
<1> DEFINE T == {m \in Nat : \A j \in S : j <= m}
<1>1. T \in SUBSET Nat /\ n \in T
  OBVIOUS
<1>2. PICK m \in T : \A k \in T : m <= k
  <2> HIDE DEF T
  <2>. QED BY <1>1, LeastNatural
<1>3. m \in S
  <2>1. SUFFICES ASSUME m \notin S PROVE FALSE
    OBVIOUS
  <2>2. m \in Nat /\ \A j \in S : j <= m /\ j \in Nat /\ j >= 1
    BY <1>2
  <2>3. PICK i \in S : TRUE
    OBVIOUS
  <2>4. m - 1 \in Nat
    BY <2>2, <2>3
  <2>5. \A j \in S : j <= m - 1
    BY <2>1, <2>2
  <2>6. m - 1 \in T
    BY <2>4, <2>5
  <2>. QED BY <1>2, <2>2, <2>6
<1>4. \A j \in S : m >= j
  BY <1>2
<1>5. \E x \in S : \A y \in S : x >= y
  BY <1>3, <1>4
<1>6. Max(S) \in S /\ \A y \in S : Max(S) >= y
  BY <1>5 DEF Max
<1>7. \A y \in S : y \in Nat
  OBVIOUS
<1>. QED BY <1>6, <1>7

\* The greatest of a set is the one that is in it and above the others.
LEMMA MaxIs ==
  ASSUME NEW n \in Nat, NEW S \in SUBSET (1 .. n), NEW k \in S, \A j \in S : j <= k
  PROVE  Max(S) = k
<1>1. Max(S) \in S /\ \A j \in S : j <= Max(S)
  BY MaxFacts
<1>2. \A j \in S : j \in Nat
  OBVIOUS
<1>3. Max(S) <= k /\ k <= Max(S)
  BY <1>1
<1>4. PICK m \in Nat, l \in Nat : m = Max(S) /\ l = k
  BY <1>1, <1>2
<1>5. m <= l /\ l <= m
  BY <1>3, <1>4
<1>6. m = l
  BY <1>5
<1>. QED BY <1>4, <1>6

LEMMA MaxPrefix ==
  ASSUME NEW n \in Nat, NEW k \in 1 .. n
  PROVE  Max(1 .. k) = k /\ (1 .. k) \ {k} = 1 .. (k - 1) /\ 1 .. k # {}
<1>1. 1 .. k \in SUBSET (1 .. n) /\ k \in 1 .. k /\ \A j \in 1 .. k : j <= k
  OBVIOUS
<1>2. (1 .. k) \ {k} = 1 .. (k - 1)
  OBVIOUS
<1>. QED BY <1>1, <1>2, MaxIs

MaxPick(n) == [s \in SUBSET (1 .. n) |-> Max(s)]

LEMMA MaxPicks ==
  ASSUME NEW n \in Nat
  PROVE  /\ Picks(MaxPick(n), 1 .. n) /\ IsFiniteSet(1 .. n)
         /\ \A s \in SUBSET (1 .. n) : MaxPick(n)[s] = Max(s)
<1>1. \A s \in SUBSET (1 .. n) : MaxPick(n)[s] = Max(s)
  BY DEF MaxPick
<1>2. \A s \in SUBSET (1 .. n) : s # {} => Max(s) \in s
  BY MaxFacts
<1>3. IsFiniteSet(1 .. n)
  BY FS_Interval
<1>. QED BY <1>1, <1>2, <1>3 DEF Picks

LEMMA WroteTyped ==
  ASSUME NEW state \in States, NEW a \in Assignments
  PROVE  Wrote(state, a) \in States /\ a.key \in Keys
         /\ \A key \in Keys : Wrote(state, a)[key] = IF key = a.key THEN Assigned(a) ELSE state[key]
<1>1. a.key \in Keys /\ Assigned(a) \in Values
  BY DEF Assignments, Assigned, Values, True, Absent
<1>. QED BY <1>1 DEF States, Wrote

LEMMA SequenceFacts ==
  ASSUME NEW V, NEW s \in Seq(V)
  PROVE  Len(s) \in Nat /\ DOMAIN s = 1 .. Len(s) /\ \A k \in 1 .. Len(s) : s[k] \in V
OBVIOUS

\* Applying assignments, one after the other.
LEMMA ApplySteps ==
  ASSUME NEW state \in States, NEW as \in Seq(Assignments)
  PROVE  \E h \in [0 .. Len(as) -> States] :
           /\ h[0] = state /\ h[Len(as)] = Apply(state, as)
           /\ \A k \in 1 .. Len(as) : h[k] = Wrote(h[k - 1], as[k])
<1> DEFINE n == Len(as)  S == 1 .. n
           step == [x \in S |-> [v \in States |-> Wrote(v, as[x])]]
<1>1. n \in Nat /\ DOMAIN as = S /\ \A x \in S : as[x] \in Assignments
  BY SequenceFacts
<1>2. /\ Picks(MaxPick(n), S) /\ IsFiniteSet(S)
      /\ \A s \in SUBSET S : MaxPick(n)[s] = Max(s)
  BY <1>1, MaxPicks
<1>3. \A x \in S : \A v \in States : step[x][v] \in States /\ step[x][v] = Wrote(v, as[x])
  BY <1>1, WroteTyped
<1> HIDE DEF step, S, n
<1>4. PICK g0 : IsTable(state, MaxPick(n), step, g0, S)
  BY <1>2, TableFound
<1>5. \A s \in SUBSET S : g0[s] \in States
  BY <1>2, <1>3, <1>4, TableTyped
<1>6. ASSUME NEW s \in SUBSET S
      PROVE  g0[s] = IF s = {} THEN state ELSE Wrote(g0[s \ {Max(s)}], as[Max(s)])
  <2>1. g0[s] = Entry(state, MaxPick(n), step, g0, s)
    BY <1>4, TableEntry
  <2>2. g0[s] = IF s = {} THEN state ELSE step[Max(s)][g0[s \ {Max(s)}]]
    BY <1>2, <2>1 DEF Entry
  <2>3. ASSUME s # {} PROVE Max(s) \in S /\ s \ {Max(s)} \in SUBSET S
    BY <1>2, <2>3 DEF Picks
  <2>. QED BY <1>3, <1>5, <2>2, <2>3
<1>7. g0 = [s \in SUBSET S |-> g0[s]]
  BY <1>4 DEF IsTable
<1>8. IsWritten(state, as, g0, S)
  BY <1>6, <1>7 DEF IsWritten
<1>9. PICK g : g = CHOOSE f : IsWritten(state, as, f, S)
  OBVIOUS
<1>10. IsWritten(state, as, g, S) /\ Apply(state, as) = g[S]
  BY <1>1, <1>8, <1>9, ApplyUnfolded
<1>11. \A s \in SUBSET S : g[s] = IF s = {} THEN state ELSE Wrote(g[s \ {Max(s)}], as[Max(s)])
  BY <1>10 DEF IsWritten
<1> DEFINE h == [k \in 0 .. n |-> g[1 .. k]]
<1>12. h[0] = state /\ h[n] = Apply(state, as)
  <2>1. 1 .. 0 = {} /\ 1 .. 0 \in SUBSET S /\ 0 \in 0 .. n /\ n \in 0 .. n /\ 1 .. n = S
    BY <1>1 DEF S
  <2>. QED BY <1>10, <1>11, <2>1
<1>13. \A k \in 1 .. n : h[k] = Wrote(h[k - 1], as[k])
  <2>1. SUFFICES ASSUME NEW k \in 1 .. n PROVE h[k] = Wrote(h[k - 1], as[k])
    OBVIOUS
  <2>2. 1 .. k \in SUBSET S /\ k \in 0 .. n /\ k - 1 \in 0 .. n
    BY <1>1 DEF S
  <2>3. Max(1 .. k) = k /\ (1 .. k) \ {k} = 1 .. (k - 1) /\ 1 .. k # {}
    BY <1>1, MaxPrefix
  <2>4. g[1 .. k] = Wrote(g[1 .. (k - 1)], as[k])
    BY <1>11, <2>2, <2>3
  <2>. QED BY <2>2, <2>4
<1>14. h \in [0 .. n -> States]
  <2> DEFINE Bad == {k \in 0 .. n : h[k] \notin States}
  <2>1. SUFFICES ASSUME Bad # {} PROVE FALSE
    OBVIOUS
  <2>2. PICK k \in Bad : \A j \in Bad : k <= j
    <3>1. Bad \in SUBSET Nat
      BY <1>1
    <3> HIDE DEF Bad
    <3>. QED BY <2>1, <3>1, LeastNatural
  <2>3. k \in 0 .. n /\ h[k] \notin States
    BY <2>2
  <2>4. k # 0
    BY <1>12, <2>3
  <2>5. k - 1 \in 0 .. n /\ k - 1 < k /\ k \in 1 .. n
    BY <1>1, <2>3, <2>4
  <2>6. h[k - 1] \in States
    BY <1>1, <2>2, <2>5
  <2>7. as[k] \in Assignments
    BY <1>1, <2>5 DEF S
  <2> HIDE DEF h
  <2>. QED BY <1>13, <2>3, <2>5, <2>6, <2>7, WroteTyped
<1> HIDE DEF h
<1>. QED BY <1>12, <1>13, <1>14 DEF n

\* What a key holds after the first k assignments.
WrittenUpTo(as, k, key) == {j \in 1 .. k : as[j].key = key}
HeldAfter(state, as, k, key) ==
  IF WrittenUpTo(as, k, key) = {} THEN state[key]
  ELSE Assigned(as[Max(WrittenUpTo(as, k, key))])

LEMMA HeldNext ==
  ASSUME NEW state, NEW as, NEW k \in Nat, k > 0, NEW key
  PROVE  HeldAfter(state, as, k, key)
           = IF as[k].key = key THEN Assigned(as[k]) ELSE HeldAfter(state, as, k - 1, key)
<1> DEFINE W == WrittenUpTo(as, k, key)
<1>0. 1 .. k = (1 .. (k - 1)) \cup {k} /\ k \in 1 .. k /\ k \notin 1 .. (k - 1)
      /\ \A j \in 1 .. k : j <= k
  OBVIOUS
<1>1. CASE as[k].key = key
  <2>1. W \in SUBSET (1 .. k) /\ k \in W /\ \A j \in W : j <= k
    <3>1. W \in SUBSET (1 .. k) /\ k \in W
      BY <1>0, <1>1 DEF WrittenUpTo
    <3> HIDE DEF W
    <3>. QED BY <1>0, <3>1
  <2> HIDE DEF W
  <2>2. Max(W) = k /\ W # {}
    BY <2>1, MaxIs
  <2>. QED BY <1>1, <2>2 DEF HeldAfter, W
<1>2. CASE as[k].key # key
  <2>1. W = WrittenUpTo(as, k - 1, key)
    BY <1>0, <1>2, Zenon DEF WrittenUpTo
  <2>. QED BY <1>2, <2>1 DEF HeldAfter
<1>. QED BY <1>1, <1>2

\* Applying a sequence of assignments leaves what the last one to a key says.
LEMMA AppliedLast ==
  ASSUME NEW state \in States, NEW as \in Seq(Assignments)
  PROVE  /\ Apply(state, as) \in States
         /\ \A key \in Keys :
              Apply(state, as)[key] = IF WritesTo(as, key) = {} THEN state[key]
                                      ELSE Assigned(as[Max(WritesTo(as, key))])
<1> DEFINE n == Len(as)
<1>1. PICK h \in [0 .. n -> States] :
        /\ h[0] = state /\ h[n] = Apply(state, as)
        /\ \A k \in 1 .. n : h[k] = Wrote(h[k - 1], as[k])
  BY ApplySteps
<1>2. n \in Nat /\ DOMAIN as = 1 .. n /\ \A k \in 1 .. n : as[k] \in Assignments
  BY SequenceFacts
<1> HIDE DEF n
<1> DEFINE Right(k) == \A key \in Keys : h[k][key] = HeldAfter(state, as, k, key)
           Bad == {k \in 0 .. n : ~Right(k)}
<1>3. Bad = {}
  <2>1. SUFFICES ASSUME Bad # {} PROVE FALSE
    OBVIOUS
  <2>2. PICK k \in Bad : \A j \in Bad : k <= j
    <3>1. Bad \in SUBSET Nat
      BY <1>2
    <3> HIDE DEF Bad
    <3>. QED BY <2>1, <3>1, LeastNatural
  <2>3. k \in 0 .. n /\ ~Right(k)
    BY <2>2
  <2>4. k # 0
    <3>1. \A key \in Keys : WrittenUpTo(as, 0, key) = {}
      BY DEF WrittenUpTo
    <3>2. Right(0)
      BY <1>1, <3>1 DEF HeldAfter
    <3>. QED BY <2>3, <3>2
  <2>5. k - 1 \in 0 .. n /\ k - 1 < k /\ k \in 1 .. n /\ k \in Nat /\ k > 0
    BY <1>2, <2>3, <2>4
  <2>6. Right(k - 1)
    BY <1>2, <2>2, <2>5
  <2>7. h[k] = Wrote(h[k - 1], as[k]) /\ h[k - 1] \in States /\ as[k] \in Assignments
    BY <1>1, <1>2, <2>5
  <2>8. \A key \in Keys : h[k][key] = IF key = as[k].key THEN Assigned(as[k]) ELSE h[k - 1][key]
    <3>1. PICK a \in Assignments, v \in States : a = as[k] /\ v = h[k - 1] /\ h[k] = Wrote(v, a)
      BY <2>7
    <3>2. \A key \in Keys : Wrote(v, a)[key] = IF key = a.key THEN Assigned(a) ELSE v[key]
      BY WroteTyped
    <3>. QED BY <3>1, <3>2
  <2>9. ASSUME NEW key \in Keys PROVE h[k][key] = HeldAfter(state, as, k, key)
    <3>1. HeldAfter(state, as, k, key)
            = IF as[k].key = key THEN Assigned(as[k]) ELSE HeldAfter(state, as, k - 1, key)
      BY <2>5, HeldNext
    <3>2. h[k - 1][key] = HeldAfter(state, as, k - 1, key)
      BY <2>6
    <3>. QED BY <2>8, <3>1, <3>2
  <2>. QED BY <2>3, <2>9
<1>4. Right(n)
  BY <1>2, <1>3
<1>5. \A key \in Keys : WrittenUpTo(as, n, key) = WritesTo(as, key)
  BY <1>2 DEF WrittenUpTo, WritesTo
<1>6. Apply(state, as) \in States
  <2>1. n \in 0 .. n
    BY <1>2
  <2>. QED BY <1>1, <2>1
<1>. QED BY <1>1, <1>4, <1>5, <1>6 DEF HeldAfter

Verdicts == {"feasible", "infeasible", "raised"}
Walks == [state : States, verdict : Verdicts]

LEMMA SteppedTyped ==
  ASSUME NEW run \in Walks, NEW a PROVE Stepped(run, a) \in Walks
<1>1. run.state \in States /\ run.verdict \in Verdicts
      /\ run = [state |-> run.state, verdict |-> run.verdict]
  BY DEF Walks
<1>2. CASE run.verdict # "feasible"
  BY <1>2 DEF Stepped
<1>3. CASE run.verdict = "feasible" /\ a \notin DOMAIN Schemas
  <2>1. Stepped(run, a) = [state |-> run.state, verdict |-> "raised"]
    BY <1>1, <1>3 DEF Stepped
  <2>. QED BY <1>1, <2>1 DEF Walks, Verdicts
<1>4. CASE run.verdict = "feasible" /\ a \in DOMAIN Schemas
  <2>1. Apply(run.state, Schemas[a].success) \in States
    BY <1>1, <1>4, SchemasConfig, AppliedLast
  <2>2. Simulate(run.state, a, TRUE).to \in States
    BY <1>1, <2>1 DEF Simulate
  <2>3. Stepped(run, a) = [state |-> Simulate(run.state, a, TRUE).to,
                           verdict |-> IF Simulate(run.state, a, TRUE).succeeded
                                       THEN "feasible" ELSE "infeasible"]
    BY <1>4 DEF Stepped
  <2>4. PICK s \in States, v \in Verdicts : Stepped(run, a) = [state |-> s, verdict |-> v]
    BY <2>2, <2>3, Zenon DEF Verdicts
  <2>. QED BY <2>4 DEF Walks
<1>. QED BY <1>2, <1>3, <1>4

Begun(start) == [state |-> start, verdict |-> "feasible"]

\* A walk along a plan, one action after the other.
LEMMA WalkSteps ==
  ASSUME NEW start \in States, NEW n \in Nat, NEW plan \in [1 .. n -> ActionNames]
  PROVE  \E h \in [0 .. n -> Walks] :
           /\ h[0] = Begun(start) /\ h[n] = Walk(start, plan)
           /\ \A k \in 1 .. n : h[k] = Stepped(h[k - 1], plan[k])
<1> DEFINE S == 1 .. n
           step == [x \in S |-> [v \in Walks |-> Stepped(v, plan[x])]]
<1>1. DOMAIN plan = S /\ Begun(start) \in Walks
  BY DEF Walks, Verdicts, Begun
<1>2. /\ Picks(MaxPick(n), S) /\ IsFiniteSet(S)
      /\ \A s \in SUBSET S : MaxPick(n)[s] = Max(s)
  BY MaxPicks
<1>3. \A x \in S : \A v \in Walks : step[x][v] \in Walks /\ step[x][v] = Stepped(v, plan[x])
  BY SteppedTyped
<1> HIDE DEF step, S
<1>4. PICK g0 : IsTable(Begun(start), MaxPick(n), step, g0, S)
  BY <1>2, TableFound
<1>5. \A s \in SUBSET S : g0[s] \in Walks
  BY <1>1, <1>2, <1>3, <1>4, TableTyped
<1>6. ASSUME NEW s \in SUBSET S
      PROVE  g0[s] = IF s = {} THEN Begun(start) ELSE Stepped(g0[s \ {Max(s)}], plan[Max(s)])
  <2>1. g0[s] = Entry(Begun(start), MaxPick(n), step, g0, s)
    BY <1>4, TableEntry
  <2>2. g0[s] = IF s = {} THEN Begun(start) ELSE step[Max(s)][g0[s \ {Max(s)}]]
    BY <1>2, <2>1 DEF Entry
  <2>3. ASSUME s # {} PROVE Max(s) \in S /\ s \ {Max(s)} \in SUBSET S
    BY <1>2, <2>3 DEF Picks
  <2>. QED BY <1>3, <1>5, <2>2, <2>3
<1>7. g0 = [s \in SUBSET S |-> g0[s]]
  BY <1>4 DEF IsTable
<1>8. IsWalked(start, plan, g0, S)
  BY <1>6, <1>7 DEF IsWalked, Begun
<1>9. PICK g : g = CHOOSE f : IsWalked(start, plan, f, S)
  OBVIOUS
<1>10. IsWalked(start, plan, g, S) /\ Walk(start, plan) = g[S]
  BY <1>1, <1>8, <1>9, WalkUnfolded
<1>11. \A s \in SUBSET S :
         g[s] = IF s = {} THEN Begun(start) ELSE Stepped(g[s \ {Max(s)}], plan[Max(s)])
  BY <1>10 DEF IsWalked, Begun
<1> DEFINE h == [k \in 0 .. n |-> g[1 .. k]]
<1>12. h[0] = Begun(start) /\ h[n] = Walk(start, plan)
  <2>1. 1 .. 0 = {} /\ 1 .. 0 \in SUBSET S /\ 0 \in 0 .. n /\ n \in 0 .. n /\ 1 .. n = S
    BY DEF S
  <2>. QED BY <1>10, <1>11, <2>1
<1>13. \A k \in 1 .. n : h[k] = Stepped(h[k - 1], plan[k])
  <2>1. SUFFICES ASSUME NEW k \in 1 .. n PROVE h[k] = Stepped(h[k - 1], plan[k])
    OBVIOUS
  <2>2. 1 .. k \in SUBSET S /\ k \in 0 .. n /\ k - 1 \in 0 .. n
    BY DEF S
  <2>3. Max(1 .. k) = k /\ (1 .. k) \ {k} = 1 .. (k - 1) /\ 1 .. k # {}
    BY MaxPrefix
  <2>4. g[1 .. k] = Stepped(g[1 .. (k - 1)], plan[k])
    BY <1>11, <2>2, <2>3
  <2>. QED BY <2>2, <2>4
<1>14. h \in [0 .. n -> Walks]
  <2> DEFINE Bad == {k \in 0 .. n : h[k] \notin Walks}
  <2>1. SUFFICES ASSUME Bad # {} PROVE FALSE
    OBVIOUS
  <2>2. PICK k \in Bad : \A j \in Bad : k <= j
    <3>1. Bad \in SUBSET Nat
      OBVIOUS
    <3> HIDE DEF Bad
    <3>. QED BY <2>1, <3>1, LeastNatural
  <2>3. k \in 0 .. n /\ h[k] \notin Walks
    BY <2>2
  <2>4. k # 0
    BY <1>1, <1>12, <2>3
  <2>5. k - 1 \in 0 .. n /\ k - 1 < k /\ k \in 1 .. n
    BY <2>3, <2>4
  <2>6. h[k - 1] \in Walks
    BY <2>2, <2>5
  <2> HIDE DEF h
  <2>. QED BY <1>13, <2>3, <2>5, <2>6, SteppedTyped
<1> HIDE DEF h
<1>. QED BY <1>12, <1>13, <1>14

Known(plan, k) == plan[k] \in DOMAIN Schemas
Writers(plan, k, key) == {j \in 1 .. k : WritesTo(Schemas[plan[j]].success, key) # {}}

\* What an action leaves in a key is what its last assignment to it says.
LEMMA HoldsNext ==
  ASSUME NEW start, NEW plan, NEW k \in Nat, k > 0, NEW key
  PROVE  LET own == Schemas[plan[k]].success IN
         Holds(start, plan, k, key) = IF WritesTo(own, key) = {} THEN Holds(start, plan, k - 1, key)
                                      ELSE Assigned(own[Max(WritesTo(own, key))])
<1> DEFINE own == Schemas[plan[k]].success  W == Writers(plan, k, key)
<1>0. 1 .. k = (1 .. (k - 1)) \cup {k} /\ k \in 1 .. k /\ k \notin 1 .. (k - 1)
      /\ \A j \in 1 .. k : j <= k
  OBVIOUS
<1>1. CASE WritesTo(own, key) # {}
  <2>1. W \in SUBSET (1 .. k) /\ k \in W
    BY <1>0, <1>1 DEF Writers
  <2>2. Max(W) = k /\ W # {}
    <3> HIDE DEF W
    <3>. QED BY <1>0, <2>1, MaxIs
  <2>. QED BY <1>1, <2>2 DEF Holds, Writers
<1>2. CASE WritesTo(own, key) = {}
  <2>1. W = Writers(plan, k - 1, key)
    BY <1>0, <1>2, Zenon DEF Writers
  <2>. QED BY <1>2, <2>1 DEF Holds, Writers
<1>. QED BY <1>1, <1>2

\* What the walk stands on when every action so far has run.
Standing(start, plan, k) == [key \in Keys |-> Holds(start, plan, k, key)]

LEMMA RunsStanding ==
  ASSUME NEW start, NEW plan, NEW k, Known(plan, k)
  PROVE  PreconditionsMet(plan[k], Standing(start, plan, k - 1)) <=> Runs(start, plan, k)
BY DEF PreconditionsMet, Runs, Standing, Known

LEMMA StandingNext ==
  ASSUME NEW start, NEW plan, NEW k \in Nat, k > 0, Known(plan, k),
         Standing(start, plan, k - 1) \in States
  PROVE  Apply(Standing(start, plan, k - 1), Schemas[plan[k]].success) = Standing(start, plan, k)
<1> DEFINE own == Schemas[plan[k]].success
<1>1. PICK state \in States : state = Standing(start, plan, k - 1)
  OBVIOUS
<1>2. own \in Seq(Assignments)
  BY SchemasConfig DEF Known
<1>3. PICK to \in States : to = Apply(state, own)
  BY <1>2, AppliedLast
<1>4. ASSUME NEW key \in Keys PROVE to[key] = Holds(start, plan, k, key)
  <2>1. to[key] = IF WritesTo(own, key) = {} THEN state[key]
                  ELSE Assigned(own[Max(WritesTo(own, key))])
    BY <1>2, <1>3, AppliedLast
  <2>2. state[key] = Holds(start, plan, k - 1, key)
    BY <1>1 DEF Standing
  <2>3. Holds(start, plan, k, key)
          = IF WritesTo(own, key) = {} THEN Holds(start, plan, k - 1, key)
            ELSE Assigned(own[Max(WritesTo(own, key))])
    BY HoldsNext
  <2>. QED BY <2>1, <2>2, <2>3
<1>5. to = [key \in Keys |-> to[key]]
  BY DEF States
<1>6. to = Standing(start, plan, k)
  BY <1>4, <1>5 DEF Standing
<1>. QED BY <1>1, <1>3, <1>6

RunsTo(start, plan, k) == \A j \in 1 .. k : Known(plan, j) /\ Runs(start, plan, j)

\* What the verdict after k actions says of them.
Told(start, plan, k, run) ==
  /\ run.verdict = "feasible" =>
       RunsTo(start, plan, k) /\ run.state = Standing(start, plan, k)
  /\ run.verdict = "infeasible" =>
       \E j \in 1 .. k : RunsTo(start, plan, j - 1) /\ Known(plan, j) /\ ~Runs(start, plan, j)
  /\ run.verdict = "raised" =>
       \E j \in 1 .. k : RunsTo(start, plan, j - 1) /\ ~Known(plan, j)

LEMMA ToldNext ==
  ASSUME NEW start, NEW plan, NEW k \in Nat, k > 0, NEW run \in Walks,
         Told(start, plan, k - 1, run)
  PROVE  Told(start, plan, k, Stepped(run, plan[k]))
<1>0. 1 .. k = (1 .. (k - 1)) \cup {k} /\ k \in 1 .. k
  OBVIOUS
<1>1. CASE run.verdict # "feasible"
  <2>1. Stepped(run, plan[k]) = run
    BY <1>1 DEF Stepped
  <2>. QED BY <1>0, <1>1, <2>1 DEF Told
<1>2. CASE run.verdict = "feasible" /\ ~Known(plan, k)
  <2>1. Stepped(run, plan[k]).verdict = "raised"
    <3>1. run = [state |-> run.state, verdict |-> run.verdict]
      BY DEF Walks
    <3>. QED BY <1>2, <3>1 DEF Stepped, Known
  <2>. QED BY <1>0, <1>2, <2>1 DEF Told
<1>3. CASE run.verdict = "feasible" /\ Known(plan, k)
  <2>1. RunsTo(start, plan, k - 1) /\ run.state = Standing(start, plan, k - 1)
        /\ run.state \in States
    BY <1>3 DEF Told, Walks
  <2> DEFINE t == Simulate(run.state, plan[k], TRUE)
  <2>2. Stepped(run, plan[k])
          = [state |-> t.to, verdict |-> IF t.succeeded THEN "feasible" ELSE "infeasible"]
    BY <1>3 DEF Stepped, Known
  <2>3. PreconditionsMet(plan[k], run.state) <=> Runs(start, plan, k)
    BY <1>3, <2>1, RunsStanding
  <2>4. CASE Runs(start, plan, k)
    <3>1. t.to = Apply(run.state, Schemas[plan[k]].success) /\ t.succeeded = TRUE
      BY <2>3, <2>4 DEF Simulate
    <3>2. t.to = Standing(start, plan, k)
      BY <1>3, <2>1, <3>1, StandingNext
    <3>3. RunsTo(start, plan, k)
      BY <1>0, <1>3, <2>1, <2>4 DEF RunsTo
    <3> HIDE DEF t
    <3>. QED BY <2>2, <3>1, <3>2, <3>3 DEF Told
  <2>5. CASE ~Runs(start, plan, k)
    <3>1. t.succeeded = FALSE
      BY <2>3, <2>5 DEF Simulate
    <3> HIDE DEF t
    <3>. QED BY <1>0, <1>3, <2>1, <2>2, <2>5, <3>1 DEF Told
  <2>. QED BY <2>4, <2>5
<1>. QED BY <1>1, <1>2, <1>3

LEMMA WalkTold ==
  ASSUME NEW start \in States, NEW n \in Nat, NEW plan \in [1 .. n -> ActionNames]
  PROVE  Walk(start, plan) \in Walks /\ Told(start, plan, n, Walk(start, plan))
<1>1. PICK h \in [0 .. n -> Walks] :
        /\ h[0] = Begun(start) /\ h[n] = Walk(start, plan)
        /\ \A k \in 1 .. n : h[k] = Stepped(h[k - 1], plan[k])
  BY WalkSteps
<1> DEFINE Bad == {k \in 0 .. n : ~Told(start, plan, k, h[k])}
<1>2. Bad = {}
  <2>1. SUFFICES ASSUME Bad # {} PROVE FALSE
    OBVIOUS
  <2>2. PICK k \in Bad : \A j \in Bad : k <= j
    <3>1. Bad \in SUBSET Nat
      OBVIOUS
    <3> HIDE DEF Bad
    <3>. QED BY <2>1, <3>1, LeastNatural
  <2>3. k \in 0 .. n /\ ~Told(start, plan, k, h[k])
    BY <2>2
  <2>4. k # 0
    <3>1. 1 .. 0 = {}
      OBVIOUS
    <3>2. Standing(start, plan, 0) = start
      <4>1. \A key \in Keys : Holds(start, plan, 0, key) = start[key]
        BY <3>1 DEF Holds
      <4>2. start = [key \in Keys |-> start[key]]
        BY DEF States
      <4>. QED BY <4>1, <4>2 DEF Standing
    <3>3. Told(start, plan, 0, Begun(start))
      BY <3>1, <3>2 DEF Told, Begun, RunsTo
    <3>. QED BY <1>1, <2>3, <3>3
  <2>5. k - 1 \in 0 .. n /\ k - 1 < k /\ k \in 1 .. n /\ k \in Nat /\ k > 0
    BY <2>3, <2>4
  <2>6. Told(start, plan, k - 1, h[k - 1]) /\ h[k - 1] \in Walks
    BY <1>1, <2>2, <2>5
  <2>7. Told(start, plan, k, Stepped(h[k - 1], plan[k]))
    BY <2>5, <2>6, ToldNext
  <2>. QED BY <1>1, <2>3, <2>5, <2>7
<1>3. n \in 0 .. n
  OBVIOUS
<1>. QED BY <1>1, <1>2, <1>3

\* The verdict on a plan is that of the reference.
LEMMA VerdictForecast ==
  ASSUME NEW start \in States, NEW n \in Nat, NEW plan \in [1 .. n -> ActionNames]
  PROVE  PlanIsFeasible(start, plan) = Forecast(start, plan)
<1> DEFINE run == Walk(start, plan)
           unknown == {k \in DOMAIN plan : plan[k] \notin DOMAIN Schemas}
           known == {k \in DOMAIN plan : \A u \in unknown : k < u}
<1>1. run \in Walks /\ Told(start, plan, n, run)
  BY WalkTold
<1>2. run.verdict \in {"feasible", "infeasible", "raised"}
  BY <1>1 DEF Walks, Verdicts
<1>3. DOMAIN plan = 1 .. n /\ unknown = {k \in 1 .. n : ~Known(plan, k)}
      /\ known = {k \in 1 .. n : \A u \in unknown : k < u}
  BY DEF Known
<1>4. Forecast(start, plan)
        = IF \E k \in known : ~Runs(start, plan, k) THEN "infeasible"
          ELSE IF unknown # {} THEN "raised" ELSE "feasible"
  BY DEF Forecast
<1> HIDE DEF run, unknown, known
<1>5. CASE run.verdict = "feasible"
  <2>1. RunsTo(start, plan, n)
    BY <1>1, <1>5 DEF Told
  <2>2. unknown = {} /\ \A k \in known : Runs(start, plan, k)
    BY <1>3, <2>1 DEF RunsTo
  <2>. QED BY <1>4, <1>5, <2>2 DEF run, PlanIsFeasible
<1>6. CASE run.verdict = "infeasible"
  <2>1. PICK j \in 1 .. n : RunsTo(start, plan, j - 1) /\ Known(plan, j) /\ ~Runs(start, plan, j)
    BY <1>1, <1>6 DEF Told
  <2>2. ASSUME NEW u \in unknown PROVE j < u
    <3>1. u \in 1 .. n /\ ~Known(plan, u)
      BY <1>3
    <3>2. u # j /\ u \notin 1 .. (j - 1)
      BY <2>1, <3>1 DEF RunsTo
    <3>. QED BY <2>1, <3>1, <3>2
  <2>3. j \in known
    BY <1>3, <2>2
  <2>. QED BY <1>4, <1>6, <2>1, <2>3 DEF run, PlanIsFeasible
<1>7. CASE run.verdict = "raised"
  <2>1. PICK j \in 1 .. n : RunsTo(start, plan, j - 1) /\ ~Known(plan, j)
    BY <1>1, <1>7 DEF Told
  <2>2. j \in unknown
    BY <1>3, <2>1
  <2>3. ASSUME NEW k \in known PROVE Runs(start, plan, k)
    <3>1. k \in 1 .. n /\ k < j
      BY <1>3, <2>2
    <3>2. k \in 1 .. (j - 1)
      BY <3>1
    <3>. QED BY <2>1, <3>2 DEF RunsTo
  <2>. QED BY <1>4, <1>7, <2>2, <2>3 DEF run, PlanIsFeasible
<1>. QED BY <1>2, <1>5, <1>6, <1>7

LEMMA PlanTyped ==
  ASSUME NEW m \in Int, NEW plan \in PlansUpTo(m)
  PROVE  \E n \in Nat : plan \in [1 .. n -> ActionNames]
BY DEF PlansUpTo

ForecastsOf(start, plans, limit) ==
  LET tried == {k \in DOMAIN plans : k <= limit}
  IN  IF \E k \in tried : Forecast(start, plans[k]) = "raised" THEN <<"raised">>
      ELSE [k \in tried |-> Forecast(start, plans[k])]

\* The verdicts of two candidates tried one after the other.
LEMMA CounterfactualForecast ==
  ASSUME NEW start \in States, NEW n1 \in Nat, NEW p \in [1 .. n1 -> ActionNames],
         NEW n2 \in Nat, NEW q \in [1 .. n2 -> ActionNames], NEW limit \in 0 .. 3
  PROVE  CounterfactualSequences(start, <<p, q>>, limit) = ForecastsOf(start, <<p, q>>, limit)
<1> DEFINE plans == <<p, q>>
           bound == IF limit < 2 THEN limit ELSE 2
           tried == {k \in DOMAIN plans : k <= limit}
           cut == SubSeq(plans, 1, bound)
           found == [k \in DOMAIN cut |-> PlanIsFeasible(start, cut[k])]
<1>1. DOMAIN plans = 1 .. 2 /\ Len(plans) = 2 /\ plans[1] = p /\ plans[2] = q
  OBVIOUS
<1>2. bound \in 0 .. 2 /\ tried = 1 .. bound
  BY <1>1
<1>3. DOMAIN cut = 1 .. bound /\ \A k \in 1 .. bound : cut[k] = plans[k]
  <2>1. cut = [k \in 1 .. bound |-> plans[k]]
    BY <1>1, <1>2 DEF SubSeq
  <2>. QED BY <2>1
<1>4. CounterfactualSequences(start, plans, limit)
        = IF \E k \in DOMAIN found : found[k] = "raised" THEN <<"raised">> ELSE found
  BY <1>1 DEF CounterfactualSequences
<1>5. \A k \in 1 .. 2 : PlanIsFeasible(start, plans[k]) = Forecast(start, plans[k])
  BY <1>1, VerdictForecast
<1> HIDE DEF plans, bound, tried, cut
<1>6. DOMAIN found = tried
  BY <1>2, <1>3
<1>7. \A k \in tried : found[k] = Forecast(start, plans[k])
  BY <1>2, <1>3, <1>5
<1>8. found = [k \in tried |-> Forecast(start, plans[k])]
  BY <1>6, <1>7
<1> HIDE DEF found
<1>9. CounterfactualSequences(start, plans, limit)
        = IF \E k \in tried : Forecast(start, plans[k]) = "raised" THEN <<"raised">>
          ELSE [k \in tried |-> Forecast(start, plans[k])]
  BY <1>4, <1>6, <1>7, <1>8
<1>. QED BY <1>9 DEF plans, tried, ForecastsOf

\* plan_is_feasible(), counterfactual_sequences(), for any schemas, starting state and plan:
\* the verdict is what the last write of every key makes of the preconditions.
THEOREM VerdictByLastWriter == Spec => []FeasibleByLastWriter
<1>1. AnswerInv => FeasibleByLastWriter
  <2> SUFFICES ASSUME AnswerInv PROVE FeasibleByLastWriter
    OBVIOUS
  <2>1. Starts \subseteq States /\ MaxActions \in Nat
    BY JudgementsConfig
  <2>2. ASSUME call.what = "plan" PROVE call.answer = Forecast(call.start, call.plan)
    <3>1. PICK start \in Starts, plan \in PlansUpTo(MaxActions) :
            call.start = start /\ call.plan = plan /\ call.answer = PlanIsFeasible(start, plan)
      BY <2>2, AnswerOf DEF PlanAnswered
    <3>2. PICK n \in Nat : plan \in [1 .. n -> ActionNames]
      BY <2>1, PlanTyped
    <3>3. start \in States
      BY <2>1
    <3>. QED BY <3>1, <3>2, <3>3, VerdictForecast
  <2>3. ASSUME call.what = "plans"
        PROVE  call.answer = ForecastsOf(call.start, call.plans, call.limit)
    <3>0. PICK start \in Starts, p \in PlansUpTo(MaxActions - 1),
               q \in PlansUpTo(MaxActions - 1), limit \in 0 .. 3 :
            call = [what |-> "plans", start |-> start, plans |-> <<p, q>>, limit |-> limit,
                    answer |-> CounterfactualSequences(start, <<p, q>>, limit)]
      BY <2>3, AnswerOf DEF PlansAnswered
    <3>1. /\ call.start = start /\ call.plans = <<p, q>> /\ call.limit = limit
          /\ call.answer = CounterfactualSequences(start, <<p, q>>, limit)
      BY <3>0
    <3>2. PICK n1 \in Nat : p \in [1 .. n1 -> ActionNames]
      BY <2>1, PlanTyped
    <3>3. PICK n2 \in Nat : q \in [1 .. n2 -> ActionNames]
      BY <2>1, PlanTyped
    <3>4. start \in States
      BY <2>1
    <3>5. CounterfactualSequences(start, <<p, q>>, limit) = ForecastsOf(start, <<p, q>>, limit)
      BY <3>2, <3>3, <3>4, CounterfactualForecast
    <3>. QED BY <3>1, <3>5
  <2>. QED BY <2>2, <2>3 DEF FeasibleByLastWriter, ForecastsOf
<1>. QED BY <1>1, AnswersOnRecord, PTL
=============================================================================
