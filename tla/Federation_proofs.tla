--------------------------- MODULE Federation_proofs ---------------------------
(***************************************************************************)
(* The federation for any number of instances, task classes, procedures    *)
(* and reports: it is type correct, and validates by the merge rule.  A    *)
(* report adds its instance and class to the support of its procedure, and *)
(* only if its rate is above the threshold; a check validates all the rule *)
(* permits, which is no less than it demands; everything else changes the  *)
(* standing of procedures or nothing the rule knows of.                    *)
(***************************************************************************)
EXTENDS Federation, SequenceTheorems, FiniteSetTheorems, TLAPS

\* Positions of a sequence of procedures, and what a new status leaves of it.
LEMMA SetStatusType ==
  ASSUME shared \in Seq(SharedProcedures), NEW ps, NEW status \in Statuses
  PROVE  /\ SetStatus(ps, status) \in Seq(SharedProcedures)
         /\ DOMAIN SetStatus(ps, status) = DOMAIN shared
         /\ Len(SetStatus(ps, status)) = Len(shared)
         /\ \A p \in DOMAIN shared :
              SetStatus(ps, status)[p].status =
                IF p \in ps THEN status ELSE shared[p].status
<1> DEFINE new == SetStatus(ps, status)
<1>1. Len(shared) \in Nat /\ DOMAIN shared = 1 .. Len(shared)
      /\ \A p \in DOMAIN shared : shared[p] \in SharedProcedures
  OBVIOUS
<1>2. \A p \in DOMAIN shared :
        /\ new[p] = IF p \in ps THEN [shared[p] EXCEPT !.status = status] ELSE shared[p]
        /\ new[p] \in SharedProcedures
        /\ new[p].status = IF p \in ps THEN status ELSE shared[p].status
  BY <1>1 DEF SetStatus, SharedProcedures
<1>3. new \in [1 .. Len(shared) -> SharedProcedures]
  BY <1>1, <1>2 DEF SetStatus
<1>4. new \in Seq(SharedProcedures)
  BY <1>1, <1>3, SeqDef
<1>5. DOMAIN new = DOMAIN shared /\ Len(new) = Len(shared)
  BY <1>1, <1>3, <1>4
<1>. QED BY <1>2, <1>4, <1>5

LEMMA RegisterType ==
  ASSUME shared \in Seq(SharedProcedures), NEW c \in TaskClasses
  PROVE  /\ Register(c) \in Seq(SharedProcedures)
         /\ Len(Register(c)) = Len(shared) + 1
         /\ DOMAIN Register(c) = DOMAIN shared \cup {Len(shared) + 1}
         /\ Register(c)[Len(shared) + 1].status = "candidate"
         /\ \A p \in DOMAIN shared : Register(c)[p] = shared[p]
<1> DEFINE entry == [class |-> c, status |-> "candidate"]
<1>1. entry \in SharedProcedures
  BY DEF SharedProcedures, Statuses
<1>2. Register(c) = Append(shared, entry) /\ entry.status = "candidate"
  BY DEF Register
<1> HIDE DEF entry
<1>. QED BY <1>1, <1>2

\* Type correctness of the federation.
THEOREM FederationTyped == Spec => []TypeOK
<1>1. Init => TypeOK
  BY FederationConfig DEF Init, TypeOK
<1>2. TypeOK /\ [Next]_vars => TypeOK'
  <2> SUFFICES ASSUME TypeOK, [Next]_vars PROVE TypeOK'
    OBVIOUS
  <2>t. shared \in Seq(SharedProcedures) /\ Len(shared) \in Nat
        /\ DOMAIN shared = 1 .. Len(shared) /\ Len(shared) <= MaxProcedures
        /\ MaxProcedures \in Nat
        /\ \A p \in DOMAIN shared : shared[p] \in SharedProcedures
    BY FederationConfig DEF TypeOK
  <2>1. ASSUME NEW i \in Instances, RegisterInstance(i) PROVE TypeOK'
    BY <2>1 DEF TypeOK, RegisterInstance
  <2>2. ASSUME NEW i \in Instances, NEW c \in TaskClasses, ProposeCandidate(i, c)
        PROVE  TypeOK'
    <3>1. shared' = Register(c) /\ Len(shared) < MaxProcedures
      BY <2>2 DEF ProposeCandidate
    <3>2. shared' \in Seq(SharedProcedures) /\ Len(shared') <= MaxProcedures
      BY <2>t, <3>1, RegisterType
    <3>. QED BY <2>2, <3>2 DEF TypeOK, ProposeCandidate
  <2>3. ASSUME NEW i \in Instances, NEW p \in DOMAIN shared, NEW rate \in ReportedRates,
               NEW c \in TaskClasses \cup {"none"}, ReportUsage(i, p, rate, c)
        PROVE  TypeOK'
    <3> DEFINE about == IF c = "none" /\ Present(p) THEN shared[p].class ELSE c
               r     == [instance |-> i, procedure |-> p, class |-> about, rate |-> rate]
    <3>1. about \in TaskClasses \/ about = "none"
      BY <2>t DEF SharedProcedures
    <3>2. p \in 1 .. MaxProcedures
      BY <2>t
    <3>3. about # "none" => r \in Reports
      BY <3>1, <3>2 DEF Reports
    <3>4. reports' = reports \cup (IF about = "none" THEN {} ELSE {r})
      BY <2>3 DEF ReportUsage
    <3>5. reports' \subseteq Reports
      BY <3>3, <3>4 DEF TypeOK
    <3>. QED BY <2>3, <3>5 DEF TypeOK, ReportUsage
  <2>4. CASE CheckValidations
    <3>1. PICK ps : shared' = SetStatus(ps, "validated")
      BY <2>4 DEF CheckValidations
    <3>2. shared' \in Seq(SharedProcedures) /\ Len(shared') <= MaxProcedures
      BY <2>t, <3>1, SetStatusType DEF Statuses
    <3>. QED BY <2>4, <3>2 DEF TypeOK, CheckValidations
  <2>5. CASE RecordLocalOverride
    BY <2>5, FederationConfig DEF TypeOK, RecordLocalOverride
  <2>6. ASSUME NEW i \in Adopters, BuildManager(i) PROVE TypeOK'
    BY <2>6, FederationConfig DEF TypeOK, BuildManager
  <2>7. ASSUME NEW i \in Adopters, NEW c \in TaskClasses, RegisterProcedure(i, c)
        PROVE  TypeOK'
    <3>1. shared' = Register(c) /\ Len(shared) < MaxProcedures
      BY <2>7 DEF RegisterProcedure
    <3>2. shared' \in Seq(SharedProcedures) /\ Len(shared') <= MaxProcedures
      BY <2>t, <3>1, RegisterType
    <3>. QED BY <2>7, <3>2 DEF TypeOK, RegisterProcedure
  <2>8. ASSUME NEW i \in Adopters, NEW p \in DOMAIN shared, Retire(i, p) PROVE TypeOK'
    <3>1. shared' \in Seq(SharedProcedures) /\ Len(shared') <= MaxProcedures
      BY <2>t, <2>8, SetStatusType DEF Retire, Statuses
    <3>. QED BY <2>8, <3>1 DEF TypeOK, Retire
  <2>9. ASSUME NEW p \in DOMAIN shared, Delete(p) PROVE TypeOK'
    <3>1. shared' \in Seq(SharedProcedures) /\ Len(shared') <= MaxProcedures
      BY <2>t, <2>9, SetStatusType DEF Delete, Statuses
    <3>. QED BY <2>9, <3>1 DEF TypeOK, Delete
  <2>10. CASE UNCHANGED vars
    BY <2>10 DEF TypeOK, vars
  <2>. QED
    BY <2>1, <2>2, <2>3, <2>4, <2>5, <2>6, <2>7, <2>8, <2>9, <2>10 DEF Next
<1>. QED BY <1>1, <1>2, PTL DEF Spec

-----------------------------------------------------------------------------
(* The refinement *)

Support == [p \in 1 .. MaxProcedures |-> Backing(p)]

\* What happens to one procedure of the merge rule, and to no other.
LEMMA NewStatusIsBecome ==
  ASSUME TypeOK, NEW p \in DOMAIN shared, NEW status \in Statuses,
         shared' = SetStatus({p}, status), UNCHANGED reports
  PROVE  /\ Standing' = [Standing EXCEPT ![p] = status]
         /\ UNCHANGED Support
         /\ p \in 1 .. MaxProcedures /\ Standing[p] = shared[p].status
<1>1. Len(shared) \in Nat /\ DOMAIN shared = 1 .. Len(shared) /\ Len(shared) <= MaxProcedures
  BY DEF TypeOK
<1>2. /\ DOMAIN shared' = DOMAIN shared
      /\ \A q \in DOMAIN shared :
           shared'[q].status = IF q \in {p} THEN status ELSE shared[q].status
  BY SetStatusType DEF TypeOK
<1>3. p \in 1 .. MaxProcedures
  BY <1>1, FederationConfig
<1>4. Standing' = [Standing EXCEPT ![p] = status]
  BY <1>2, <1>3 DEF Standing
<1>. QED BY <1>3, <1>4 DEF Standing, Support, Backing, GoodReports

\* A new procedure is one the rule did not know.
LEMMA RegisterIsPropose ==
  ASSUME TypeOK, NEW c \in TaskClasses,
         Len(shared) < MaxProcedures, shared' = Register(c), UNCHANGED reports
  PROVE  \E p \in 1 .. MaxProcedures : Rule!Propose(p)
<1> DEFINE n == Len(shared) + 1
<1>1. Len(shared) \in Nat /\ DOMAIN shared = 1 .. Len(shared) /\ MaxProcedures \in Nat
  BY FederationConfig DEF TypeOK
<1>2. n \in 1 .. MaxProcedures /\ n \notin DOMAIN shared
  BY <1>1
<1>3. /\ DOMAIN shared' = DOMAIN shared \cup {n}
      /\ shared'[n].status = "candidate"
      /\ \A p \in DOMAIN shared : shared'[p] = shared[p]
  BY RegisterType DEF TypeOK
<1> HIDE DEF n
<1>4. Standing[n] = "unknown"
  BY <1>2 DEF Standing
<1>5. Standing' = [Standing EXCEPT ![n] = "candidate"]
  BY <1>2, <1>3 DEF Standing
<1>6. UNCHANGED Support
  BY DEF Support, Backing, GoodReports
<1>7. Rule!Propose(n)
  BY <1>2, <1>4, <1>5, <1>6 DEF Rule!Propose, Rule!Become, Support
<1>. QED BY <1>2, <1>7

\* A report makes its instance a supporter, or changes nothing the rule knows of.
LEMMA ReportIsSupport ==
  ASSUME TypeOK, NEW i \in Instances, NEW p \in DOMAIN shared, NEW rate \in ReportedRates,
         NEW c \in TaskClasses \cup {"none"}, ReportUsage(i, p, rate, c)
  PROVE  (\E d \in TaskClasses : Rule!Support(p, i, d)) \/ UNCHANGED Rule!vars
<1> DEFINE about == IF c = "none" /\ Present(p) THEN shared[p].class ELSE c
           r     == [instance |-> i, procedure |-> p, class |-> about, rate |-> rate]
<1>1. p \in 1 .. MaxProcedures /\ shared[p] \in SharedProcedures
  BY FederationConfig DEF TypeOK
<1>2. reports' = reports \cup (IF about = "none" THEN {} ELSE {r}) /\ UNCHANGED shared
  BY DEF ReportUsage
<1>3. UNCHANGED Standing
  BY <1>2 DEF Standing
<1>4. r.procedure = p /\ r.instance = i /\ r.class = about /\ r.rate = rate
  OBVIOUS
<1>c. about \in TaskClasses \/ about = "none"
  BY <1>1 DEF SharedProcedures
<1> HIDE DEF r, about
<1>5. CASE about # "none" /\ rate > Threshold
  <2>1. \A q : GoodReports(q)' = IF q = p THEN GoodReports(q) \cup {r} ELSE GoodReports(q)
    BY <1>2, <1>4, <1>5 DEF GoodReports
  <2>2. \A q : Backing(q)' = IF q = p THEN Backing(q) \cup {<<i, about>>} ELSE Backing(q)
    BY <1>4, <2>1 DEF Backing
  <2>3. Support' = [Support EXCEPT ![p] = @ \cup {<<i, about>>}]
    BY <1>1, <2>2 DEF Support
  <2>4. Standing[p] # "unknown"
    BY <1>1 DEF Standing, SharedProcedures, Statuses
  <2>. QED BY <1>3, <1>5, <1>c, <2>3, <2>4 DEF Rule!Support, Support
<1>6. CASE ~(about # "none" /\ rate > Threshold)
  <2>1. \A q : GoodReports(q)' = GoodReports(q)
    BY <1>2, <1>4, <1>6 DEF GoodReports
  <2>2. UNCHANGED Support
    BY <2>1 DEF Support, Backing
  <2>. QED BY <1>3, <2>2 DEF Rule!vars, Support
<1>. QED BY <1>5, <1>6

\* The supporters the rule counts over all classes are those the coordinator counts, and
\* none are found on a single class that are not among them.
LEMMA BackersAreSupporters ==
  ASSUME TypeOK, NEW p \in 1 .. MaxProcedures
  PROVE  /\ Rule!SupportersOn(p, TaskClasses) = Backers(p)
         /\ \A c : Rule!SupportersOn(p, {c}) \subseteq Backers(p)
         /\ Backers(p) \subseteq Instances
<1> DEFINE on(classes) == {s[1] : s \in {s \in Backing(p) : s[2] \in classes}}
<1>1. \A classes : Rule!SupportersOn(p, classes) = on(classes)
  BY DEF Rule!SupportersOn
<1>2. \A r \in GoodReports(p) : r.class \in TaskClasses /\ r.instance \in Instances
  BY DEF GoodReports, TypeOK, Reports
<1>3. \A s \in Backing(p) : s[1] \in Backers(p) /\ s[2] \in TaskClasses
  BY <1>2 DEF Backing, Backers
<1>4. ASSUME NEW i \in Backers(p) PROVE \E s \in Backing(p) : s[1] = i
  <2>1. PICK r \in GoodReports(p) : r.instance = i
    BY DEF Backers
  <2>2. <<r.instance, r.class>> \in Backing(p)
    BY DEF Backing
  <2>. QED BY <2>1, <2>2
<1>5. on(TaskClasses) = Backers(p) /\ \A c : on({c}) \subseteq Backers(p)
  BY <1>3, <1>4
<1>6. Backers(p) \subseteq Instances
  BY <1>2 DEF Backers
<1>. QED BY <1>1, <1>5, <1>6

\* A check validates all the rule permits, among them all it demands.
LEMMA CheckIsValidate ==
  ASSUME TypeOK, CheckValidations
  PROVE  Rule!Validate
<1> DEFINE ps == {p \in DOMAIN shared : /\ shared[p].status = "candidate"
                                        /\ Cardinality(Backers(p)) >= MinInstances}
           Enough == {S \in SUBSET Instances : Cardinality(S) >= MinInstances}
<1>1. Len(shared) \in Nat /\ DOMAIN shared = 1 .. Len(shared) /\ Len(shared) <= MaxProcedures
      /\ MaxProcedures \in Nat
  BY FederationConfig DEF TypeOK
<1>2. shared' = SetStatus(ps, "validated") /\ UNCHANGED reports
  BY DEF CheckValidations
<1>c. \A p \in 1 .. MaxProcedures :
        Standing[p] = "candidate" <=> p \in DOMAIN shared /\ shared[p].status = "candidate"
  BY DEF Standing
<1>b. \A p \in 1 .. MaxProcedures : Backers(p) \in Enough <=> Cardinality(Backers(p)) >= MinInstances
  BY BackersAreSupporters
<1>3. Rule!Entitled = ps
  <2>1. Rule!Entitled = {p \in 1 .. MaxProcedures : Standing[p] = "candidate"
                                                    /\ Rule!SupportersOn(p, TaskClasses) \in Enough}
    BY DEF Rule!Entitled, Rule!Candidates
  <2>2. \A p \in 1 .. MaxProcedures : Rule!SupportersOn(p, TaskClasses) = Backers(p)
    BY BackersAreSupporters
  <2>3. \A p \in DOMAIN shared : p \in 1 .. MaxProcedures
    BY <1>1
  <2> HIDE DEF Enough
  <2>. QED BY <1>c, <1>b, <2>1, <2>2, <2>3
<1>o. Rule!Owed \subseteq ps
  <2> SUFFICES ASSUME NEW p \in Rule!Owed PROVE p \in ps
    OBVIOUS
  <2>1. p \in 1 .. MaxProcedures /\ Standing[p] = "candidate"
    BY DEF Rule!Owed, Rule!Candidates
  <2>2. PICK c \in TaskClasses : Rule!SupportersOn(p, {c}) \in Enough
    BY DEF Rule!Owed
  <2>3. Rule!SupportersOn(p, {c}) \subseteq Backers(p) /\ Backers(p) \subseteq Instances
    BY <2>1, BackersAreSupporters
  <2> DEFINE on == Rule!SupportersOn(p, {c})
  <2>4. on \subseteq Backers(p) /\ IsFiniteSet(Backers(p)) /\ Cardinality(on) >= MinInstances
    BY <2>2, <2>3, FederationConfig, FS_Subset
  <2> HIDE DEF on
  <2>5. Cardinality(Backers(p)) \in Nat /\ Cardinality(on) \in Nat
        /\ Cardinality(on) <= Cardinality(Backers(p))
    BY <2>4, FS_Subset, FS_CardinalityType
  <2>6. Cardinality(Backers(p)) >= MinInstances
    BY <2>4, <2>5, FederationConfig
  <2>. QED BY <1>c, <2>1, <2>6
<1> HIDE DEF ps
<1>4. /\ DOMAIN shared' = DOMAIN shared
      /\ \A p \in DOMAIN shared :
           shared'[p].status = IF p \in ps THEN "validated" ELSE shared[p].status
  BY <1>2, SetStatusType DEF TypeOK, Statuses
<1>5. ps \subseteq DOMAIN shared
  BY DEF ps
<1>6. Standing' = [p \in 1 .. MaxProcedures |->
                     IF p \in ps THEN "validated" ELSE Standing[p]]
  BY <1>4, <1>5 DEF Standing
<1>7. UNCHANGED Support
  BY <1>2 DEF Support, Backing, GoodReports
<1>. QED BY <1>3, <1>o, <1>6, <1>7, Zenon DEF Rule!Validate, Support

\* Whatever the order, repetition and contents of reports, and whatever is retired or
\* deleted between checks, validation follows the merge rule.
THEOREM FederationImplementsRule == Spec => ImplementsRule
<1>1. Init => Rule!Init
  BY DEF Init, Rule!Init, Standing, Backing, GoodReports
<1>2. TypeOK /\ [Next]_vars => [Rule!Next]_(Rule!vars)
  <2> SUFFICES ASSUME TypeOK, [Next]_vars PROVE Rule!Next \/ UNCHANGED Rule!vars
    OBVIOUS
  <2>0. \A p \in DOMAIN shared : p \in 1 .. MaxProcedures
    BY FederationConfig DEF TypeOK
  <2>1. UNCHANGED <<shared, reports>> => UNCHANGED Rule!vars
    BY DEF Rule!vars, Standing, Backing, GoodReports
  <2>2. ASSUME NEW i \in Instances, RegisterInstance(i) PROVE UNCHANGED Rule!vars
    BY <2>1, <2>2 DEF RegisterInstance
  <2>3. ASSUME NEW i \in Instances, NEW c \in TaskClasses, ProposeCandidate(i, c)
        PROVE  Rule!Next
    BY <2>3, RegisterIsPropose DEF ProposeCandidate, Rule!Next
  <2>4. ASSUME NEW i \in Instances, NEW p \in DOMAIN shared, NEW rate \in ReportedRates,
               NEW c \in TaskClasses \cup {"none"}, ReportUsage(i, p, rate, c)
        PROVE  Rule!Next \/ UNCHANGED Rule!vars
    BY <2>0, <2>4, ReportIsSupport, Zenon DEF Rule!Next
  <2>5. CASE CheckValidations
    BY <2>5, CheckIsValidate DEF Rule!Next
  <2>6. CASE RecordLocalOverride
    BY <2>1, <2>6 DEF RecordLocalOverride
  <2>7. ASSUME NEW i \in Adopters, BuildManager(i) PROVE UNCHANGED Rule!vars
    BY <2>1, <2>7 DEF BuildManager
  <2>8. ASSUME NEW i \in Adopters, NEW c \in TaskClasses, RegisterProcedure(i, c)
        PROVE  Rule!Next
    BY <2>8, RegisterIsPropose DEF RegisterProcedure, Rule!Next
  <2>9. ASSUME NEW i \in Adopters, NEW p \in DOMAIN shared, Retire(i, p) PROVE Rule!Next
    <3>1. shared' = SetStatus({p}, "retired") /\ UNCHANGED reports
          /\ shared[p].status \in {"candidate", "validated"}
      BY <2>9 DEF Retire
    <3>2. Rule!Retire(p)
      BY <3>1, NewStatusIsBecome DEF Statuses, Support, Rule!Retire, Rule!Become
    <3>. QED BY <2>0, <3>2 DEF Rule!Next
  <2>10. ASSUME NEW p \in DOMAIN shared, Delete(p) PROVE Rule!Next
    <3>1. shared' = SetStatus({p}, "deleted") /\ UNCHANGED reports
          /\ shared[p] \in SharedProcedures
      BY <2>10 DEF Delete, TypeOK
    <3>t. shared[p].status \in Statuses
      BY <3>1 DEF SharedProcedures
    <3>2. Rule!Delete(p)
      BY <3>1, <3>t, NewStatusIsBecome DEF Statuses, Support, Rule!Delete, Rule!Become
    <3>. QED BY <2>0, <3>2 DEF Rule!Next
  <2>11. CASE UNCHANGED vars
    BY <2>1, <2>11 DEF vars
  <2>. QED
    BY <2>2, <2>3, <2>4, <2>5, <2>6, <2>7, <2>8, <2>9, <2>10, <2>11 DEF Next
<1>. QED BY <1>1, <1>2, FederationTyped, PTL DEF Spec, ImplementsRule, Rule!Spec
=============================================================================
