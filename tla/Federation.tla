------------------------------ MODULE Federation ------------------------------
(***************************************************************************)
(* The federated coordinator (src/axis/multi_instance.py) and the Memory   *)
(* Managers of its instances: procedures are proposed to a shared          *)
(* Procedural Memory, instances report how they did, in any order and as   *)
(* often as they like, and a check validates candidates.  An instance      *)
(* plans from the shared memory if its Memory Manager was built on it.     *)
(*                                                                         *)
(* Reports are kept in a set: the code appends them to a list per          *)
(* procedure and reads nothing of it but which reports there are.          *)
(***************************************************************************)
EXTENDS Integers, Sequences, FiniteSets

CONSTANTS
  Instances,          \* the instances of the family
  TaskClasses,        \* task classes procedures are for and reports are about
  ReportedRates,      \* bound: success rates that are reported, in percent
  Threshold,          \* validation_threshold, in percent
  MinInstances,       \* min_instances_to_validate
  Adopters,           \* bound: the instances that build a Memory Manager
  MaxProcedures,      \* bound: how many procedures are proposed
  MaxReports,         \* bound: how many different reports are made
  MaxOverrides        \* bound: how many overrides are recorded

ASSUME FederationConfig ==
  /\ IsFiniteSet(Instances)
  /\ ReportedRates \subseteq 0 .. 100 /\ Threshold \in 0 .. 100
  /\ MinInstances \in Nat \ {0}
  /\ Adopters \subseteq Instances
  /\ MaxProcedures \in Nat /\ MaxReports \in Nat /\ MaxOverrides \in Nat

Statuses == {"candidate", "validated", "retired", "deleted"}

\* What the coordinator reads of a procedure; its id is its position.
SharedProcedures == [class : TaskClasses, status : Statuses]
Reports == [instance : Instances, procedure : 1 .. MaxProcedures,
            class : TaskClasses, rate : ReportedRates]

VARIABLES
  shared,       \* _shared_procedural; a deleted procedure keeps its position
  reports,      \* _reports
  registered,   \* _registered_instances
  overrides,    \* how many _local_overrides there are
  store         \* what the Memory Manager of an instance holds: "none" before it is
                \* built, then the "shared" Procedural Memory or one of its "own"

vars == <<shared, reports, registered, overrides, store>>

Init ==
  /\ shared = <<>> /\ reports = {} /\ registered = {} /\ overrides = 0
  /\ store = [i \in Instances |-> "none"]

Present(p) == p \in DOMAIN shared /\ shared[p].status # "deleted"

-----------------------------------------------------------------------------
(* Procedural Memory *)

Register(class) == Append(shared, [class |-> class, status |-> "candidate"])

\* promote() and retire() look at no status.
SetStatus(ps, status) ==
  [p \in DOMAIN shared |-> IF p \in ps THEN [shared[p] EXCEPT !.status = status] ELSE shared[p]]

\* procedural_index_for_planner, down to the classes it has an entry for.
ServedClasses == {shared[p].class : p \in {p \in DOMAIN shared : shared[p].status = "validated"}}

-----------------------------------------------------------------------------
(* The coordinator *)

RegisterInstance(i) ==
  /\ registered' = registered \cup {i}
  /\ UNCHANGED <<shared, reports, overrides, store>>

ProposeCandidate(i, class) ==
  /\ Len(shared) < MaxProcedures
  /\ registered' = registered \cup {i}
  /\ shared' = Register(class)
  /\ UNCHANGED <<reports, overrides, store>>

\* Broken variant: a report about nothing is kept as well.
ReportUsageUnchecked(i, p, rate, class) ==
  /\ registered' = registered \cup {i}
  /\ LET about == IF class = "none" /\ Present(p) THEN shared[p].class ELSE class
     IN  reports' = reports \cup {[instance |-> i, procedure |-> p, class |-> about, rate |-> rate]}
  /\ Cardinality(reports') <= MaxReports
  /\ UNCHANGED <<shared, overrides, store>>

\* Without a class, a report is about that of the procedure, and dropped if there is
\* none any more; with one, it is kept whatever became of the procedure.
ReportUsage(i, p, rate, class) ==
  /\ registered' = registered \cup {i}
  /\ LET about == IF class = "none" /\ Present(p) THEN shared[p].class ELSE class
         kept  == IF about = "none" THEN {}
                  ELSE {[instance |-> i, procedure |-> p, class |-> about, rate |-> rate]}
     IN  reports' = reports \cup kept
  /\ Cardinality(reports') <= MaxReports
  /\ UNCHANGED <<shared, overrides, store>>

GoodReports(p) == {r \in reports : r.procedure = p /\ r.rate > Threshold}

\* distinct_good, over all task classes and over all reports ever made
Backers(p) == {r.instance : r \in GoodReports(p)}

\* Broken variant: whatever was reported about is promoted, a retired procedure too.
CheckRevivesRetired ==
  /\ shared' = SetStatus({p \in DOMAIN shared : /\ shared[p].status # "deleted"
                                                /\ Cardinality(Backers(p)) >= MinInstances},
                         "validated")
  /\ UNCHANGED <<reports, registered, overrides, store>>

CheckValidations ==
  /\ shared' = SetStatus({p \in DOMAIN shared : /\ shared[p].status = "candidate"
                                                /\ Cardinality(Backers(p)) >= MinInstances},
                         "validated")
  /\ UNCHANGED <<reports, registered, overrides, store>>

\* Nothing reads an override but overrides_for_review(), which lists them all.
RecordLocalOverride ==
  /\ overrides < MaxOverrides
  /\ overrides' = overrides + 1
  /\ UNCHANGED <<shared, reports, registered, store>>

-----------------------------------------------------------------------------
(* The instances *)

\* MemoryManager(procedural=shared_procedural): `procedural or ProceduralMemory()`, and
\* a memory without procedures is falsy.
BuildManager(i) ==
  /\ store[i] = "none"
  /\ store' = [store EXCEPT ![i] = IF \E p \in DOMAIN shared : Present(p)
                                   THEN "shared" ELSE "own"]
  /\ UNCHANGED <<shared, reports, registered, overrides>>

\* register_procedure() of a manager; one in a store of its own is seen by nobody else.
RegisterProcedure(i, class) ==
  /\ store[i] = "shared" /\ Len(shared) < MaxProcedures
  /\ shared' = Register(class)
  /\ UNCHANGED <<reports, registered, overrides, store>>

\* The forgetting cycle of an instance retires whatever is weak and idle.
Retire(i, p) ==
  /\ store[i] = "shared" /\ shared[p].status \in {"candidate", "validated"}
  /\ shared' = SetStatus({p}, "retired")
  /\ UNCHANGED <<reports, registered, overrides, store>>

Delete(p) ==
  /\ Present(p)
  /\ shared' = SetStatus({p}, "deleted")
  /\ UNCHANGED <<reports, registered, overrides, store>>

-----------------------------------------------------------------------------
Next ==
  \/ \E i \in Instances : RegisterInstance(i)
  \/ \E i \in Instances, c \in TaskClasses : ProposeCandidate(i, c)
  \/ \E i \in Instances, p \in DOMAIN shared, rate \in ReportedRates,
        c \in TaskClasses \cup {"none"} : ReportUsage(i, p, rate, c)
  \/ CheckValidations
  \/ RecordLocalOverride
  \/ \E i \in Adopters : BuildManager(i)
  \/ \E i \in Adopters, c \in TaskClasses : RegisterProcedure(i, c)
  \/ \E i \in Adopters, p \in DOMAIN shared : Retire(i, p)
  \/ \E p \in DOMAIN shared : Delete(p)

Spec == Init /\ [][Next]_vars

-----------------------------------------------------------------------------
(* Properties *)

TypeOK ==
  /\ shared \in Seq(SharedProcedures) /\ Len(shared) <= MaxProcedures
  /\ reports \subseteq Reports
  /\ registered \subseteq Instances
  /\ overrides \in 0 .. MaxOverrides
  /\ store \in [Instances -> {"none", "shared", "own"}]

Standing == [p \in 1 .. MaxProcedures |->
               IF p \in DOMAIN shared THEN shared[p].status ELSE "unknown"]

\* Who reported well of a procedure, and on which class.
Backing(p) == {<<r.instance, r.class>> : r \in GoodReports(p)}

Rule == INSTANCE ValidationRule WITH
          Procedures <- 1 .. MaxProcedures, Supporters <- Instances, Classes <- TaskClasses,
          Quorums <- {S \in SUBSET Instances : Cardinality(S) >= MinInstances},
          standing <- Standing,
          support <- [p \in 1 .. MaxProcedures |-> Backing(p)]

\* check_validations(), report_usage(): however reports repeat, contradict each other, or
\* come after the procedure was retired or deleted, the next check validates each candidate
\* that enough different instances reported well of on the same class, no candidate that
\* too few of them did over all classes, and nothing that is not a candidate.
ImplementsRule == Rule!Spec

-----------------------------------------------------------------------------
(* Statements of the repository that the code does not keep *)

\* multi_instance.py:9-11, "semantic + procedural memory are shared": an instance whose
\* Memory Manager was built on the shared memory plans from what the federation validated.
ValidatedServed ==
  \A i \in Instances : store[i] = "own" => ServedClasses = {}

\* multi_instance.py:15-16, "It becomes `validated` when 3+ instances report success rate
\* above threshold on the same task class": a validated procedure has that many of them
\* for a single class.
ValidatedOnSameClass ==
  \A p \in DOMAIN shared : shared[p].status = "validated" =>
    \E c \in TaskClasses :
      Cardinality({r.instance : r \in {r \in GoodReports(p) : r.class = c}}) >= MinInstances
=============================================================================
