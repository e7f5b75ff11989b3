----------------------------- MODULE MemoryStores -----------------------------
(***************************************************************************)
(* The Memory Manager (src/axis/memory/manager.py) over its stores:        *)
(* episodes with their index by id, lessons distilled from them, and       *)
(* procedures as far as forgetting looks at them; and the forgetting cycle *)
(* that compresses, retires and evicts.  Time passes in whole days.        *)
(*                                                                         *)
(* Vectors, summaries, costs and versions are left out.  So is the pruning *)
(* of lessons: decay_score is 1.0 from the constructor on and nothing      *)
(* writes to it, so that no lesson is ever below semantic_decay_floor.     *)
(***************************************************************************)
EXTENDS Integers, Sequences, FiniteSets, Functions

CONSTANTS
  TaskClasses, Strategies,
  MaxEpisodes,        \* EpisodicMemory.max_episodes
  EpisodicMax,        \* ForgettingPolicy.episodic_max
  StaleAge,           \* episodic_stale_age_s, in days
  IdleRetire,         \* procedural_idle_retire_s, in days
  MinCluster,         \* min_cluster_size
  DaySteps,           \* bound: how many days may pass at once
  MaxDays,            \* bound: the last day
  Recorded,           \* bound: what recorded episodes are about
  MaxAdded,           \* bound: how many episodes are recorded
  MaxRemarks,         \* bound: how many episodes get a postmortem
  MaxProcedures,      \* bound: how many procedures are registered
  MaxUses             \* bound: how often a procedure is used

Outcomes == {"success", "partial", "failure"}
Facts    == [class : TaskClasses, strategy : Strategies, outcome : Outcomes]

ASSUME StoresConfig ==
  /\ Recorded \subseteq Facts
  /\ MaxEpisodes \in Nat \ {0} /\ EpisodicMax \in Nat
  /\ StaleAge \in Nat /\ IdleRetire \in Nat
  /\ MinCluster \in Nat \ {0}
  /\ DaySteps \subseteq Nat \ {0} /\ MaxDays \in Nat
  /\ MaxAdded \in Nat /\ MaxRemarks \in Nat /\ MaxProcedures \in Nat /\ MaxUses \in Nat

\* Episodes are numbered as they are recorded (uuid4 in the code); embedded is FALSE
\* once the embedding was dropped, and postmortem says whether one was attached.
Episodes == [id : 1 .. MaxAdded, fact : Facts, day : 0 .. MaxDays,
             embedded : BOOLEAN, postmortem : BOOLEAN]

\* A lesson is identified by a hash of its text, which names the class, the strategy and
\* the number of episodes it was distilled from; confidence is in tenths.
LessonIds == [class : TaskClasses, strategy : Strategies, size : Nat]
Lessons   == [sources : SUBSET (1 .. MaxAdded), confidence : 0 .. 10]

Procedures == [wins : Nat, uses : Nat, lastUsed : 0 .. MaxDays,
               status : {"candidate", "retired"}]

VARIABLES
  today,
  episodes,     \* episodic._episodes
  index,        \* episodic._by_id: positions by id
  lessons,      \* semantic._by_id
  procs,        \* procedural._procedures
  recorded,     \* history: what every episode ever recorded was about, by id
  remarked      \* history: the episodes a postmortem was written for

vars == <<today, episodes, index, lessons, procs, recorded, remarked>>

EmptyMap == [x \in {} |-> x]

Init ==
  /\ today = 0
  /\ episodes = <<>> /\ index = EmptyMap
  /\ lessons = EmptyMap
  /\ procs = <<>>
  /\ recorded = <<>> /\ remarked = {}

PassDays(n) ==
  /\ today + n <= MaxDays
  /\ today' = today + n
  /\ UNCHANGED <<episodes, index, lessons, procs, recorded, remarked>>

-----------------------------------------------------------------------------
(* Episodic Memory *)

Ids(eps) == {eps[i].id : i \in DOMAIN eps}

\* Broken variant: positions are counted from 0.
ReindexFromZero(eps) == [id \in Ids(eps) |-> (CHOOSE i \in DOMAIN eps : eps[i].id = id) - 1]

Reindex(eps) == [id \in Ids(eps) |-> CHOOSE i \in DOMAIN eps : eps[i].id = id]

\* Broken variant: the oldest episode goes, the index of the others stays.
AppendStaleIndex(episode) ==
  LET longer == Append(episodes, episode)
  IN  IF Len(longer) > MaxEpisodes
      THEN /\ episodes' = Tail(longer)
           /\ index' = [id \in Ids(Tail(longer)) |->
                          IF id = episode.id THEN Len(longer) - 1 ELSE index[id]]
      ELSE /\ episodes' = longer
           /\ index' = [id \in Ids(longer) |-> IF id = episode.id THEN Len(longer) ELSE index[id]]

\* add(): beyond the hard cap the oldest goes, one at a time.
AppendEpisode(episode) ==
  LET longer == Append(episodes, episode)
  IN  IF Len(longer) > MaxEpisodes
      THEN /\ episodes' = Tail(longer)
           /\ index' = Reindex(Tail(longer))
      ELSE /\ episodes' = longer
           /\ index' = [id \in Ids(longer) |-> IF id = episode.id THEN Len(longer) ELSE index[id]]

RecordEpisode(fact) ==
  /\ Len(recorded) < MaxAdded
  /\ recorded' = Append(recorded, fact)
  /\ AppendEpisode([id |-> Len(recorded'), fact |-> fact, day |-> today,
                    embedded |-> TRUE, postmortem |-> FALSE])
  /\ UNCHANGED <<today, lessons, procs, remarked>>

\* Broken variant: the postmortem goes to the episode recorded last.
AnnotateLatest(id) ==
  /\ id \in DOMAIN index /\ Cardinality(remarked \cup {id}) <= MaxRemarks
  /\ episodes' = [episodes EXCEPT ![Len(episodes)].postmortem = TRUE]
  /\ remarked' = remarked \cup {id}
  /\ UNCHANGED <<today, index, lessons, procs, recorded>>

\* annotate_postmortem(); for an episode that is gone it raises a KeyError.
AnnotateEpisode(id) ==
  /\ id \in DOMAIN index /\ Cardinality(remarked \cup {id}) <= MaxRemarks
  /\ episodes' = [episodes EXCEPT ![index[id]].postmortem = TRUE]
  /\ remarked' = remarked \cup {id}
  /\ UNCHANGED <<today, index, lessons, procs, recorded>>

\* Deleting episodes one by one, each by the position its id has at that time, comes to
\* keeping the others in their order and indexing them anew.  In a set, as there is one
\* list of them.
Without(eps, ids) ==
  LET others == {i \in DOMAIN eps : eps[i].id \notin ids}
  IN  {[k \in DOMAIN list |-> eps[list[k]]] :
         list \in {list \in Bijection(1 .. Cardinality(others), others) :
                    \A j, k \in DOMAIN list : j < k => list[j] < list[k]}}

DeleteEpisode(id) ==
  /\ id \in DOMAIN index
  /\ episodes' = SubSeq(episodes, 1, index[id] - 1)
                 \o SubSeq(episodes, index[id] + 1, Len(episodes))
  /\ index' = Reindex(episodes')
  /\ UNCHANGED <<today, lessons, procs, recorded, remarked>>

-----------------------------------------------------------------------------
(* Semantic Memory *)

\* Broken variant: every episode of the class and strategy counts.
ClusterOfAll(class, strategy) ==
  {e.id : e \in {episodes[i] : i \in {i \in DOMAIN episodes :
     episodes[i].fact.class = class /\ episodes[i].fact.strategy = strategy}}}

\* The successes of a class that used one strategy.
Cluster(class, strategy) ==
  {episodes[i].id : i \in {i \in DOMAIN episodes :
     episodes[i].fact = [class |-> class, strategy |-> strategy, outcome |-> "success"]}}

Confidence(n) == IF n > 5 THEN 10 ELSE 5 + n

\* upsert(): the text of a lesson gives its id, so that an update adds to its sources and
\* changes nothing else but its version, which is left out.
Upsert(old, id, sources) ==
  [sources    |-> sources \cup (IF id \in DOMAIN old THEN old[id].sources ELSE {}),
   confidence |-> Confidence(id.size)]

\* distill_similar_episodes(): one lesson for every strategy with enough successes.
Distill(class) ==
  LET found == {s \in Strategies : Cardinality(Cluster(class, s)) >= MinCluster}
      new   == [id \in {[class |-> class, strategy |-> s, size |-> Cardinality(Cluster(class, s))]
                          : s \in found} |-> Upsert(lessons, id, Cluster(class, id.strategy))]
  IN  /\ found # {}
      /\ lessons' = [id \in DOMAIN lessons \cup DOMAIN new |->
                       IF id \in DOMAIN new THEN new[id] ELSE lessons[id]]
      /\ UNCHANGED <<today, episodes, index, procs, recorded, remarked>>

\* More sources win, then more confidence, then the first of the two.
Outranks(a, b) ==
  LET m == Cardinality(lessons[a].sources)
      n == Cardinality(lessons[b].sources)
  IN  m > n \/ (m = n /\ lessons[a].confidence >= lessons[b].confidence)

ResolveContradiction(a, b) ==
  /\ a \in DOMAIN lessons /\ b \in DOMAIN lessons
  /\ LET loser == IF Outranks(a, b) THEN b ELSE a
     IN  lessons' = [id \in DOMAIN lessons \ {loser} |-> lessons[id]]
  /\ UNCHANGED <<today, episodes, index, procs, recorded, remarked>>

-----------------------------------------------------------------------------
(* Procedural Memory, as the manager writes to it *)

RegisterProcedure ==
  /\ Len(procs) < MaxProcedures
  /\ procs' = Append(procs, [wins |-> 0, uses |-> 0, lastUsed |-> today, status |-> "candidate"])
  /\ UNCHANGED <<today, episodes, index, lessons, recorded, remarked>>

RecordProcedureUsage(p, success) ==
  /\ procs[p].uses < MaxUses
  /\ procs' = [procs EXCEPT ![p].wins = IF success THEN @ + 1 ELSE @, ![p].uses = @ + 1,
                            ![p].lastUsed = today]
  /\ UNCHANGED <<today, episodes, index, lessons, recorded, remarked>>

-----------------------------------------------------------------------------
(* Forgetting *)

Age(e) == today - e.day

\* utility_weight times utility, in percent; uniqueness and frequency are constants
Utility(e) == IF e.fact.outcome = "success" THEN 35 ELSE 14

\* _episode_value of d below that of e: 25 / (1 + age) + utility, cross-multiplied.
WorthLess(d, e) ==
  25 * (1 + Age(e)) + Utility(d) * (1 + Age(d)) * (1 + Age(e))
    < 25 * (1 + Age(d)) + Utility(e) * (1 + Age(d)) * (1 + Age(e))

\* Broken variant: the most valuable episodes come first.
EvictedBeforeReversed(eps, i, j) == WorthLess(eps[j], eps[i]) \/ (~WorthLess(eps[i], eps[j]) /\ i < j)

\* The sort is stable: of episodes of one day and equal worth the older goes first.
EvictedBefore(eps, i, j) == WorthLess(eps[i], eps[j]) \/ (~WorthLess(eps[j], eps[i]) /\ i < j)

\* The episodes the budget step deletes: the least valuable, as many as are too many.
Evicted(eps) ==
  {eps[i].id : i \in {i \in DOMAIN eps :
     Cardinality({j \in DOMAIN eps : EvictedBefore(eps, j, i) /\ j # i}) < Len(eps) - EpisodicMax}}

Weak(p) == p.uses > 0 /\ 2 * p.wins < p.uses

\* run(): compression, pruning, retirement and eviction, in this order.
ForgetCycle ==
  LET compressed == [i \in DOMAIN episodes |->
        IF Age(episodes[i]) > StaleAge THEN [episodes[i] EXCEPT !.embedded = FALSE]
        ELSE episodes[i]]
  IN  /\ IF Len(episodes) > EpisodicMax
         THEN episodes' \in Without(compressed, Evicted(compressed)) /\ index' = Reindex(episodes')
         ELSE episodes' = compressed /\ index' = index
      /\ procs' = [p \in DOMAIN procs |->
           IF Weak(procs[p]) /\ today - procs[p].lastUsed > IdleRetire
           THEN [procs[p] EXCEPT !.status = "retired"] ELSE procs[p]]
      /\ UNCHANGED <<today, lessons, recorded, remarked>>

-----------------------------------------------------------------------------
Next ==
  \/ \E n \in DaySteps : PassDays(n)
  \/ \E f \in Recorded : RecordEpisode(f)
  \/ \E id \in 1 .. MaxAdded : AnnotateEpisode(id) \/ DeleteEpisode(id)
  \/ \E c \in TaskClasses : Distill(c)
  \/ \E a, b \in DOMAIN lessons : ResolveContradiction(a, b)
  \/ RegisterProcedure
  \/ \E p \in DOMAIN procs, success \in BOOLEAN : RecordProcedureUsage(p, success)
  \/ ForgetCycle

Spec == Init /\ [][Next]_vars

-----------------------------------------------------------------------------
(* Properties *)

TypeOK ==
  /\ today \in 0 .. MaxDays
  /\ episodes \in Seq(Episodes) /\ index \in [Ids(episodes) -> DOMAIN episodes]
  /\ lessons \in [DOMAIN lessons -> Lessons] /\ DOMAIN lessons \subseteq LessonIds
  /\ procs \in Seq(Procedures)
  /\ recorded \in Seq(Facts) /\ remarked \subseteq 1 .. MaxAdded

\* add(), delete(), _reindex(): the index finds every episode where it is, and nothing
\* else, however episodes were evicted by the cap, by value, or deleted in between.
IndexAgrees ==
  /\ DOMAIN index = Ids(episodes)
  /\ \A i \in DOMAIN episodes : index[episodes[i].id] = i

\* annotate_postmortem(): a postmortem is found on the episodes it was written for, and
\* every episode still tells what was recorded under its id.
EpisodesTrue ==
  \A i \in DOMAIN episodes :
    LET e == episodes[i] IN e.fact = recorded[e.id] /\ (e.postmortem <=> e.id \in remarked)

\* distill_similar_episodes(), upsert(): a lesson rests on at least as many different
\* episodes as it says, all successes of its class with its strategy, whether they are
\* still remembered or not.
LessonsGrounded ==
  \A id \in DOMAIN lessons :
    /\ MinCluster <= id.size /\ id.size <= Cardinality(lessons[id].sources)
    /\ \A s \in lessons[id].sources :
         recorded[s] = [class |-> id.class, strategy |-> id.strategy, outcome |-> "success"]

\* run(): the forgetting cycle leaves EpisodicMax episodes if there were more, each worth at
\* least what any of the evicted ones was worth.
Present(eps, id) == eps[CHOOSE i \in DOMAIN eps : eps[i].id = id]
KeepsValuable ==
  [][ForgetCycle =>
       LET gone == Ids(episodes) \ Ids(episodes') IN
       /\ gone # {} => Len(episodes') = EpisodicMax
       /\ \A d \in gone, e \in Ids(episodes') :
            ~WorthLess(Present(episodes, e), Present(episodes, d))]_vars
=============================================================================
