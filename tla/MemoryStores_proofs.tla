-------------------------- MODULE MemoryStores_proofs --------------------------
(***************************************************************************)
(* What the stores promise for every hard cap, budget and set of recorded  *)
(* facts: the index agrees with the episodes, every episode tells what was *)
(* recorded, every lesson is grounded, and the forgetting cycle keeps what *)
(* is worth most.                                                          *)
(*                                                                         *)
(* Everything about episodes rests on Chronicle: they lie in the order in  *)
(* which they were recorded, so that ids are unique, and each agrees with  *)
(* the history.  Recording appends to a chronicle; every kind of deletion  *)
(* (the hard cap, delete(), the budget) takes a sublist of one, for which  *)
(* one lemma does.                                                         *)
(***************************************************************************)
EXTENDS MemoryStores, FiniteSetTheorems, SequenceTheorems, TLAPS

Chronicle(eps, about, marked, day) ==
  /\ eps \in Seq(Episodes)
  /\ \A i \in DOMAIN eps :
       /\ eps[i].id <= Len(about) /\ eps[i].day <= day
       /\ eps[i].fact = about[eps[i].id]
       /\ eps[i].postmortem <=> eps[i].id \in marked
  /\ \A i, j \in DOMAIN eps : i < j => eps[i].id < eps[j].id

LessonsInv ==
  /\ LessonsGrounded
  /\ \A id \in DOMAIN lessons : lessons[id].sources \subseteq DOMAIN recorded

StoreInv ==
  /\ TypeOK
  /\ Chronicle(episodes, recorded, remarked, today)
  /\ IndexAgrees
  /\ remarked \subseteq DOMAIN recorded
  /\ LessonsInv

-----------------------------------------------------------------------------
(* Lists of episodes *)

LEMMA Unique ==
  ASSUME NEW eps, NEW about, NEW marked, NEW day, Chronicle(eps, about, marked, day),
         NEW i \in DOMAIN eps, NEW j \in DOMAIN eps, eps[i].id = eps[j].id
  PROVE  i = j
<1>1. eps \in Seq(Episodes) /\ DOMAIN eps = 1 .. Len(eps) /\ Len(eps) \in Nat
  BY LenProperties DEF Chronicle
<1>2. eps[i].id \in Int /\ eps[j].id \in Int
  <2>1. eps[i] \in Episodes /\ eps[j] \in Episodes
    BY <1>1, ElementOfSeq
  <2>. QED BY <2>1 DEF Episodes
<1>3. i \in Int /\ j \in Int
  BY <1>1
<1>4. (i < j => eps[i].id < eps[j].id) /\ (j < i => eps[j].id < eps[i].id)
  BY DEF Chronicle
<1>. QED BY <1>2, <1>3, <1>4

\* _reindex() gives every episode its position.
LEMMA ReindexAgrees ==
  ASSUME NEW eps, NEW about, NEW marked, NEW day, Chronicle(eps, about, marked, day)
  PROVE  /\ Reindex(eps) \in [Ids(eps) -> DOMAIN eps]
         /\ \A i \in DOMAIN eps : Reindex(eps)[eps[i].id] = i
<1>1. ASSUME NEW id \in Ids(eps)
      PROVE  /\ (CHOOSE i \in DOMAIN eps : eps[i].id = id) \in DOMAIN eps
             /\ eps[CHOOSE i \in DOMAIN eps : eps[i].id = id].id = id
  BY DEF Ids
<1>2. Reindex(eps) \in [Ids(eps) -> DOMAIN eps]
  BY <1>1 DEF Reindex
<1>3. ASSUME NEW i \in DOMAIN eps PROVE Reindex(eps)[eps[i].id] = i
  <2> DEFINE id == eps[i].id
             j == CHOOSE j \in DOMAIN eps : eps[j].id = id
  <2>1. id \in Ids(eps)
    BY DEF Ids
  <2>2. j \in DOMAIN eps /\ eps[j].id = id
    BY <1>1, <2>1
  <2>3. j = i
    BY <2>2, Unique
  <2>4. Reindex(eps)[id] = j
    BY <2>1 DEF Reindex
  <2>. QED BY <2>3, <2>4
<1>. QED BY <1>2, <1>3

\* Some episodes of a chronicle, in their order, are a chronicle.
LEMMA Sublist ==
  ASSUME NEW eps, NEW about, NEW marked, NEW day, Chronicle(eps, about, marked, day),
         NEW n \in Nat, NEW at \in [1 .. n -> DOMAIN eps],
         \A j, k \in 1 .. n : j < k => at[j] < at[k]
  PROVE  Chronicle([k \in 1 .. n |-> eps[at[k]]], about, marked, day)
<1> DEFINE new == [k \in 1 .. n |-> eps[at[k]]]
<1>1. \A k \in 1 .. n : at[k] \in DOMAIN eps /\ new[k] = eps[at[k]]
  OBVIOUS
<1>2. DOMAIN new = 1 .. n
  OBVIOUS
<1>3. new \in Seq(Episodes)
  <2>1. eps \in Seq(Episodes) /\ DOMAIN eps = 1 .. Len(eps)
    BY LenProperties DEF Chronicle
  <2>2. \A i \in DOMAIN eps : eps[i] \in Episodes
    BY <2>1, ElementOfSeq
  <2>3. new \in [1 .. n -> Episodes]
    BY <1>1, <2>2
  <2>. QED BY <2>3, SeqDef
<1> HIDE DEF new
<1>4. ASSUME NEW k \in DOMAIN new
      PROVE  /\ new[k].id <= Len(about) /\ new[k].day <= day
             /\ new[k].fact = about[new[k].id]
             /\ new[k].postmortem <=> new[k].id \in marked
  BY <1>1, <1>2 DEF Chronicle
<1>5. ASSUME NEW j \in DOMAIN new, NEW k \in DOMAIN new, j < k PROVE new[j].id < new[k].id
  <2>1. at[j] < at[k]
    BY <1>2, <1>5
  <2>. QED BY <1>1, <1>2, <2>1 DEF Chronicle
<1>6. Chronicle(new, about, marked, day)
  BY <1>3, <1>4, <1>5 DEF Chronicle
<1>. QED BY <1>6 DEF new

\* The oldest goes.
LEMMA TailChronicle ==
  ASSUME NEW eps, NEW about, NEW marked, NEW day, Chronicle(eps, about, marked, day), eps # <<>>
  PROVE  Chronicle(Tail(eps), about, marked, day)
<1> DEFINE n == Len(eps) - 1
           at == [k \in 1 .. n |-> k + 1]
<1>1. eps \in Seq(Episodes) /\ Len(eps) \in Nat /\ n \in Nat /\ DOMAIN eps = 1 .. Len(eps)
  BY LenProperties, EmptySeq DEF Chronicle
<1>1a. n \in Nat
  BY <1>1
<1>2. at \in [1 .. n -> DOMAIN eps]
  BY <1>1
<1>3. \A j, k \in 1 .. n : j < k => at[j] < at[k]
  BY <1>1
<1>4. Tail(eps) = [k \in 1 .. n |-> eps[at[k]]]
  <2>1. Tail(eps) \in Seq(Episodes) /\ Len(Tail(eps)) = n
        /\ \A k \in 1 .. n : Tail(eps)[k] = eps[k + 1]
    BY <1>1, HeadTailProperties
  <2>2. DOMAIN Tail(eps) = 1 .. n
    BY <2>1, LenProperties
  <2>3. Tail(eps) = [k \in 1 .. n |-> Tail(eps)[k]]
    BY <2>1, <2>2, LenProperties
  <2>. QED BY <2>1, <2>3
<1> HIDE DEF at, n
<1>5. Chronicle([k \in 1 .. n |-> eps[at[k]]], about, marked, day)
  BY <1>1a, <1>2, <1>3, Sublist
<1>. QED BY <1>4, <1>5

\* delete() by position.
LEMMA CutChronicle ==
  ASSUME NEW eps, NEW about, NEW marked, NEW day, Chronicle(eps, about, marked, day),
         NEW p \in DOMAIN eps
  PROVE  Chronicle(SubSeq(eps, 1, p - 1) \o SubSeq(eps, p + 1, Len(eps)), about, marked, day)
<1> DEFINE n == Len(eps) - 1
           at == [k \in 1 .. n |-> IF k < p THEN k ELSE k + 1]
           left == SubSeq(eps, 1, p - 1)
           right == SubSeq(eps, p + 1, Len(eps))
<1>1. eps \in Seq(Episodes) /\ Len(eps) \in Nat /\ DOMAIN eps = 1 .. Len(eps)
  BY LenProperties DEF Chronicle
<1>2. n \in Nat /\ p \in Nat /\ p >= 1 /\ p <= n + 1
  BY <1>1
<1>3. at \in [1 .. n -> DOMAIN eps]
  BY <1>1, <1>2
<1>4. \A j, k \in 1 .. n : j < k => at[j] < at[k]
  BY <1>1, <1>2
<1>5. left \in Seq(Episodes) /\ Len(left) = p - 1 /\ \A k \in 1 .. p - 1 : left[k] = eps[k]
  <2>1. \A k \in 1 .. p - 1 : eps[k] \in Episodes
    BY <1>1, <1>2, ElementOfSeq
  <2>2. left \in Seq(Episodes) /\ Len(left) = (IF 1 <= p - 1 THEN p - 1 - 1 + 1 ELSE 0)
        /\ \A k \in 1 .. p - 1 - 1 + 1 : left[k] = eps[1 + k - 1]
    BY <1>2, <2>1, SubSeqProperties
  <2>3. Len(left) = p - 1
    BY <1>2, <2>2
  <2>4. ASSUME NEW k \in 1 .. p - 1 PROVE left[k] = eps[k]
    <3>1. k \in 1 .. p - 1 - 1 + 1 /\ 1 + k - 1 = k
      BY <1>2
    <3>2. left[k] = eps[1 + k - 1]
      BY <2>2, <3>1
    <3>. QED BY <3>1, <3>2
  <2>. QED BY <2>2, <2>3, <2>4
<1>6. right \in Seq(Episodes) /\ Len(right) = n - (p - 1)
      /\ \A k \in 1 .. n - (p - 1) : right[k] = eps[p + k]
  <2>1. \A k \in p + 1 .. Len(eps) : eps[k] \in Episodes
    BY <1>1, <1>2, ElementOfSeq
  <2>2. right \in Seq(Episodes)
        /\ Len(right) = (IF p + 1 <= Len(eps) THEN Len(eps) - (p + 1) + 1 ELSE 0)
        /\ \A k \in 1 .. Len(eps) - (p + 1) + 1 : right[k] = eps[p + 1 + k - 1]
    BY <1>1, <1>2, <2>1, SubSeqProperties
  <2>3. \A k \in 1 .. n - (p - 1) : k \in 1 .. Len(eps) - (p + 1) + 1 /\ p + 1 + k - 1 = p + k
    BY <1>1, <1>2
  <2>. QED BY <1>1, <1>2, <2>2, <2>3
<1>7. left \o right \in Seq(Episodes) /\ Len(left \o right) = n
      /\ \A k \in 1 .. n : (left \o right)[k] = IF k <= p - 1 THEN left[k] ELSE right[k - (p - 1)]
  <2>1. Len(left) + Len(right) = n
    <3>1. Len(left) = p - 1 /\ Len(right) = n - (p - 1)
      BY <1>5, <1>6
    <3>2. (p - 1) + (n - (p - 1)) = n
      BY <1>2
    <3>. QED BY <3>1, <3>2
  <2>2. left \o right \in Seq(Episodes) /\ Len(left \o right) = Len(left) + Len(right)
        /\ \A k \in 1 .. Len(left) + Len(right) :
             (left \o right)[k] = IF k <= Len(left) THEN left[k] ELSE right[k - Len(left)]
    BY <1>5, <1>6, ConcatProperties
  <2>. QED BY <1>5, <2>1, <2>2
<1> HIDE DEF left, right
<1>8. ASSUME NEW k \in 1 .. n PROVE (left \o right)[k] = eps[at[k]]
  <2>1. CASE k < p
    <3>1. k \in 1 .. p - 1 /\ k <= p - 1
      BY <1>2, <2>1
    <3>. QED BY <1>5, <1>7, <2>1, <3>1
  <2>2. CASE ~(k < p)
    <3>1. k - (p - 1) \in 1 .. n - (p - 1) /\ ~(k <= p - 1) /\ p + (k - (p - 1)) = k + 1
      BY <1>2, <2>2
    <3>2. (left \o right)[k] = right[k - (p - 1)]
      BY <1>7, <3>1
    <3>3. right[k - (p - 1)] = eps[p + (k - (p - 1))]
      BY <1>6, <3>1
    <3>. QED BY <2>2, <3>1, <3>2, <3>3
  <2>. QED BY <2>1, <2>2
<1>9. left \o right = [k \in 1 .. n |-> eps[at[k]]]
  <2>1. DOMAIN (left \o right) = 1 .. n
    BY <1>7, LenProperties
  <2>2. left \o right = [k \in 1 .. n |-> (left \o right)[k]]
    BY <1>7, <2>1, LenProperties
  <2>. QED BY <1>8, <2>2
<1> HIDE DEF at, n
<1>10. Chronicle(left \o right, about, marked, day)
  BY <1>2, <1>3, <1>4, <1>9, Sublist
<1>. QED BY <1>10 DEF left, right

-----------------------------------------------------------------------------
(* Recording, annotating and deleting *)

LEMMA InitStores == Init => StoreInv
<1> SUFFICES ASSUME Init PROVE StoreInv
  OBVIOUS
<1>1. today = 0 /\ episodes = <<>> /\ index = EmptyMap /\ lessons = EmptyMap /\ procs = <<>>
      /\ recorded = <<>> /\ remarked = {}
  BY DEF Init
<1>2. DOMAIN EmptyMap = {}
  BY DEF EmptyMap
<1>3. <<>> \in Seq(Episodes) /\ <<>> \in Seq(Procedures) /\ <<>> \in Seq(Facts)
      /\ \A i \in DOMAIN <<>> : FALSE
  BY EmptySeq, LenProperties
<1>4. index \in [Ids(episodes) -> DOMAIN episodes] /\ lessons \in [DOMAIN lessons -> Lessons]
  BY <1>1, <1>2, <1>3 DEF Ids, EmptyMap
<1>5. TypeOK
  BY <1>1, <1>2, <1>3, <1>4, StoresConfig DEF TypeOK, StoresConfig
<1>6. Chronicle(episodes, recorded, remarked, today)
  BY <1>1, <1>3 DEF Chronicle
<1>. QED BY <1>1, <1>2, <1>3, <1>4, <1>5, <1>6 DEF StoreInv, IndexAgrees, LessonsInv, LessonsGrounded

LEMMA EpisodeFacts ==
  ASSUME StoreInv, NEW i \in DOMAIN episodes
  PROVE  /\ episodes[i] \in Episodes /\ episodes[i].id \in Ids(episodes)
         /\ episodes[i].id \in DOMAIN recorded /\ recorded[episodes[i].id] = episodes[i].fact
<1>1. episodes \in Seq(Episodes) /\ recorded \in Seq(Facts)
      /\ DOMAIN recorded = 1 .. Len(recorded) /\ Len(recorded) \in Nat
  BY LenProperties DEF StoreInv, TypeOK
<1>2. episodes[i] \in Episodes
  BY <1>1, ElementOfSeq, LenProperties
<1>3. episodes[i].id \in 1 .. MaxAdded
  BY <1>2 DEF Episodes
<1>4. episodes[i].id <= Len(recorded) /\ episodes[i].fact = recorded[episodes[i].id]
  BY DEF StoreInv, Chronicle
<1>5. episodes[i].id \in DOMAIN recorded
  BY <1>1, <1>3, <1>4
<1>. QED BY <1>2, <1>4, <1>5 DEF Ids

\* A time or a history that only grows leaves a chronicle one.
LEMMA ChronicleGrows ==
  ASSUME StoreInv, NEW about, NEW day,
         Len(recorded) <= Len(about), Len(about) \in Nat,
         \A id \in DOMAIN recorded : about[id] = recorded[id],
         day \in Nat, today <= day
  PROVE  Chronicle(episodes, about, remarked, day)
<1>1. Chronicle(episodes, recorded, remarked, today) /\ today \in Nat
  BY StoresConfig DEF StoreInv, TypeOK, StoresConfig
<1>2. Len(recorded) \in Nat
  BY LenProperties DEF StoreInv, TypeOK
<1>3. ASSUME NEW i \in DOMAIN episodes
      PROVE  /\ episodes[i].id <= Len(about) /\ episodes[i].day <= day
             /\ episodes[i].fact = about[episodes[i].id]
             /\ episodes[i].postmortem <=> episodes[i].id \in remarked
  <2>1. episodes[i].id \in Int /\ episodes[i].day \in Int
    BY EpisodeFacts DEF Episodes
  <2>2. episodes[i].id <= Len(recorded) /\ episodes[i].day <= today
        /\ (episodes[i].postmortem <=> episodes[i].id \in remarked)
    BY <1>1 DEF Chronicle
  <2>3. episodes[i].fact = about[episodes[i].id]
    BY EpisodeFacts
  <2>4. episodes[i].id <= Len(about) /\ episodes[i].day <= day
    BY <1>1, <1>2, <2>1, <2>2
  <2>. QED BY <2>2, <2>3, <2>4
<1>. QED BY <1>1, <1>3 DEF Chronicle

LEMMA PassDaysStep == ASSUME StoreInv, NEW n \in DaySteps, PassDays(n) PROVE StoreInv'
<1>1. today + n <= MaxDays /\ today' = today + n
      /\ UNCHANGED <<episodes, index, lessons, procs, recorded, remarked>>
  BY DEF PassDays
<1>2. today \in Nat /\ n \in Nat /\ MaxDays \in Nat
  BY StoresConfig DEF StoreInv, TypeOK, StoresConfig
<1>3. today' \in 0 .. MaxDays /\ today' \in Nat /\ today <= today'
  BY <1>1, <1>2
<1>4. Len(recorded) \in Nat
  BY LenProperties DEF StoreInv, TypeOK
<1>5. Chronicle(episodes, recorded, remarked, today')
  BY <1>3, <1>4, ChronicleGrows
<1>6. TypeOK'
  BY <1>1, <1>3 DEF StoreInv, TypeOK, Ids
<1>. QED BY <1>1, <1>5, <1>6 DEF StoreInv, IndexAgrees, Ids, LessonsInv, LessonsGrounded, Chronicle

\* What changes only the episodes, and reindexes them, keeps the rest.
LEMMA EpisodesStep ==
  ASSUME StoreInv, UNCHANGED <<today, lessons, recorded>>,
         procs' \in Seq(Procedures),
         remarked' \subseteq DOMAIN recorded, remarked' \subseteq 1 .. MaxAdded,
         Chronicle(episodes', recorded, remarked', today),
         index' \in [Ids(episodes') -> DOMAIN episodes'],
         \A i \in DOMAIN episodes' : index'[episodes'[i].id] = i
  PROVE  StoreInv'
<1>1. episodes' \in Seq(Episodes)
  BY DEF Chronicle
<1>2. TypeOK'
  BY <1>1 DEF StoreInv, TypeOK, Ids
<1>3. IndexAgrees'
  BY DEF IndexAgrees, Ids
<1>4. LessonsInv'
  BY DEF StoreInv, LessonsInv, LessonsGrounded
<1>. QED BY <1>2, <1>3, <1>4 DEF StoreInv, Chronicle

LEMMA RecordEpisodeStep ==
  ASSUME StoreInv, NEW fact \in Recorded, RecordEpisode(fact) PROVE StoreInv'
<1> DEFINE n == Len(recorded) + 1
           e == [id |-> n, fact |-> fact, day |-> today, embedded |-> TRUE, postmortem |-> FALSE]
           longer == Append(episodes, e)
<1>1. Len(recorded) < MaxAdded /\ recorded' = Append(recorded, fact)
      /\ today' = today /\ lessons' = lessons /\ procs' = procs /\ remarked' = remarked
  BY DEF RecordEpisode
<1>2. fact \in Facts /\ MaxAdded \in Nat
  BY StoresConfig DEF StoresConfig
<1>3. recorded \in Seq(Facts) /\ Len(recorded) \in Nat /\ DOMAIN recorded = 1 .. Len(recorded)
      /\ episodes \in Seq(Episodes) /\ Len(episodes) \in Nat /\ DOMAIN episodes = 1 .. Len(episodes)
      /\ today \in 0 .. MaxDays
  BY LenProperties DEF StoreInv, TypeOK
<1>4. recorded' \in Seq(Facts) /\ Len(recorded') = n
      /\ (\A i \in 1 .. Len(recorded) : recorded'[i] = recorded[i]) /\ recorded'[n] = fact
      /\ DOMAIN recorded' = 1 .. n
  <2>1. recorded' \in Seq(Facts) /\ Len(recorded') = n
        /\ (\A i \in 1 .. Len(recorded) : recorded'[i] = recorded[i]) /\ recorded'[n] = fact
    BY <1>1, <1>2, <1>3, AppendProperties
  <2>. QED BY <2>1, LenProperties
<1>5. AppendEpisode(e)
  BY <1>1, <1>4 DEF RecordEpisode
<1>6. e \in Episodes
  <2>1. n \in 1 .. MaxAdded
    BY <1>1, <1>2, <1>3
  <2>. QED BY <1>2, <1>3, <2>1 DEF Episodes
<1>7. n \notin remarked /\ n \in Nat
  BY <1>3 DEF StoreInv
<1>8. longer \in Seq(Episodes) /\ Len(longer) = Len(episodes) + 1
      /\ (\A i \in 1 .. Len(episodes) : longer[i] = episodes[i]) /\ longer[Len(episodes) + 1] = e
      /\ DOMAIN longer = 1 .. Len(episodes) + 1
  <2>1. longer \in Seq(Episodes) /\ Len(longer) = Len(episodes) + 1
        /\ (\A i \in 1 .. Len(episodes) : longer[i] = episodes[i]) /\ longer[Len(episodes) + 1] = e
    BY <1>3, <1>6, AppendProperties
  <2>. QED BY <2>1, LenProperties
<1>9. Chronicle(episodes, recorded', remarked, today)
  <2>1. Len(recorded) <= Len(recorded') /\ Len(recorded') \in Nat /\ today \in Nat /\ today <= today
    BY <1>3, <1>4, StoresConfig DEF StoresConfig
  <2>2. \A id \in DOMAIN recorded : recorded'[id] = recorded[id]
    BY <1>3, <1>4
  <2>. QED BY <2>1, <2>2, ChronicleGrows
<1>10. \A i \in 1 .. Len(episodes) : episodes[i].id \in 1 .. Len(recorded)
  BY <1>3, EpisodeFacts
<1>11. \A i \in 1 .. Len(episodes) + 1 : i \in 1 .. Len(episodes) \/ i = Len(episodes) + 1
  BY <1>3
<1>12. Chronicle(longer, recorded', remarked, today)
  <2>1. ASSUME NEW i \in DOMAIN longer
        PROVE  /\ longer[i].id <= Len(recorded') /\ longer[i].day <= today
               /\ longer[i].fact = recorded'[longer[i].id]
               /\ longer[i].postmortem <=> longer[i].id \in remarked
    <3>1. CASE i \in 1 .. Len(episodes)
      BY <1>3, <1>8, <1>9, <3>1 DEF Chronicle
    <3>2. CASE i = Len(episodes) + 1
      <4>1. longer[i] = e
        BY <1>8, <3>2
      <4>2. n <= n /\ today <= today
        BY <1>3, <1>7
      <4>. QED BY <1>4, <1>7, <4>1, <4>2
    <3>. QED BY <1>8, <1>11, <3>1, <3>2
  <2>2. ASSUME NEW i \in DOMAIN longer, NEW j \in DOMAIN longer, i < j
        PROVE  longer[i].id < longer[j].id
    <3>1. i \in 1 .. Len(episodes)
      BY <1>3, <1>8, <2>2
    <3>2. CASE j \in 1 .. Len(episodes)
      BY <1>3, <1>8, <1>9, <2>2, <3>1, <3>2 DEF Chronicle
    <3>3. CASE j = Len(episodes) + 1
      <4>1. longer[j].id = n /\ longer[i].id \in 1 .. Len(recorded)
        BY <1>8, <1>10, <3>1, <3>3
      <4>. QED BY <1>3, <4>1
    <3>. QED BY <1>8, <1>11, <3>2, <3>3
  <2>. QED BY <1>8, <2>1, <2>2 DEF Chronicle
<1>13. /\ Chronicle(episodes', recorded', remarked, today)
       /\ index' \in [Ids(episodes') -> DOMAIN episodes']
       /\ \A i \in DOMAIN episodes' : index'[episodes'[i].id] = i
  <2>1. CASE Len(longer) > MaxEpisodes
    <3>1. episodes' = Tail(longer) /\ index' = Reindex(Tail(longer))
      BY <1>5, <2>1 DEF AppendEpisode
    <3>2. longer # <<>>
      BY <1>3, <1>8, EmptySeq
    <3>. QED BY <1>12, <3>1, <3>2, TailChronicle, ReindexAgrees
  <2>2. CASE ~(Len(longer) > MaxEpisodes)
    <3>1. episodes' = longer
          /\ index' = [id \in Ids(longer) |-> IF id = e.id THEN Len(longer) ELSE index[id]]
      BY <1>5, <2>2 DEF AppendEpisode
    <3>2. ASSUME NEW i \in DOMAIN longer
          PROVE  longer[i].id \in Ids(longer) /\ index'[longer[i].id] = i
      <4>1. longer[i].id \in Ids(longer)
        BY DEF Ids
      <4>2. CASE i = Len(episodes) + 1
        BY <1>8, <3>1, <4>1, <4>2
      <4>3. CASE i \in 1 .. Len(episodes)
        <5>1. longer[i] = episodes[i] /\ episodes[i].id # n
          BY <1>3, <1>8, <1>10, <4>3
        <5>2. index[episodes[i].id] = i
          BY <1>3, <4>3 DEF StoreInv, IndexAgrees
        <5>. QED BY <3>1, <4>1, <5>1, <5>2
      <4>. QED BY <1>8, <1>11, <4>2, <4>3
    <3>3. index' \in [Ids(longer) -> DOMAIN longer]
      <4>1. \A id \in Ids(longer) : index'[id] \in DOMAIN longer
        BY <3>2 DEF Ids
      <4>2. DOMAIN index' = Ids(longer) /\ index' = [id \in Ids(longer) |-> index'[id]]
        BY <3>1
      <4>. QED BY <4>1, <4>2
    <3>. QED BY <1>12, <3>1, <3>2, <3>3
  <2>. QED BY <2>1, <2>2
<1>14. TypeOK'
  BY <1>1, <1>4, <1>13 DEF StoreInv, TypeOK, Chronicle, Ids
<1>15. IndexAgrees'
  BY <1>13 DEF IndexAgrees, Ids
<1>16. LessonsInv'
  <2>1. \A id \in DOMAIN lessons : \A s \in lessons[id].sources : recorded'[s] = recorded[s]
    BY <1>3, <1>4 DEF StoreInv, LessonsInv
  <2>2. DOMAIN recorded \subseteq DOMAIN recorded'
    BY <1>3, <1>4
  <2>. QED BY <1>1, <2>1, <2>2 DEF StoreInv, LessonsInv, LessonsGrounded
<1>17. remarked' \subseteq DOMAIN recorded'
  BY <1>1, <1>3, <1>4 DEF StoreInv
<1>. QED BY <1>1, <1>13, <1>14, <1>15, <1>16, <1>17 DEF StoreInv, Chronicle

\* A postmortem goes to the episode that has the id.
LEMMA AnnotateEpisodeStep ==
  ASSUME StoreInv, NEW id \in 1 .. MaxAdded, AnnotateEpisode(id) PROVE StoreInv'
<1> DEFINE p == index[id]
<1>1. id \in DOMAIN index /\ episodes' = [episodes EXCEPT ![p].postmortem = TRUE]
      /\ remarked' = remarked \cup {id} /\ index' = index
      /\ UNCHANGED <<today, lessons, recorded, procs>>
  BY DEF AnnotateEpisode
<1>2. episodes \in Seq(Episodes) /\ DOMAIN episodes = 1 .. Len(episodes) /\ Len(episodes) \in Nat
  BY LenProperties DEF StoreInv, TypeOK
<1>3. p \in DOMAIN episodes /\ episodes[p].id = id
  <2>1. PICK i \in DOMAIN episodes : episodes[i].id = id
    BY <1>1 DEF StoreInv, IndexAgrees, Ids
  <2>2. p = i
    BY <2>1 DEF StoreInv, IndexAgrees
  <2>. QED BY <2>1, <2>2
<1> HIDE DEF p
<1>4. DOMAIN episodes' = DOMAIN episodes
      /\ \A i \in DOMAIN episodes :
           episodes'[i] = IF i = p THEN [episodes[p] EXCEPT !.postmortem = TRUE] ELSE episodes[i]
  BY <1>1, <1>2, <1>3
<1>5. ASSUME NEW i \in DOMAIN episodes
      PROVE  /\ episodes'[i] \in Episodes /\ episodes'[i].id = episodes[i].id
             /\ episodes'[i].day = episodes[i].day /\ episodes'[i].fact = episodes[i].fact
             /\ episodes'[i].postmortem <=> episodes[i].postmortem \/ episodes[i].id = id
  <2>1. episodes[i] \in Episodes
    BY EpisodeFacts
  <2>2. CASE i = p
    BY <1>3, <1>4, <2>1, <2>2 DEF Episodes
  <2>3. CASE i # p
    <3>1. episodes[i].id # id
      BY <1>3, <2>3, Unique DEF StoreInv
    <3>. QED BY <1>4, <2>1, <2>3, <3>1
  <2>. QED BY <2>2, <2>3
<1>6. episodes' \in Seq(Episodes)
  <2>1. episodes' \in [1 .. Len(episodes) -> Episodes]
    <3>1. episodes' = [i \in DOMAIN episodes |-> episodes'[i]]
      BY <1>1, <1>2
    <3>. QED BY <1>2, <1>5, <3>1
  <2>. QED BY <1>2, <2>1, SeqDef
<1>7. Chronicle(episodes', recorded, remarked', today)
  <2>1. Chronicle(episodes, recorded, remarked, today)
    BY DEF StoreInv
  <2>2. ASSUME NEW i \in DOMAIN episodes'
        PROVE  /\ episodes'[i].id <= Len(recorded) /\ episodes'[i].day <= today
               /\ episodes'[i].fact = recorded[episodes'[i].id]
               /\ episodes'[i].postmortem <=> episodes'[i].id \in remarked'
    BY <1>1, <1>4, <1>5, <2>1 DEF Chronicle
  <2>3. ASSUME NEW i \in DOMAIN episodes', NEW j \in DOMAIN episodes', i < j
        PROVE  episodes'[i].id < episodes'[j].id
    BY <1>4, <1>5, <2>1, <2>3 DEF Chronicle
  <2>. QED BY <1>6, <2>2, <2>3 DEF Chronicle
<1>8. Ids(episodes') = Ids(episodes)
  <2>1. Ids(episodes') = {episodes'[i].id : i \in DOMAIN episodes}
    BY <1>4 DEF Ids
  <2>. QED BY <1>5, <2>1 DEF Ids
<1>9. index' \in [Ids(episodes') -> DOMAIN episodes']
      /\ \A i \in DOMAIN episodes' : index'[episodes'[i].id] = i
  BY <1>1, <1>4, <1>5, <1>8 DEF StoreInv, TypeOK, IndexAgrees
<1>10. remarked' \subseteq DOMAIN recorded /\ remarked' \subseteq 1 .. MaxAdded
  <2>1. id \in DOMAIN recorded
    BY <1>3, EpisodeFacts
  <2>. QED BY <1>1, <2>1 DEF StoreInv, TypeOK
<1>11. procs' \in Seq(Procedures)
  BY <1>1 DEF StoreInv, TypeOK
<1>. QED BY <1>1, <1>7, <1>9, <1>10, <1>11, EpisodesStep

LEMMA DeleteEpisodeStep ==
  ASSUME StoreInv, NEW id \in 1 .. MaxAdded, DeleteEpisode(id) PROVE StoreInv'
<1> DEFINE p == index[id]
<1>1. id \in DOMAIN index
      /\ episodes' = SubSeq(episodes, 1, p - 1) \o SubSeq(episodes, p + 1, Len(episodes))
      /\ index' = Reindex(episodes') /\ UNCHANGED <<today, lessons, procs, recorded, remarked>>
  BY DEF DeleteEpisode
<1>2. p \in DOMAIN episodes
  BY <1>1 DEF StoreInv, TypeOK
<1>3. Chronicle(episodes', recorded, remarked, today)
  BY <1>1, <1>2, CutChronicle DEF StoreInv
<1>4. index' \in [Ids(episodes') -> DOMAIN episodes']
      /\ \A i \in DOMAIN episodes' : index'[episodes'[i].id] = i
  BY <1>1, <1>3, ReindexAgrees
<1>5. remarked' \subseteq DOMAIN recorded /\ remarked' \subseteq 1 .. MaxAdded
      /\ procs' \in Seq(Procedures)
  BY <1>1 DEF StoreInv, TypeOK
<1>. QED BY <1>1, <1>3, <1>4, <1>5, EpisodesStep

-----------------------------------------------------------------------------
(* Lessons *)

\* What changes only the lessons keeps the rest.
LEMMA LessonsStep ==
  ASSUME StoreInv, UNCHANGED <<today, episodes, index, procs, recorded, remarked>>,
         lessons' \in [DOMAIN lessons' -> Lessons], DOMAIN lessons' \subseteq LessonIds,
         LessonsInv'
  PROVE  StoreInv'
<1>1. TypeOK'
  BY DEF StoreInv, TypeOK, Ids
<1>. QED BY <1>1 DEF StoreInv, IndexAgrees, Ids, Chronicle

LEMMA ClusterFacts ==
  ASSUME StoreInv, NEW class \in TaskClasses, NEW s \in Strategies
  PROVE  /\ Cluster(class, s) \subseteq DOMAIN recorded
         /\ Cluster(class, s) \subseteq 1 .. MaxAdded
         /\ IsFiniteSet(Cluster(class, s)) /\ Cardinality(Cluster(class, s)) \in Nat
         /\ \A id \in Cluster(class, s) :
              recorded[id] = [class |-> class, strategy |-> s, outcome |-> "success"]
<1>1. ASSUME NEW id \in Cluster(class, s)
      PROVE  /\ id \in DOMAIN recorded /\ id \in 1 .. MaxAdded
             /\ recorded[id] = [class |-> class, strategy |-> s, outcome |-> "success"]
  <2>1. PICK i \in DOMAIN episodes :
          /\ episodes[i].id = id
          /\ episodes[i].fact = [class |-> class, strategy |-> s, outcome |-> "success"]
    BY DEF Cluster
  <2>2. episodes[i] \in Episodes /\ id \in DOMAIN recorded /\ recorded[id] = episodes[i].fact
    BY <2>1, EpisodeFacts
  <2>3. id \in 1 .. MaxAdded
    BY <2>1, <2>2 DEF Episodes
  <2>. QED BY <2>1, <2>2, <2>3
<1>2. IsFiniteSet(1 .. MaxAdded)
  BY FS_Interval, StoresConfig DEF StoresConfig
<1>3. IsFiniteSet(Cluster(class, s))
  BY <1>1, <1>2, FS_Subset
<1>. QED BY <1>1, <1>3, FS_CardinalityType

LEMMA DistillStep == ASSUME StoreInv, NEW class \in TaskClasses, Distill(class) PROVE StoreInv'
<1> DEFINE found == {s \in Strategies : Cardinality(Cluster(class, s)) >= MinCluster}
           ids == {[class |-> class, strategy |-> s, size |-> Cardinality(Cluster(class, s))]
                     : s \in found}
           new == [id \in ids |-> Upsert(lessons, id, Cluster(class, id.strategy))]
<1>1. lessons' = [id \in DOMAIN lessons \cup ids |-> IF id \in ids THEN new[id] ELSE lessons[id]]
      /\ UNCHANGED <<today, episodes, index, procs, recorded, remarked>>
  BY DEF Distill
<1>2. lessons \in [DOMAIN lessons -> Lessons] /\ DOMAIN lessons \subseteq LessonIds
  BY DEF StoreInv, TypeOK
<1>3. \A id \in DOMAIN lessons :
        /\ lessons[id].sources \subseteq DOMAIN recorded
        /\ MinCluster <= id.size /\ id.size <= Cardinality(lessons[id].sources)
        /\ \A s \in lessons[id].sources :
             recorded[s] = [class |-> id.class, strategy |-> id.strategy, outcome |-> "success"]
  BY DEF StoreInv, LessonsInv, LessonsGrounded
<1>4. IsFiniteSet(1 .. MaxAdded)
  BY FS_Interval, StoresConfig DEF StoresConfig
<1>5. ASSUME NEW id \in ids
      PROVE  /\ id \in LessonIds /\ new[id] \in Lessons
             /\ new[id].sources \subseteq DOMAIN recorded
             /\ MinCluster <= id.size /\ id.size <= Cardinality(new[id].sources)
             /\ \A s \in new[id].sources :
                  recorded[s] = [class |-> id.class, strategy |-> id.strategy, outcome |-> "success"]
  <2>1. PICK s \in found :
          id = [class |-> class, strategy |-> s, size |-> Cardinality(Cluster(class, s))]
    OBVIOUS
  <2>2. s \in Strategies /\ Cardinality(Cluster(class, s)) >= MinCluster
    OBVIOUS
  <2> DEFINE cluster == Cluster(class, s)
             old == IF id \in DOMAIN lessons THEN lessons[id].sources ELSE {}
  <2>3. id.class = class /\ id.strategy = s /\ id.size = Cardinality(cluster)
    BY <2>1
  <2>4. new[id] = [sources |-> cluster \cup old, confidence |-> Confidence(id.size)]
    BY <2>3 DEF Upsert
  <2>5. cluster \subseteq DOMAIN recorded /\ cluster \subseteq 1 .. MaxAdded
        /\ Cardinality(cluster) \in Nat
        /\ \A i \in cluster : recorded[i] = [class |-> class, strategy |-> s, outcome |-> "success"]
    BY <2>2, ClusterFacts
  <2>6. old \subseteq DOMAIN recorded /\ old \subseteq 1 .. MaxAdded
        /\ \A i \in old : recorded[i] = [class |-> class, strategy |-> s, outcome |-> "success"]
    <3>1. CASE id \in DOMAIN lessons
      <4>1. lessons[id] \in Lessons
        BY <1>2, <3>1
      <4>2. lessons[id].sources \subseteq 1 .. MaxAdded
        BY <4>1 DEF Lessons
      <4>. QED BY <1>3, <2>3, <3>1, <4>2
    <3>2. CASE id \notin DOMAIN lessons
      BY <3>2
    <3>. QED BY <3>1, <3>2
  <2> HIDE DEF cluster, old, new, ids, found
  <2>7. Cardinality(cluster) <= Cardinality(cluster \cup old)
    <3>1. cluster \cup old \subseteq 1 .. MaxAdded
      BY <2>5, <2>6
    <3>2. IsFiniteSet(cluster \cup old)
      BY <1>4, <3>1, FS_Subset
    <3>3. cluster \in SUBSET (cluster \cup old)
      OBVIOUS
    <3>. QED BY <3>2, <3>3, FS_Subset
  <2>8. Confidence(id.size) \in 0 .. 10
    <3>1. id.size \in Nat
      BY <2>3, <2>5
    <3>. QED BY <3>1 DEF Confidence
  <2>9. new[id] \in Lessons
    BY <2>4, <2>5, <2>6, <2>8 DEF Lessons
  <2>10. id \in LessonIds
    BY <2>1, <2>2, <2>5 DEF LessonIds, cluster
  <2>11. MinCluster <= id.size /\ id.size <= Cardinality(new[id].sources)
    <3>1. MinCluster <= Cardinality(cluster)
      BY <2>2, <2>5, StoresConfig DEF StoresConfig, cluster
    <3>. QED BY <2>3, <2>4, <2>7, <3>1
  <2>. QED BY <2>3, <2>4, <2>5, <2>6, <2>9, <2>10, <2>11
<1> HIDE DEF new, ids
<1>6. \A id \in DOMAIN lessons' :
        \/ id \in ids /\ lessons'[id] = new[id]
        \/ id \in DOMAIN lessons /\ lessons'[id] = lessons[id]
  BY <1>1
<1>7. lessons' \in [DOMAIN lessons' -> Lessons] /\ DOMAIN lessons' \subseteq LessonIds
  <2>1. \A id \in DOMAIN lessons' : lessons'[id] \in Lessons /\ id \in LessonIds
    BY <1>2, <1>5, <1>6
  <2>2. lessons' = [id \in DOMAIN lessons' |-> lessons'[id]]
    BY <1>1
  <2>. QED BY <2>1, <2>2
<1>8. LessonsInv'
  <2>1. recorded' = recorded
    BY <1>1
  <2>2. ASSUME NEW id \in DOMAIN lessons'
        PROVE  /\ lessons'[id].sources \subseteq DOMAIN recorded
               /\ MinCluster <= id.size /\ id.size <= Cardinality(lessons'[id].sources)
               /\ \A s \in lessons'[id].sources :
                    recorded[s] = [class |-> id.class, strategy |-> id.strategy, outcome |-> "success"]
    BY <1>3, <1>5, <1>6
  <2>. QED BY <2>1, <2>2 DEF LessonsInv, LessonsGrounded
<1>. QED BY <1>1, <1>7, <1>8, LessonsStep

LEMMA ResolveContradictionStep ==
  ASSUME StoreInv, NEW a \in DOMAIN lessons, NEW b \in DOMAIN lessons, ResolveContradiction(a, b)
  PROVE  StoreInv'
<1>1. PICK loser : lessons' = [id \in DOMAIN lessons \ {loser} |-> lessons[id]]
  BY DEF ResolveContradiction
<1>2. UNCHANGED <<today, episodes, index, procs, recorded, remarked>>
  BY DEF ResolveContradiction
<1>3. \A id \in DOMAIN lessons' : id \in DOMAIN lessons /\ lessons'[id] = lessons[id]
  BY <1>1
<1>4. lessons' \in [DOMAIN lessons' -> Lessons] /\ DOMAIN lessons' \subseteq LessonIds
  BY <1>1 DEF StoreInv, TypeOK
<1>5. LessonsInv'
  BY <1>2, <1>3 DEF StoreInv, LessonsInv, LessonsGrounded
<1>. QED BY <1>2, <1>4, <1>5, LessonsStep

-----------------------------------------------------------------------------
(* Procedures *)

LEMMA ProceduresStep ==
  ASSUME StoreInv, UNCHANGED <<today, episodes, index, lessons, recorded, remarked>>,
         procs' \in Seq(Procedures)
  PROVE  StoreInv'
<1>1. TypeOK'
  BY DEF StoreInv, TypeOK, Ids
<1>. QED BY <1>1 DEF StoreInv, IndexAgrees, Ids, Chronicle, LessonsInv, LessonsGrounded

LEMMA RegisterProcedureStep == ASSUME StoreInv, RegisterProcedure PROVE StoreInv'
<1> DEFINE p == [wins |-> 0, uses |-> 0, lastUsed |-> today, status |-> "candidate"]
<1>1. procs' = Append(procs, p) /\ UNCHANGED <<today, episodes, index, lessons, recorded, remarked>>
  BY DEF RegisterProcedure
<1>2. procs \in Seq(Procedures) /\ p \in Procedures
  BY DEF StoreInv, TypeOK, Procedures
<1>3. procs' \in Seq(Procedures)
  BY <1>1, <1>2, AppendProperties
<1>. QED BY <1>1, <1>3, ProceduresStep

LEMMA RecordProcedureUsageStep ==
  ASSUME StoreInv, NEW p \in DOMAIN procs, NEW success \in BOOLEAN, RecordProcedureUsage(p, success)
  PROVE  StoreInv'
<1>1. procs' = [procs EXCEPT ![p].wins = IF success THEN @ + 1 ELSE @, ![p].uses = @ + 1,
                             ![p].lastUsed = today]
      /\ UNCHANGED <<today, episodes, index, lessons, recorded, remarked>>
  BY DEF RecordProcedureUsage
<1>2. procs \in [1 .. Len(procs) -> Procedures] /\ Len(procs) \in Nat /\ today \in 0 .. MaxDays
  BY LenProperties DEF StoreInv, TypeOK
<1>3. procs[p] \in Procedures
  BY <1>2
<1>4. procs[p].wins \in Nat /\ procs[p].uses \in Nat
  BY <1>3 DEF Procedures
<1>5. procs' \in [1 .. Len(procs) -> Procedures]
  BY <1>1, <1>2, <1>3, <1>4 DEF Procedures
<1>6. procs' \in Seq(Procedures)
  BY <1>2, <1>5, SeqDef
<1>. QED BY <1>1, <1>6, ProceduresStep

-----------------------------------------------------------------------------
(* What is worth less: an order of fractions *)

LEMMA TimesKeepsOrder ==
  ASSUME NEW x \in Int, NEW y \in Int, NEW z \in Nat \ {0}
  PROVE  (x < y => x * z < y * z) /\ (x <= y => x * z <= y * z)
<1>1. (y - x) * z = y * z - x * z
  OBVIOUS
<1>2. y - x \in Nat \ {0} => (y - x) * z > 0
  OBVIOUS
<1>3. y - x = 0 => (y - x) * z = 0
  OBVIOUS
<1>4. x * z \in Int /\ y * z \in Int /\ (y - x) * z \in Int
  OBVIOUS
<1>5. x < y => x * z < y * z
  BY <1>1, <1>2, <1>4
<1>6. x = y => x * z = y * z
  OBVIOUS
<1>. QED BY <1>4, <1>5, <1>6

\* p/d <= q/e <= r/f, and strictly if one of the two is strict.
LEMMA FractionsInOrder ==
  ASSUME NEW p \in Int, NEW q \in Int, NEW r \in Int,
         NEW d \in Nat \ {0}, NEW e \in Nat \ {0}, NEW f \in Nat \ {0},
         p * e <= q * d, q * f <= r * e
  PROVE  /\ p * f <= r * d
         /\ p * e < q * d \/ q * f < r * e => p * f < r * d
<1>1. (p * e) * f <= (q * d) * f /\ (q * f) * d <= (r * e) * d
  BY TimesKeepsOrder
<1>2. p * e < q * d => (p * e) * f < (q * d) * f
  BY TimesKeepsOrder
<1>3. q * f < r * e => (q * f) * d < (r * e) * d
  BY TimesKeepsOrder
<1>4. (p * e) * f = (p * f) * e /\ (q * d) * f = (q * f) * d /\ (r * e) * d = (r * d) * e
  OBVIOUS
<1>5. p * f \in Int /\ r * d \in Int /\ (p * f) * e \in Int /\ (r * d) * e \in Int
      /\ (q * f) * d \in Int
  OBVIOUS
<1>6. (p * f) * e <= (r * d) * e
  BY <1>1, <1>4, <1>5
<1>7. p * e < q * d \/ q * f < r * e => (p * f) * e < (r * d) * e
  BY <1>1, <1>2, <1>3, <1>4, <1>5
<1>8. p * f > r * d => (p * f) * e > (r * d) * e
  BY <1>5, TimesKeepsOrder
<1>9. p * f = r * d => (p * f) * e = (r * d) * e
  OBVIOUS
<1>. QED BY <1>5, <1>6, <1>7, <1>8, <1>9

\* _episode_value as a fraction over the days the episode has seen.
Days(e)   == 1 + Age(e)
Worth(e)  == 25 + Utility(e) * Days(e)
Dated(e)  == e.day \in Int /\ e.day <= today

LEMMA WorthAsFraction ==
  ASSUME today \in Nat, NEW d, Dated(d), NEW e, Dated(e)
  PROVE  /\ Days(e) \in Nat \ {0} /\ Worth(e) \in Int
         /\ WorthLess(d, e) <=> Worth(d) * Days(e) < Worth(e) * Days(d)
<1>1. Days(e) \in Nat \ {0} /\ Days(d) \in Nat \ {0}
  BY DEF Days, Age, Dated
<1>2. Utility(e) \in Int /\ Utility(d) \in Int
  BY DEF Utility
<1>3. Worth(e) \in Int /\ Worth(d) \in Int
  BY <1>1, <1>2 DEF Worth
<1>4. \A x, u, y \in Int : (25 + u * x) * y = 25 * y + u * x * y
  OBVIOUS
<1>5. Worth(d) * Days(e) = 25 * Days(e) + Utility(d) * Days(d) * Days(e)
  BY <1>1, <1>2, <1>4 DEF Worth
<1>6. Worth(e) * Days(d) = 25 * Days(d) + Utility(e) * Days(e) * Days(d)
  BY <1>1, <1>2, <1>4 DEF Worth
<1>7. Utility(e) * Days(e) * Days(d) = Utility(e) * Days(d) * Days(e)
  BY <1>1, <1>2
<1>8. WorthLess(d, e) <=> 25 * Days(e) + Utility(d) * Days(d) * Days(e)
                            < 25 * Days(d) + Utility(e) * Days(d) * Days(e)
  BY DEF WorthLess, Days
<1>. QED BY <1>1, <1>3, <1>5, <1>6, <1>7, <1>8

\* Not worth less is transitive, strictly if one of the two is strict.
LEMMA WorthInOrder ==
  ASSUME today \in Nat, NEW a, Dated(a), NEW b, Dated(b), NEW c, Dated(c),
         ~WorthLess(b, a), ~WorthLess(c, b)
  PROVE  ~WorthLess(c, a) /\ (WorthLess(a, b) \/ WorthLess(b, c) => WorthLess(a, c))
<1> DEFINE p == Worth(a)  q == Worth(b)  r == Worth(c)
           d == Days(a)   e == Days(b)   f == Days(c)
<1>1. p \in Int /\ q \in Int /\ r \in Int
      /\ d \in Nat \ {0} /\ e \in Nat \ {0} /\ f \in Nat \ {0}
  BY WorthAsFraction
<1>2. /\ WorthLess(b, a) <=> q * d < p * e
      /\ WorthLess(a, b) <=> p * e < q * d
      /\ WorthLess(c, b) <=> r * e < q * f
      /\ WorthLess(b, c) <=> q * f < r * e
      /\ WorthLess(c, a) <=> r * d < p * f
      /\ WorthLess(a, c) <=> p * f < r * d
  BY WorthAsFraction
<1> HIDE DEF p, q, r, d, e, f
<1>3. q * d \in Int /\ p * e \in Int /\ r * e \in Int /\ q * f \in Int /\ r * d \in Int /\ p * f \in Int
  BY <1>1
<1>4. p * e <= q * d /\ q * f <= r * e
  BY <1>2, <1>3
<1>5. p * f <= r * d /\ (p * e < q * d \/ q * f < r * e => p * f < r * d)
  BY <1>1, <1>4, FractionsInOrder
<1>6. ~WorthLess(c, a)
  BY <1>2, <1>3, <1>5
<1>7. WorthLess(a, b) \/ WorthLess(b, c) => WorthLess(a, c)
  BY <1>2, <1>5
<1>. QED BY <1>6, <1>7

\* Of two episodes at most one is worth less.
LEMMA WorthAsymmetric ==
  ASSUME today \in Nat, NEW a, Dated(a), NEW b, Dated(b), WorthLess(a, b)
  PROVE  ~WorthLess(b, a)
<1>1. Worth(a) * Days(b) < Worth(b) * Days(a)
  BY WorthAsFraction
<1>2. Worth(a) * Days(b) \in Int /\ Worth(b) * Days(a) \in Int
  BY WorthAsFraction
<1>3. WorthLess(b, a) <=> Worth(b) * Days(a) < Worth(a) * Days(b)
  BY WorthAsFraction
<1>. QED BY <1>1, <1>2, <1>3

-----------------------------------------------------------------------------
(* The least of a finite order *)

\* How many of 1 .. n a relation puts before i, and those with fewer than m before them.
RankIn(n, Smaller, i) == Cardinality({j \in 1 .. n : <<j, i>> \in Smaller})
Least(n, Smaller, m)  == {i \in 1 .. n : RankIn(n, Smaller, i) < m}

\* Ranks number the members of a total order, so that exactly m ranks are below m.
LEMMA Ranks ==
  ASSUME NEW n \in Nat, NEW Smaller,
         \A i \in 1 .. n : <<i, i>> \notin Smaller,
         \A i, j \in 1 .. n : i # j => <<i, j>> \in Smaller \/ <<j, i>> \in Smaller,
         \A i, j, k \in 1 .. n :
           <<i, j>> \in Smaller /\ <<j, k>> \in Smaller => <<i, k>> \in Smaller
  PROVE  /\ \A i, j \in 1 .. n :
              <<i, j>> \in Smaller => RankIn(n, Smaller, i) < RankIn(n, Smaller, j)
         /\ \A i \in 1 .. n : RankIn(n, Smaller, i) \in 0 .. (n - 1)
         /\ \A m \in 0 .. n : IsFiniteSet(Least(n, Smaller, m)) /\ Cardinality(Least(n, Smaller, m)) = m
<1> DEFINE Below(i) == {j \in 1 .. n : <<j, i>> \in Smaller}
           Rank(i) == Cardinality(Below(i))
           rank == [i \in 1 .. n |-> Rank(i)]
<1>1. IsFiniteSet(1 .. n) /\ Cardinality(1 .. n) = n
  BY FS_Interval
<1>2. ASSUME NEW i \in 1 .. n PROVE IsFiniteSet(Below(i)) /\ Rank(i) \in Nat
  <2>1. Below(i) \in SUBSET (1 .. n)
    OBVIOUS
  <2>. QED BY <1>1, <2>1, FS_Subset, FS_CardinalityType
<1>3. ASSUME NEW i \in 1 .. n, NEW j \in 1 .. n, <<i, j>> \in Smaller PROVE Rank(i) < Rank(j)
  <2>1. Below(i) \in SUBSET Below(j) /\ i \in Below(j) /\ i \notin Below(i)
    BY <1>3
  <2> HIDE DEF Below
  <2>2. Cardinality(Below(i)) <= Cardinality(Below(j))
        /\ Cardinality(Below(i)) # Cardinality(Below(j))
    BY <1>2, <2>1, FS_Subset
  <2>. QED BY <1>2, <2>2
<1>4. ASSUME NEW i \in 1 .. n PROVE Rank(i) \in 0 .. (n - 1)
  <2>1. Below(i) \in SUBSET (1 .. n) /\ i \notin Below(i)
    OBVIOUS
  <2> HIDE DEF Below
  <2>2. Cardinality(Below(i)) <= n /\ Cardinality(Below(i)) # n
    BY <1>1, <2>1, FS_Subset
  <2>. QED BY <1>2, <2>2
<1> HIDE DEF Rank
<1>5. rank \in Injection(1 .. n, 0 .. (n - 1))
  <2>1. rank \in [1 .. n -> 0 .. (n - 1)]
    BY <1>4
  <2>2. ASSUME NEW i \in 1 .. n, NEW j \in 1 .. n, rank[i] = rank[j] PROVE i = j
    <3>1. Rank(i) = Rank(j) /\ Rank(i) \in Int /\ Rank(j) \in Int
      BY <1>4, <2>2
    <3>2. ~(Rank(i) < Rank(j)) /\ ~(Rank(j) < Rank(i))
      BY <3>1
    <3>. QED BY <1>3, <3>2
  <2>. QED BY <2>1, <2>2 DEF Injection, IsInjective
<1>6. rank \in Surjection(1 .. n, 0 .. (n - 1))
  <2>1. IsFiniteSet(0 .. (n - 1)) /\ Cardinality(0 .. (n - 1)) = n
    BY FS_Interval
  <2>. QED BY <1>1, <1>5, <2>1, FS_Injection
<1>7. ASSUME NEW m \in 0 .. n
      PROVE  LET E == {i \in 1 .. n : Rank(i) < m} IN IsFiniteSet(E) /\ Cardinality(E) = m
  <2> DEFINE E == {i \in 1 .. n : Rank(i) < m}
             f == [i \in E |-> Rank(i)]
  <2>1. IsFiniteSet(E)
    <3>1. E \in SUBSET (1 .. n)
      OBVIOUS
    <3>. QED BY <1>1, <3>1, FS_Subset
  <2>2. \A i \in E : i \in 1 .. n /\ Rank(i) \in 0 .. (m - 1) /\ f[i] = rank[i]
    BY <1>4
  <2>3. f \in Injection(E, 0 .. (m - 1))
    <3>1. f \in [E -> 0 .. (m - 1)]
      BY <2>2
    <3>2. \A i, j \in E : f[i] = f[j] => i = j
      BY <1>5, <2>2 DEF Injection, IsInjective
    <3>. QED BY <3>1, <3>2 DEF Injection, IsInjective
  <2>4. ASSUME NEW k \in 0 .. (m - 1) PROVE \E i \in E : f[i] = k
    <3>1. k \in 0 .. (n - 1)
      OBVIOUS
    <3>2. PICK i \in 1 .. n : rank[i] = k
      BY <1>6, <3>1 DEF Surjection
    <3>3. Rank(i) = k /\ k < m
      BY <3>2
    <3>. QED BY <3>2, <3>3
  <2>5. ExistsBijection(E, 0 .. (m - 1))
    <3>1. f \in Surjection(E, 0 .. (m - 1))
      BY <2>3, <2>4 DEF Surjection, Injection
    <3>. QED BY <2>3, <3>1 DEF ExistsBijection, Bijection
  <2>6. Cardinality(0 .. (m - 1)) = m
    BY FS_Interval
  <2>. QED BY <2>1, <2>5, <2>6, FS_Bijection
<1>. QED BY <1>3, <1>4, <1>7 DEF Rank, Below, RankIn, Least

-----------------------------------------------------------------------------
(* The forgetting cycle *)

AllDated(eps) ==
  /\ eps \in Seq(Episodes) /\ today \in Nat
  /\ \A i \in DOMAIN eps : Dated(eps[i])

\* Being evicted before another is a total order of positions.
LEMMA EvictionOrder ==
  ASSUME NEW eps, AllDated(eps)
  PROVE  /\ \A i \in DOMAIN eps : ~EvictedBefore(eps, i, i)
         /\ \A i, j \in DOMAIN eps :
              i # j => EvictedBefore(eps, i, j) \/ EvictedBefore(eps, j, i)
         /\ \A i, j, k \in DOMAIN eps :
              EvictedBefore(eps, i, j) /\ EvictedBefore(eps, j, k) => EvictedBefore(eps, i, k)
<1>1. DOMAIN eps \subseteq Int
  BY LenProperties DEF AllDated
<1>2. ASSUME NEW i \in DOMAIN eps PROVE ~EvictedBefore(eps, i, i)
  <2>1. ~WorthLess(eps[i], eps[i])
    BY WorthAsymmetric DEF AllDated
  <2>2. ~(i < i)
    BY <1>1
  <2>. QED BY <2>1, <2>2 DEF EvictedBefore
<1>3. ASSUME NEW i \in DOMAIN eps, NEW j \in DOMAIN eps, i # j
      PROVE  EvictedBefore(eps, i, j) \/ EvictedBefore(eps, j, i)
  <2>1. i < j \/ j < i
    BY <1>1, <1>3
  <2>. QED BY <2>1 DEF EvictedBefore
<1>4. ASSUME NEW i \in DOMAIN eps, NEW j \in DOMAIN eps, NEW k \in DOMAIN eps,
             EvictedBefore(eps, i, j), EvictedBefore(eps, j, k)
      PROVE  EvictedBefore(eps, i, k)
  <2>1. today \in Nat /\ Dated(eps[i]) /\ Dated(eps[j]) /\ Dated(eps[k])
    BY DEF AllDated
  <2>2. ~WorthLess(eps[j], eps[i]) /\ ~WorthLess(eps[k], eps[j])
    BY <1>4, <2>1, WorthAsymmetric DEF EvictedBefore
  <2>3. ~WorthLess(eps[k], eps[i])
        /\ (WorthLess(eps[i], eps[j]) \/ WorthLess(eps[j], eps[k]) => WorthLess(eps[i], eps[k]))
    BY <2>1, <2>2, WorthInOrder
  <2>4. i < j /\ j < k => i < k
    BY <1>1
  <2>. QED BY <1>4, <2>3, <2>4 DEF EvictedBefore
<1>. QED BY <1>2, <1>3, <1>4

\* The positions the budget step deletes.
Rank(eps, i) == Cardinality({j \in DOMAIN eps : EvictedBefore(eps, j, i) /\ j # i})
Out(eps) == {i \in DOMAIN eps : Rank(eps, i) < Len(eps) - EpisodicMax}

\* They are as many as are too many, and no other is worth less than one of them.
LEMMA OutFacts ==
  ASSUME NEW eps, AllDated(eps), Len(eps) > EpisodicMax
  PROVE  /\ IsFiniteSet(Out(eps)) /\ Cardinality(Out(eps)) = Len(eps) - EpisodicMax
         /\ \A i \in Out(eps), j \in DOMAIN eps \ Out(eps) : ~WorthLess(eps[j], eps[i])
<1> DEFINE n == Len(eps)
           m == n - EpisodicMax
           Smaller == {p \in (1 .. n) \X (1 .. n) : EvictedBefore(eps, p[1], p[2])}
<1>1. n \in Nat /\ DOMAIN eps = 1 .. n
  BY LenProperties DEF AllDated
<1>2. m \in 0 .. n
  BY <1>1, StoresConfig DEF StoresConfig
<1>3. \A i, j \in 1 .. n : <<i, j>> \in Smaller <=> EvictedBefore(eps, i, j)
  OBVIOUS
<1> HIDE DEF Smaller
<1>4. /\ \A i \in 1 .. n : <<i, i>> \notin Smaller
      /\ \A i, j \in 1 .. n : i # j => <<i, j>> \in Smaller \/ <<j, i>> \in Smaller
      /\ \A i, j, k \in 1 .. n :
           <<i, j>> \in Smaller /\ <<j, k>> \in Smaller => <<i, k>> \in Smaller
  BY <1>1, <1>3, EvictionOrder
<1>5. ASSUME NEW i \in 1 .. n PROVE Rank(eps, i) = RankIn(n, Smaller, i)
  <2>1. {j \in DOMAIN eps : EvictedBefore(eps, j, i) /\ j # i} = {j \in 1 .. n : <<j, i>> \in Smaller}
    BY <1>1, <1>3, <1>4
  <2>. QED BY <2>1 DEF Rank, RankIn
<1>6. /\ \A i, j \in 1 .. n :
           <<i, j>> \in Smaller => RankIn(n, Smaller, i) < RankIn(n, Smaller, j)
      /\ \A i \in 1 .. n : RankIn(n, Smaller, i) \in 0 .. (n - 1)
      /\ \A k \in 0 .. n : IsFiniteSet(Least(n, Smaller, k)) /\ Cardinality(Least(n, Smaller, k)) = k
  BY <1>1, <1>4, Ranks
<1>7. Out(eps) = Least(n, Smaller, m)
  BY <1>1, <1>5 DEF Out, Least
<1>8. ASSUME NEW i \in Out(eps), NEW j \in DOMAIN eps \ Out(eps) PROVE ~WorthLess(eps[j], eps[i])
  <2>1. i \in 1 .. n /\ j \in 1 .. n
    BY <1>1 DEF Out
  <2>2. RankIn(n, Smaller, i) < m /\ ~(RankIn(n, Smaller, j) < m)
    BY <1>1, <1>7, <2>1 DEF Least
  <2>3. ~(RankIn(n, Smaller, j) < RankIn(n, Smaller, i))
    <3>1. RankIn(n, Smaller, i) \in Int /\ RankIn(n, Smaller, j) \in Int /\ m \in Int
      BY <1>2, <1>6, <2>1
    <3>. QED BY <2>2, <3>1
  <2>4. ~EvictedBefore(eps, j, i)
    BY <1>3, <1>6, <2>1, <2>3
  <2>. QED BY <2>4 DEF EvictedBefore
<1>. QED BY <1>2, <1>6, <1>7, <1>8

Others(eps, ids) == {i \in DOMAIN eps : eps[i].id \notin ids}
IdsAt(eps, at)   == {eps[i].id : i \in at}

\* What deleting leaves: the others in their order.
LEMMA WithoutFacts ==
  ASSUME NEW eps, NEW about, NEW marked, NEW day, Chronicle(eps, about, marked, day),
         NEW ids, NEW new \in Without(eps, ids)
  PROVE  /\ Chronicle(new, about, marked, day)
         /\ Len(new) = Cardinality(Others(eps, ids))
         /\ Ids(new) = IdsAt(eps, Others(eps, ids))
<1> DEFINE others == Others(eps, ids)
           n == Cardinality(others)
<1>1. PICK at \in Bijection(1 .. n, others) :
        /\ new = [k \in DOMAIN at |-> eps[at[k]]]
        /\ \A j, k \in DOMAIN at : j < k => at[j] < at[k]
  BY DEF Without, Others
<1>2. at \in [1 .. n -> others] /\ DOMAIN at = 1 .. n /\ \A i \in others : \E k \in 1 .. n : at[k] = i
  BY <1>1 DEF Bijection, Injection, Surjection
<1>3. n \in Nat
  <2>1. IsFiniteSet(DOMAIN eps)
    <3>1. DOMAIN eps = 1 .. Len(eps) /\ Len(eps) \in Nat
      BY LenProperties DEF Chronicle
    <3>. QED BY <3>1, FS_Interval
  <2>2. others \in SUBSET DOMAIN eps
    BY DEF Others
  <2>. QED BY <2>1, <2>2, FS_Subset, FS_CardinalityType
<1>4. at \in [1 .. n -> DOMAIN eps]
  BY <1>2 DEF Others
<1> HIDE DEF others, n
<1>5. Chronicle([k \in 1 .. n |-> eps[at[k]]], about, marked, day)
  <2>1. \A j, k \in 1 .. n : j < k => at[j] < at[k]
    BY <1>1, <1>2
  <2>. QED BY <1>3, <1>4, <2>1, Sublist
<1>6. new = [k \in 1 .. n |-> eps[at[k]]]
  BY <1>1, <1>2
<1>7. Chronicle(new, about, marked, day)
  BY <1>5, <1>6
<1>8. Len(new) = n
  <2>1. new \in Seq(Episodes)
    BY <1>7 DEF Chronicle
  <2>2. DOMAIN new = 1 .. n /\ DOMAIN new = 1 .. Len(new) /\ Len(new) \in Nat
    BY <1>6, <2>1, LenProperties
  <2>3. \A l \in Nat : Cardinality(1 .. l) = l
    BY FS_Interval
  <2>. QED BY <1>3, <2>2, <2>3
<1>9. Ids(new) = IdsAt(eps, others)
  <2>1. DOMAIN new = 1 .. n /\ \A k \in 1 .. n : new[k] = eps[at[k]] /\ at[k] \in others
    BY <1>2, <1>6
  <2>2. ASSUME NEW k \in 1 .. n PROVE new[k].id \in IdsAt(eps, others)
    BY <2>1 DEF IdsAt
  <2>3. ASSUME NEW i \in others PROVE eps[i].id \in Ids(new)
    <3>1. PICK k \in 1 .. n : at[k] = i
      BY <1>2
    <3>. QED BY <2>1, <3>1 DEF Ids
  <2>. QED BY <2>1, <2>2, <2>3 DEF Ids, IdsAt
<1>. QED BY <1>7, <1>8, <1>9 DEF others, n

Compressed ==
  [i \in DOMAIN episodes |->
     IF Age(episodes[i]) > StaleAge THEN [episodes[i] EXCEPT !.embedded = FALSE] ELSE episodes[i]]

\* Compression drops embeddings, which nothing here depends on.
LEMMA CompressedFacts ==
  ASSUME StoreInv
  PROVE  /\ Chronicle(Compressed, recorded, remarked, today) /\ AllDated(Compressed)
         /\ DOMAIN Compressed = DOMAIN episodes /\ Len(Compressed) = Len(episodes)
         /\ Ids(Compressed) = Ids(episodes)
         /\ \A i \in DOMAIN episodes : Compressed[i].id = episodes[i].id
         /\ \A i, j \in DOMAIN episodes :
              WorthLess(Compressed[i], Compressed[j]) <=> WorthLess(episodes[i], episodes[j])
<1>1. DOMAIN episodes = 1 .. Len(episodes) /\ Len(episodes) \in Nat
  BY LenProperties DEF StoreInv, TypeOK
<1>2. ASSUME NEW i \in DOMAIN episodes
      PROVE  /\ Compressed[i] \in Episodes
             /\ Compressed[i].id = episodes[i].id /\ Compressed[i].day = episodes[i].day
             /\ Compressed[i].fact = episodes[i].fact
             /\ Compressed[i].postmortem = episodes[i].postmortem
  <2>1. episodes[i] \in Episodes
    BY EpisodeFacts
  <2>. QED BY <2>1 DEF Compressed, Episodes
<1>3. DOMAIN Compressed = DOMAIN episodes
  BY DEF Compressed
<1>4. Compressed \in Seq(Episodes)
  <2>1. Compressed \in [1 .. Len(episodes) -> Episodes]
    <3>1. Compressed = [i \in DOMAIN episodes |-> Compressed[i]]
      BY DEF Compressed
    <3>. QED BY <1>1, <1>2, <3>1
  <2>. QED BY <1>1, <2>1, SeqDef
<1>5. Len(Compressed) = Len(episodes)
  BY <1>1, <1>3, <1>4, LenProperties
<1>6. Chronicle(Compressed, recorded, remarked, today)
  <2>1. Chronicle(episodes, recorded, remarked, today)
    BY DEF StoreInv
  <2>. QED BY <1>2, <1>3, <1>4, <2>1 DEF Chronicle
<1>7. AllDated(Compressed)
  <2>1. today \in Nat
    BY DEF StoreInv, TypeOK
  <2>2. ASSUME NEW i \in DOMAIN Compressed PROVE Dated(Compressed[i])
    <3>1. Compressed[i].day \in Int
      BY <1>2, <1>3 DEF Episodes
    <3>2. Compressed[i].day <= today
      BY <1>6, <2>2 DEF Chronicle
    <3>. QED BY <3>1, <3>2 DEF Dated
  <2>. QED BY <1>4, <2>1, <2>2 DEF AllDated
<1>8. ASSUME NEW i \in DOMAIN episodes, NEW j \in DOMAIN episodes
      PROVE  WorthLess(Compressed[i], Compressed[j]) <=> WorthLess(episodes[i], episodes[j])
  <2>1. Age(Compressed[i]) = Age(episodes[i]) /\ Age(Compressed[j]) = Age(episodes[j])
    BY <1>2 DEF Age
  <2>2. Utility(Compressed[i]) = Utility(episodes[i]) /\ Utility(Compressed[j]) = Utility(episodes[j])
    BY <1>2 DEF Utility
  <2>. QED BY <2>1, <2>2 DEF WorthLess
<1>9. Ids(Compressed) = Ids(episodes)
  BY <1>2, <1>3 DEF Ids
<1>. QED BY <1>2, <1>3, <1>5, <1>6, <1>7, <1>8, <1>9

LEMMA CycleFacts ==
  ASSUME ForgetCycle
  PROVE  /\ UNCHANGED <<today, lessons, recorded, remarked>>
         /\ Len(episodes) > EpisodicMax =>
              episodes' \in Without(Compressed, Evicted(Compressed)) /\ index' = Reindex(episodes')
         /\ ~(Len(episodes) > EpisodicMax) => episodes' = Compressed /\ index' = index
         /\ procs' = [p \in DOMAIN procs |->
              IF Weak(procs[p]) /\ today - procs[p].lastUsed > IdleRetire
              THEN [procs[p] EXCEPT !.status = "retired"] ELSE procs[p]]
BY DEF ForgetCycle, Compressed

LEMMA ForgetCycleStep == ASSUME StoreInv, ForgetCycle PROVE StoreInv'
<1>1. UNCHANGED <<today, lessons, recorded, remarked>>
  BY CycleFacts
<1>2. Chronicle(Compressed, recorded, remarked, today)
  BY CompressedFacts
<1>3. /\ Chronicle(episodes', recorded, remarked', today)
      /\ index' \in [Ids(episodes') -> DOMAIN episodes']
      /\ \A i \in DOMAIN episodes' : index'[episodes'[i].id] = i
  <2>1. CASE Len(episodes) > EpisodicMax
    <3>1. Chronicle(episodes', recorded, remarked, today)
      BY <1>2, <2>1, CycleFacts, WithoutFacts
    <3>. QED BY <1>1, <2>1, <3>1, CycleFacts, ReindexAgrees
  <2>2. CASE ~(Len(episodes) > EpisodicMax)
    <3>1. episodes' = Compressed /\ index' = index
      BY <2>2, CycleFacts
    <3>2. index \in [Ids(episodes) -> DOMAIN episodes]
          /\ \A i \in DOMAIN episodes : index[episodes[i].id] = i
      BY DEF StoreInv, TypeOK, IndexAgrees
    <3>. QED BY <1>1, <1>2, <3>1, <3>2, CompressedFacts
  <2>. QED BY <2>1, <2>2
<1>4. procs' \in Seq(Procedures)
  <2>1. procs \in [1 .. Len(procs) -> Procedures] /\ Len(procs) \in Nat
    BY LenProperties DEF StoreInv, TypeOK
  <2>2. procs' \in [1 .. Len(procs) -> Procedures]
    BY <2>1, CycleFacts DEF Procedures
  <2>. QED BY <2>1, <2>2, SeqDef
<1>5. remarked' \subseteq DOMAIN recorded /\ remarked' \subseteq 1 .. MaxAdded
  BY <1>1 DEF StoreInv, TypeOK
<1>. QED BY <1>1, <1>3, <1>4, <1>5, EpisodesStep

LEMMA StoresKept == Spec => []StoreInv
<1>1. StoreInv /\ [Next]_vars => StoreInv'
  <2> SUFFICES ASSUME StoreInv, [Next]_vars PROVE StoreInv'
    OBVIOUS
  <2>1. CASE UNCHANGED vars
    <3>1. TypeOK'
      BY <2>1 DEF vars, StoreInv, TypeOK, Ids
    <3>. QED BY <2>1, <3>1 DEF vars, StoreInv, Chronicle, IndexAgrees, Ids, LessonsInv, LessonsGrounded
  <2>. QED BY <2>1, PassDaysStep, RecordEpisodeStep, AnnotateEpisodeStep, DeleteEpisodeStep, DistillStep,
              ResolveContradictionStep, RegisterProcedureStep, RecordProcedureUsageStep,
              ForgetCycleStep DEF Next
<1>. QED BY <1>1, InitStores, PTL DEF Spec

-----------------------------------------------------------------------------
(* What follows *)

\* Whatever is evicted, deleted or distilled, the stores hold what they are meant to hold.
THEOREM StoresTyped == Spec => []TypeOK
<1>1. StoreInv => TypeOK
  BY DEF StoreInv
<1>. QED BY <1>1, StoresKept, PTL

\* EpisodicMemory finds every episode by its id, after add(), delete() and any eviction.
THEOREM IndexStays == Spec => []IndexAgrees
<1>1. StoreInv => IndexAgrees
  BY DEF StoreInv
<1>. QED BY <1>1, StoresKept, PTL

\* Every episode tells what was recorded, and has a postmortem if one was written for it.
THEOREM EpisodesStayTrue == Spec => []EpisodesTrue
<1>1. StoreInv => EpisodesTrue
  BY DEF StoreInv, Chronicle, EpisodesTrue
<1>. QED BY <1>1, StoresKept, PTL

\* Lessons rest on as many successes as they claim, long after these were forgotten.
THEOREM LessonsStayGrounded == Spec => []LessonsGrounded
<1>1. StoreInv => LessonsGrounded
  BY DEF StoreInv, LessonsInv
<1>. QED BY <1>1, StoresKept, PTL

\* A forgetting cycle that evicts leaves as many episodes as the budget allows, and none
\* of them is worth less than one that went.
THEOREM ValuableKept == Spec => KeepsValuable
<1> DEFINE gone == Ids(episodes) \ Ids(episodes')
           Kept == /\ gone # {} => Len(episodes') = EpisodicMax
                   /\ \A d \in gone, e \in Ids(episodes') :
                        ~WorthLess(Present(episodes, e), Present(episodes, d))
<1>1. ASSUME StoreInv, ForgetCycle PROVE Kept
  <2> DEFINE eps == Compressed
             others == Others(eps, Evicted(eps))
  <2>1. DOMAIN eps = DOMAIN episodes /\ Len(eps) = Len(episodes) /\ AllDated(eps)
        /\ Chronicle(eps, recorded, remarked, today) /\ Ids(eps) = Ids(episodes)
    BY <1>1, CompressedFacts
  <2>2. CASE ~(Len(episodes) > EpisodicMax)
    <3>1. Ids(episodes') = Ids(episodes)
      BY <1>1, <2>1, <2>2, CycleFacts
    <3>. QED BY <3>1
  <2>3. CASE Len(episodes) > EpisodicMax
    <3>1. episodes' \in Without(eps, Evicted(eps))
      BY <1>1, <2>3, CycleFacts
    <3>2. IsFiniteSet(Out(eps)) /\ Cardinality(Out(eps)) = Len(eps) - EpisodicMax
          /\ \A i \in Out(eps), j \in DOMAIN eps \ Out(eps) : ~WorthLess(eps[j], eps[i])
      BY <2>1, <2>3, OutFacts
    <3>3. Evicted(eps) = {eps[i].id : i \in Out(eps)}
      BY DEF Evicted, Out, Rank
    <3>4. others = DOMAIN eps \ Out(eps)
      <4>1. ASSUME NEW i \in DOMAIN eps PROVE eps[i].id \in Evicted(eps) <=> i \in Out(eps)
        <5>1. \A j \in Out(eps) : j \in DOMAIN eps
          BY DEF Out
        <5>. QED BY <2>1, <3>3, <5>1, Unique
      <4>. QED BY <4>1 DEF Others
    <3>5. Len(episodes') = Cardinality(others) /\ Ids(episodes') = IdsAt(eps, others)
      BY <2>1, <3>1, WithoutFacts
    <3>6. Len(episodes') = EpisodicMax
      <4>1. DOMAIN eps = 1 .. Len(eps) /\ Len(eps) \in Nat /\ EpisodicMax \in Nat
        BY <2>1, LenProperties, StoresConfig DEF AllDated, StoresConfig
      <4>2. IsFiniteSet(DOMAIN eps) /\ Cardinality(DOMAIN eps) = Len(eps)
        <5>1. \A n \in Nat : IsFiniteSet(1 .. n) /\ Cardinality(1 .. n) = n
          BY FS_Interval
        <5>. QED BY <4>1, <5>1
      <4>3. DOMAIN eps \cap Out(eps) = Out(eps)
        BY DEF Out
      <4>4. Cardinality(DOMAIN eps \ Out(eps)) = Len(eps) - Cardinality(Out(eps))
        BY <4>2, <4>3, FS_Difference
      <4>5. Len(episodes') = Len(eps) - (Len(eps) - EpisodicMax)
        BY <3>2, <3>4, <3>5, <4>4
      <4>. QED BY <4>1, <4>5
    <3>7. ASSUME NEW id \in Ids(episodes)
          PROVE  \E i \in DOMAIN eps : eps[i].id = id /\ Present(episodes, id) = episodes[i]
      <4> DEFINE i == CHOOSE i \in DOMAIN episodes : episodes[i].id = id
      <4>1. i \in DOMAIN episodes /\ episodes[i].id = id
        BY DEF Ids
      <4>2. eps[i].id = id
        BY <1>1, <4>1, CompressedFacts
      <4>. QED BY <2>1, <4>1, <4>2 DEF Present
    <3>8. ASSUME NEW d \in gone, NEW e \in Ids(episodes')
          PROVE  ~WorthLess(Present(episodes, e), Present(episodes, d))
      <4>1. e \in Ids(episodes)
        BY <2>1, <3>4, <3>5 DEF Ids, IdsAt
      <4>2. PICK i \in DOMAIN eps : eps[i].id = d /\ Present(episodes, d) = episodes[i]
        BY <3>7
      <4>3. PICK j \in DOMAIN eps : eps[j].id = e /\ Present(episodes, e) = episodes[j]
        BY <3>7, <4>1
      <4>4. i \in Out(eps)
        BY <3>4, <3>5, <4>2 DEF IdsAt
      <4>5. j \in DOMAIN eps \ Out(eps)
        <5>1. PICK k \in others : eps[k].id = e
          BY <3>5 DEF IdsAt
        <5>2. k \in DOMAIN eps /\ eps[k].id = eps[j].id
          BY <4>3, <5>1 DEF Others
        <5>3. k = j
          BY <2>1, <5>2, Unique
        <5>. QED BY <3>4, <5>1, <5>3
      <4>6. ~WorthLess(eps[j], eps[i])
        BY <3>2, <4>4, <4>5
      <4>. QED BY <1>1, <2>1, <4>2, <4>3, <4>6, CompressedFacts
    <3>. QED BY <3>6, <3>8
  <2>. QED BY <2>2, <2>3
<1>2. StoreInv /\ [Next]_vars => [ForgetCycle => Kept]_vars
  BY <1>1
<1>. QED BY <1>2, StoresKept, PTL DEF Spec, KeepsValuable
=============================================================================
