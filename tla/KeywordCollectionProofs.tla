----------------------- MODULE KeywordCollectionProofs -----------------------
(***************************************************************************)
(* What holds of KeywordCollection for every number of requests, keywords, *)
(* seeds and attempts.                                                     *)
(*                                                                         *)
(* IInv is the inductive invariant.  Beside the properties it says in      *)
(* which phases of its task a request has metrics, is COMPLETED or has     *)
(* been seen COMPLETED (PhaseInv), and that in the middle of an INSERT     *)
(* each keyword is there, inserted or still to come (InsertInv): a row     *)
(* that another transaction has inserted is not skipped before that        *)
(* transaction has ended.                                                  *)
(***************************************************************************)
EXTENDS KeywordCollection, SequenceTheorems, FiniteSetTheorems, TLAPS

Whole(r) == FindMetrics(r) = Elements(returned[r])

(* How far the task of a request is that has metrics, or is COMPLETED *)
Phase(r) ==
  /\ request[r] = "NONE" => pc[r] = "none"
  /\ request[r] = "COMPLETED" => pc[r] = "done"
  /\ pc[r] = "complete" /\ Exists(r) => Whole(r)
  /\ FindMetrics(r) # {} => pc[r] \in {"complete", "fail", "done", "dead"}
  /\ view[r].at # "none" => request[r] \in {"COMPLETED", "GONE"}

PhaseInv == \A r \in RequestIds : Phase(r)

(* The INSERT of a collection: nothing that was returned is forgotten. *)
InsertInv ==
  \A r \in RequestIds : pc[r] = "insert" =>
    Elements(returned[r]) \subseteq keywords \cup inserted[r] \cup missing[r]

(* The metrics of a request, as find_metrics gives them *)
Rows(r) ==
  /\ FindMetrics(r) # {} => Whole(r) /\ Exists(r)
  /\ request[r] = "COMPLETED" => Whole(r)
  /\ view[r].at = "answered" =>
       view[r].rows = Elements(returned[r]) \/ request[r] = "GONE"

RowsInv ==
  /\ \A r \in RequestIds : Rows(r)
  /\ \A m \in metrics : m[2] \in keywords

(* The inductive invariant *)
IInv == TypeOK /\ PhaseInv /\ InsertInv /\ RowsInv /\ EveryKeywordFound

-----------------------------------------------------------------------------
(* Lists without repetition *)

LEMMA ListIsSeq ==
  ASSUME NEW S, IsFiniteSet(S), NEW s \in Lists(S)
  PROVE  /\ s \in Seq(S)
         /\ \A i, j \in 1 .. Len(s) : s[i] = s[j] => i = j
<1>1. PICK n \in 0 .. Cardinality(S) : s \in [1 .. n -> S]
  BY DEF Lists
<1>2. n \in Nat
  BY <1>1, FS_CardinalityType
<1>3. s \in Seq(S) /\ DOMAIN s = 1 .. n /\ Len(s) = n
  BY <1>1, <1>2
<1> QED  BY <1>3 DEF Lists

(* No list without repetition is longer than there are elements. *)
LEMMA SeqIsList ==
  ASSUME NEW S, IsFiniteSet(S), NEW s \in Seq(S),
         \A i, j \in 1 .. Len(s) : s[i] = s[j] => i = j
  PROVE  s \in Lists(S)
<1>1. Len(s) \in Nat /\ s \in [1 .. Len(s) -> S] /\ DOMAIN s = 1 .. Len(s)
  BY LenProperties
<1>2. Cardinality(S) \in Nat
  BY FS_CardinalityType
<1>3. Len(s) <= Cardinality(S)
  <2> SUFFICES ASSUME Cardinality(S) < Len(s) PROVE FALSE
    BY <1>1, <1>2
  <2>1. IsFiniteSet(1 .. Len(s)) /\ Cardinality(1 .. Len(s)) = Len(s)
    BY <1>1, FS_Interval
  <2>2. \E x, y \in 1 .. Len(s) : x # y /\ s[x] = s[y]
    BY <1>1, <2>1, FS_PigeonHole
  <2> QED  BY <2>2
<1>4. Len(s) \in 0 .. Cardinality(S)
  BY <1>1, <1>2, <1>3
<1> QED  BY <1>1, <1>4 DEF Lists

(* What Naver returns next is added to what it has returned before. *)
LEMMA ListsJoin ==
  ASSUME NEW S, IsFiniteSet(S), NEW s \in Lists(S),
         NEW t \in Lists(S \ Elements(s))
  PROVE  s \o t \in Lists(S)
<1>1. s \in Seq(S) /\ \A i, j \in 1 .. Len(s) : s[i] = s[j] => i = j
  BY ListIsSeq
<1>2. IsFiniteSet(S \ Elements(s))
  BY FS_Difference
<1>3. /\ t \in Seq(S \ Elements(s))
      /\ \A i, j \in 1 .. Len(t) : t[i] = t[j] => i = j
  BY <1>2, ListIsSeq
<1>4. t \in Seq(S)
  BY <1>3
<1>5. /\ s \o t \in Seq(S) /\ Len(s \o t) = Len(s) + Len(t)
      /\ \A i \in 1 .. Len(s) + Len(t) :
           (s \o t)[i] = IF i <= Len(s) THEN s[i] ELSE t[i - Len(s)]
  BY <1>1, <1>4, ConcatProperties
<1>6. Len(s) \in Nat /\ Len(t) \in Nat
  BY <1>1, <1>4, LenProperties
<1>7. \A i \in 1 .. Len(s), j \in 1 .. Len(t) : s[i] # t[j]
  <2>1. \A i \in 1 .. Len(s) : s[i] \in Elements(s)
    BY <1>1, LenProperties DEF Elements
  <2>2. \A j \in 1 .. Len(t) : t[j] \in S \ Elements(s)
    BY <1>3, LenProperties
  <2> QED  BY <2>1, <2>2
<1>8. ASSUME NEW i \in 1 .. Len(s \o t), NEW j \in 1 .. Len(s \o t),
             (s \o t)[i] = (s \o t)[j]
      PROVE  i = j
  <2>1. i \in 1 .. Len(s) + Len(t) /\ j \in 1 .. Len(s) + Len(t)
    BY <1>5
  <2>2. CASE i <= Len(s) /\ j <= Len(s)
    BY <1>1, <1>5, <1>6, <1>8, <2>1, <2>2
  <2>3. CASE ~(i <= Len(s)) /\ ~(j <= Len(s))
    <3>1. i - Len(s) \in 1 .. Len(t) /\ j - Len(s) \in 1 .. Len(t)
      BY <1>6, <2>1, <2>3
    <3>2. t[i - Len(s)] = t[j - Len(s)]
      BY <1>5, <1>8, <2>1, <2>3
    <3>3. i - Len(s) = j - Len(s)
      BY <1>3, <3>1, <3>2
    <3> QED  BY <1>6, <2>1, <3>3
  <2>4. CASE i <= Len(s) /\ ~(j <= Len(s))
    <3>1. i \in 1 .. Len(s) /\ j - Len(s) \in 1 .. Len(t)
      BY <1>6, <2>1, <2>4
    <3> QED  BY <1>5, <1>7, <1>8, <2>1, <2>4, <3>1
  <2>5. CASE ~(i <= Len(s)) /\ j <= Len(s)
    <3>1. j \in 1 .. Len(s) /\ i - Len(s) \in 1 .. Len(t)
      BY <1>6, <2>1, <2>5
    <3> QED  BY <1>5, <1>7, <1>8, <2>1, <2>5, <3>1
  <2> QED  BY <2>2, <2>3, <2>4, <2>5
<1> QED  BY <1>5, <1>8, SeqIsList

LEMMA EmptyList == \A S : IsFiniteSet(S) => <<>> \in Lists(S)
<1> TAKE S
<1> SUFFICES ASSUME IsFiniteSet(S) PROVE <<>> \in Lists(S)
  OBVIOUS
<1> DEFINE none == <<>>
<1>1. none \in Seq(S) /\ Len(none) = 0
  OBVIOUS
<1> HIDE DEF none
<1>2. \A i, j \in 1 .. Len(none) : none[i] = none[j] => i = j
  BY <1>1
<1>3. none \in Lists(S)
  BY <1>1, <1>2, SeqIsList
<1> QED  BY <1>3 DEF none

LEMMA ElementsOf ==
  ASSUME TypeOK, NEW r \in RequestIds
  PROVE  Elements(returned[r]) \subseteq Keywords
<1>1. returned[r] \in Seq(Keywords)
  BY ListIsSeq, CollectionConstants DEF TypeOK
<1> QED  BY <1>1 DEF Elements

-----------------------------------------------------------------------------
(* The steps *)

Act(r) ==
  \/ Create(r) \/ Work(r)
  \/ Error(r) \/ FailedIsLost(r) \/ Stop(r) \/ Delete(r)
  \/ ReadRequest(r) \/ ReadMetrics(r)

(* Whatever fails, the transaction is dropped. *)
Drops(r) ==
  \/ Drop(r, "fail") /\ pc[r] \in Active \ {"fail"}
  \/ Drop(r, "dead") /\ pc[r] \in Active

LEMMA ActSplit ==
  ASSUME NEW r \in RequestIds, Act(r)
  PROVE  \/ Create(r) \/ SetCollecting(r) \/ Extract(r) \/ FetchAnswers(r)
         \/ FetchLimited(r) \/ SelectKeywords(r) \/ InsertNext(r) \/ Save(r)
         \/ SetCompleted(r) \/ SetFailed(r) \/ FailedIsLost(r) \/ Delete(r)
         \/ ReadRequest(r) \/ ReadMetrics(r) \/ Drops(r)
  BY DEF Act, Work, Error, Stop, FetchFails, InsertAborted, SaveRefused, Raise,
     Drops, Active

(* A step is a step of one request: the others stay what they are, and keep
   their metrics.  Keywords are only added. *)
LEMMA OthersStay ==
  ASSUME TypeOK, NEW r \in RequestIds, Act(r), NEW s \in RequestIds, s # r
  PROVE  /\ request'[s] = request[s] /\ pc'[s] = pc[s]
         /\ returned'[s] = returned[s] /\ missing'[s] = missing[s]
         /\ inserted'[s] = inserted[s] /\ view'[s] = view[s]
         /\ FindMetrics(s)' = FindMetrics(s)
<1>0. \/ Create(r) \/ SetCollecting(r) \/ Extract(r) \/ FetchAnswers(r)
      \/ FetchLimited(r) \/ SelectKeywords(r) \/ InsertNext(r) \/ Save(r)
      \/ SetCompleted(r) \/ SetFailed(r) \/ FailedIsLost(r) \/ Delete(r)
      \/ ReadRequest(r) \/ ReadMetrics(r) \/ Drops(r)
  BY ActSplit
<1>1. request'[s] = request[s] /\ view'[s] = view[s]
  BY <1>0 DEF TypeOK, Create, SetCollecting, Extract, FetchAnswers,
     FetchLimited, SelectKeywords, InsertNext, Save, SetCompleted, SetFailed,
     FailedIsLost, Delete, ReadRequest, ReadMetrics, Drops, Drop, SetStatus
<1>2. pc'[s] = pc[s]
  BY <1>0 DEF TypeOK, Create, SetCollecting, Extract, FetchAnswers,
     FetchLimited, SelectKeywords, InsertNext, Save, SetCompleted, SetFailed,
     FailedIsLost, Delete, ReadRequest, ReadMetrics, Drops, Drop, Goto
<1>3. returned'[s] = returned[s]
  BY <1>0 DEF TypeOK, Create, SetCollecting, Extract, FetchAnswers,
     FetchLimited, SelectKeywords, InsertNext, Save, SetCompleted, SetFailed,
     FailedIsLost, Delete, ReadRequest, ReadMetrics, Drops, Drop, task
<1>4. missing'[s] = missing[s]
  BY <1>0 DEF TypeOK, Create, SetCollecting, Extract, FetchAnswers,
     FetchLimited, SelectKeywords, InsertNext, Save, SetCompleted, SetFailed,
     FailedIsLost, Delete, ReadRequest, ReadMetrics, Drops, Drop, task
<1>5. inserted'[s] = inserted[s]
  BY <1>0 DEF TypeOK, Create, SetCollecting, Extract, FetchAnswers,
     FetchLimited, SelectKeywords, InsertNext, Save, SetCompleted, SetFailed,
     FailedIsLost, Delete, ReadRequest, ReadMetrics, Drops, Drop, task
<1>6. FindMetrics(s)' = FindMetrics(s)
  <2>1. \A k : <<s, k>> \in metrics' <=> <<s, k>> \in metrics
    <3>1. CASE Save(r)
      BY <3>1 DEF Save, MetricRows
    <3>2. CASE Delete(r)
      BY <3>2 DEF Delete
    <3>3. CASE ~Save(r) /\ ~Delete(r)
      BY <3>3, ActSplit DEF Create, SetCollecting, Extract, FetchAnswers,
         FetchLimited, SelectKeywords, InsertNext, SetCompleted, SetFailed,
         FailedIsLost, ReadRequest, ReadMetrics, Drops, Drop
    <3> QED  BY <3>1, <3>2, <3>3
  <2> QED  BY <2>1 DEF FindMetrics
<1> QED  BY <1>1, <1>2, <1>3, <1>4, <1>5, <1>6

LEMMA KeywordsStay ==
  ASSUME TypeOK, NEW r \in RequestIds, Act(r)
  PROVE  /\ keywords \subseteq keywords'
         /\ keywords' = keywords \/ Save(r)
  BY ActSplit DEF Create, SetCollecting, Extract, FetchAnswers, FetchLimited,
     SelectKeywords, InsertNext, Save, SetCompleted, SetFailed, FailedIsLost,
     Delete, ReadRequest, ReadMetrics, Drops, Drop

(* The metrics of the request itself: saved at once, deleted at once. *)
LEMMA OwnMetrics ==
  ASSUME TypeOK, NEW r \in RequestIds, Act(r)
  PROVE  /\ Save(r) => FindMetrics(r)' =
                          FindMetrics(r) \cup Elements(returned[r])
         /\ Delete(r) => FindMetrics(r)' = {}
         /\ ~Save(r) /\ ~Delete(r) =>
              metrics' = metrics /\ FindMetrics(r)' = FindMetrics(r)
<1>1. ASSUME Save(r)
      PROVE  FindMetrics(r)' = FindMetrics(r) \cup Elements(returned[r])
  <2>1. \A k : <<r, k>> \in metrics' <=>
                 <<r, k>> \in metrics \/ k \in Elements(returned[r])
    BY <1>1 DEF Save, MetricRows
  <2>2. Elements(returned[r]) \subseteq Keywords
    BY ElementsOf
  <2> QED  BY <2>1, <2>2 DEF FindMetrics
<1>2. ASSUME Delete(r)
      PROVE  FindMetrics(r)' = {}
  <2>1. \A k : <<r, k>> \notin metrics'
    BY <1>2 DEF Delete
  <2> QED  BY <2>1 DEF FindMetrics
<1>3. ASSUME ~Save(r), ~Delete(r)
      PROVE  metrics' = metrics /\ FindMetrics(r)' = FindMetrics(r)
  <2>1. metrics' = metrics
    BY <1>3, ActSplit DEF Create, SetCollecting, Extract, FetchAnswers,
       FetchLimited, SelectKeywords, InsertNext, SetCompleted, SetFailed,
       FailedIsLost, ReadRequest, ReadMetrics, Drops, Drop
  <2> QED  BY <2>1 DEF FindMetrics
<1> QED  BY <1>1, <1>2, <1>3

-----------------------------------------------------------------------------
(* Types *)

LEMMA TypeStep ==
  ASSUME TypeOK, NEW r \in RequestIds, Act(r)
  PROVE  TypeOK'
<1>0. \/ Create(r) \/ SetCollecting(r) \/ Extract(r) \/ FetchAnswers(r)
      \/ FetchLimited(r) \/ SelectKeywords(r) \/ InsertNext(r) \/ Save(r)
      \/ SetCompleted(r) \/ SetFailed(r) \/ FailedIsLost(r) \/ Delete(r)
      \/ ReadRequest(r) \/ ReadMetrics(r) \/ Drops(r)
  BY ActSplit
<1>1. request' \in [RequestIds -> Statuses \cup {"NONE", "GONE"}]
  BY <1>0 DEF TypeOK, Create, SetCollecting, Extract, FetchAnswers,
     FetchLimited, SelectKeywords, InsertNext, Save, SetCompleted, SetFailed,
     FailedIsLost, Delete, ReadRequest, ReadMetrics, Drops, Drop, SetStatus,
     Statuses
<1>2. keywords' \subseteq Keywords
  <2>1. inserted[r] \subseteq Keywords
    BY DEF TypeOK
  <2>2. Save(r) => keywords' = keywords \cup inserted[r]
    BY DEF Save
  <2> QED  BY <2>1, <2>2, KeywordsStay DEF TypeOK
<1>3. metrics' \subseteq RequestIds \X Keywords
  <2>1. CASE Save(r)
    <3>1. {r} \X Elements(returned[r]) \subseteq RequestIds \X Keywords
      BY ElementsOf
    <3> QED  BY <2>1, <3>1 DEF TypeOK, Save, MetricRows
  <2>2. CASE Delete(r)
    BY <2>2 DEF TypeOK, Delete
  <2>3. CASE metrics' = metrics
    BY <2>3 DEF TypeOK
  <2> QED  BY <2>1, <2>2, <2>3, OwnMetrics
<1>4. pc' \in [RequestIds -> Active \cup {"none", "done", "dead"}]
  <2>1. CASE InsertNext(r)
    BY <2>1 DEF TypeOK, InsertNext, Active
  <2>2. CASE ~InsertNext(r)
    BY <1>0, <2>2 DEF TypeOK, Create, SetCollecting, Extract, FetchAnswers,
       FetchLimited, SelectKeywords, Save, SetCompleted, SetFailed,
       FailedIsLost, Delete, ReadRequest, ReadMetrics, Drops, Drop, Goto, Active
  <2> QED  BY <2>1, <2>2
<1>5. seeds' \in [RequestIds -> 0 .. MaxSeeds]
  <2>1. CASE FetchAnswers(r)
    <3>1. seeds[r] - 1 \in 0 .. MaxSeeds
      BY <2>1, CollectionConstants DEF TypeOK, FetchAnswers
    <3> QED  BY <2>1, <3>1 DEF TypeOK, FetchAnswers
  <2>2. CASE ~FetchAnswers(r)
    <3>1. \/ seeds' = seeds
          \/ seeds' = [seeds EXCEPT ![r] = 0]
          \/ seeds' = [seeds EXCEPT ![r] = 1]
          \/ seeds' = [seeds EXCEPT ![r] = MaxSeeds]
      BY <1>0, <2>2 DEF Create, SetCollecting, Extract, FetchLimited,
         SelectKeywords, InsertNext, Save, SetCompleted, SetFailed,
         FailedIsLost, Delete, ReadRequest, ReadMetrics, Drops, Drop, task
    <3> QED  BY <3>1, CollectionConstants DEF TypeOK
  <2> QED  BY <2>1, <2>2
<1>6. attempt' \in [RequestIds -> 0 .. MaxAttempts - 1]
  BY <1>0, CollectionConstants DEF TypeOK, Create, SetCollecting, Extract,
     FetchAnswers, FetchLimited, SelectKeywords, InsertNext, Save, SetCompleted,
     SetFailed, FailedIsLost, Delete, ReadRequest, ReadMetrics, Drops, Drop,
     task
<1>7. returned' \in [RequestIds -> Lists(Keywords)]
  <2>1. CASE FetchAnswers(r)
    <3>1. PICK new \in Lists(Keywords \ Elements(returned[r])) :
            returned' = [returned EXCEPT ![r] = returned[r] \o new]
      BY <2>1 DEF FetchAnswers
    <3>2. returned[r] \o new \in Lists(Keywords)
      BY <3>1, ListsJoin, CollectionConstants DEF TypeOK
    <3> QED  BY <3>1, <3>2 DEF TypeOK
  <2>2. CASE Drops(r)
    <3>1. <<>> \in Lists(Keywords)
      BY EmptyList, CollectionConstants
    <3>2. \/ returned' = [returned EXCEPT ![r] = returned[r]]
          \/ returned' = [returned EXCEPT ![r] = <<>>]
      BY <2>2 DEF Drops, Drop
    <3> QED  BY <3>1, <3>2 DEF TypeOK
  <2>3. CASE ~FetchAnswers(r) /\ ~Drops(r)
    <3>1. returned' = returned
      BY <1>0, <2>3 DEF Create, SetCollecting, Extract, FetchLimited,
         SelectKeywords, InsertNext, Save, SetCompleted, SetFailed,
         FailedIsLost, Delete, ReadRequest, ReadMetrics, task
    <3> QED  BY <3>1 DEF TypeOK
  <2> QED  BY <2>1, <2>2, <2>3
<1>8. missing' \in [RequestIds -> SUBSET Keywords]
  <2>1. CASE SelectKeywords(r)
    BY <2>1, ElementsOf DEF TypeOK, SelectKeywords
  <2>2. CASE InsertNext(r)
    BY <2>2 DEF TypeOK, InsertNext
  <2>3. CASE Drops(r)
    BY <2>3 DEF TypeOK, Drops, Drop
  <2>4. CASE ~SelectKeywords(r) /\ ~InsertNext(r) /\ ~Drops(r)
    <3>1. missing' = missing
      BY <1>0, <2>4 DEF Create, SetCollecting, Extract, FetchAnswers,
         FetchLimited, Save, SetCompleted, SetFailed, FailedIsLost, Delete,
         ReadRequest, ReadMetrics, task
    <3> QED  BY <3>1 DEF TypeOK
  <2> QED  BY <2>1, <2>2, <2>3, <2>4
<1>9. inserted' \in [RequestIds -> SUBSET Keywords]
  <2>1. CASE InsertNext(r)
    <3>1. PICK k \in missing[r] :
            \/ inserted' = [inserted EXCEPT ![r] = inserted[r]]
            \/ inserted' = [inserted EXCEPT ![r] = inserted[r] \cup {k}]
      BY <2>1 DEF InsertNext
    <3>2. k \in Keywords /\ inserted[r] \subseteq Keywords
      BY <3>1 DEF TypeOK
    <3>3. inserted[r] \cup {k} \in SUBSET Keywords
      BY <3>2
    <3> QED  BY <3>1, <3>2, <3>3 DEF TypeOK
  <2>2. CASE Save(r) \/ Drops(r)
    BY <2>2 DEF TypeOK, Save, Drops, Drop
  <2>3. CASE ~InsertNext(r) /\ ~Save(r) /\ ~Drops(r)
    <3>1. inserted' = inserted
      BY <1>0, <2>3 DEF Create, SetCollecting, Extract, FetchAnswers,
         FetchLimited, SelectKeywords, SetCompleted, SetFailed, FailedIsLost,
         Delete, ReadRequest, ReadMetrics, task
    <3> QED  BY <3>1 DEF TypeOK
  <2> QED  BY <2>1, <2>2, <2>3
<1>10. view' \in [RequestIds -> [at: {"none", "status", "answered"},
                                 rows: SUBSET Keywords]]
  <2>1. CASE ReadRequest(r)
    BY <2>1 DEF TypeOK, ReadRequest
  <2>2. CASE ReadMetrics(r)
    <3>1. FindMetrics(r) \in SUBSET Keywords
      BY DEF FindMetrics
    <3> QED  BY <2>2, <3>1 DEF TypeOK, ReadMetrics
  <2>3. CASE ~ReadRequest(r) /\ ~ReadMetrics(r)
    <3>1. view' = view
      BY <1>0, <2>3 DEF Create, SetCollecting, Extract, FetchAnswers,
         FetchLimited, SelectKeywords, InsertNext, Save, SetCompleted,
         SetFailed, FailedIsLost, Delete, Drops, Drop
    <3> QED  BY <3>1 DEF TypeOK
  <2> QED  BY <2>1, <2>2, <2>3
<1> QED
  BY <1>1, <1>2, <1>3, <1>4, <1>5, <1>6, <1>7, <1>8, <1>9, <1>10 DEF TypeOK

-----------------------------------------------------------------------------
(* The request that moves *)

(* What was returned changes only while there are no metrics of it. *)
LEMMA ReturnedStep ==
  ASSUME TypeOK, NEW r \in RequestIds, Act(r)
  PROVE  \/ returned'[r] = returned[r]
         \/ /\ FetchAnswers(r) \/ Drops(r)
            /\ pc[r] \notin {"none", "complete", "fail", "done", "dead"}
  BY ActSplit DEF TypeOK, Create, SetCollecting, Extract, FetchAnswers,
     FetchLimited, SelectKeywords, InsertNext, Save, SetCompleted, SetFailed,
     FailedIsLost, Delete, ReadRequest, ReadMetrics, Drops, Drop, Goto, Active,
     task

LEMMA OwnStep ==
  ASSUME TypeOK, NEW r \in RequestIds, Act(r), Phase(r), Rows(r)
  PROVE  Phase(r)' /\ Rows(r)'
<1>0. /\ request \in [RequestIds -> Statuses \cup {"NONE", "GONE"}]
      /\ pc \in [RequestIds -> Active \cup {"none", "done", "dead"}]
      /\ view \in [RequestIds -> [at: {"none", "status", "answered"},
                                  rows: SUBSET Keywords]]
  BY DEF TypeOK
<1>1. returned'[r] = returned[r] /\ FindMetrics(r)' = FindMetrics(r) =>
        (Whole(r)' <=> Whole(r))
  BY DEF Whole
<1>2. CASE Save(r)
  <2>1. /\ pc[r] = "save" /\ pc'[r] = "complete" /\ request' = request
        /\ view' = view /\ returned' = returned /\ Exists(r)
    BY <1>0, <1>2 DEF Save, Goto
  <2>2. FindMetrics(r) = {}
    BY <2>1 DEF Phase
  <2>3. FindMetrics(r)' = Elements(returned[r])
    BY <1>2, <2>2, OwnMetrics
  <2>4. Whole(r)'
    BY <2>1, <2>3 DEF Whole
  <2> QED  BY <2>1, <2>4 DEF Phase, Rows, Exists, Statuses
<1>3. CASE Delete(r)
  <2>1. /\ request'[r] = "GONE" /\ pc' = pc /\ view' = view
        /\ FindMetrics(r)' = {}
    BY <1>0, <1>3, OwnMetrics DEF Delete
  <2>2. ~Exists(r)'
    BY <2>1 DEF Exists, Statuses
  <2> QED  BY <2>1, <2>2 DEF Phase, Rows
<1>4. CASE ~Save(r) /\ ~Delete(r)
  <2>1. FindMetrics(r)' = FindMetrics(r)
    BY <1>4, OwnMetrics
  <2>2. CASE returned'[r] # returned[r]
    <3>1. /\ FetchAnswers(r) \/ Drops(r)
          /\ pc[r] \notin {"none", "complete", "fail", "done", "dead"}
      BY <2>2, ReturnedStep
    <3>2. /\ request' = request /\ view' = view
          /\ pc'[r] \in {"fetch", "select", "fail", "dead"}
      BY <1>0, <3>1 DEF FetchAnswers, Drops, Drop, Goto
    <3>3. FindMetrics(r) = {} /\ request[r] \notin {"COMPLETED", "NONE"}
      BY <3>1 DEF Phase
    <3>4. view[r].at \in {"none", "status", "answered"}
      BY <1>0
    <3> QED  BY <2>1, <3>2, <3>3, <3>4 DEF Phase, Rows
  <2>3. CASE returned'[r] = returned[r]
    <3>1. Whole(r)' <=> Whole(r)
      BY <1>1, <2>1, <2>3
    <3>2. CASE SetCompleted(r)
      <4>1. /\ pc[r] = "complete" /\ pc'[r] = "done" /\ view' = view
            /\ request'[r] = IF Exists(r) THEN "COMPLETED" ELSE request[r]
        BY <1>0, <3>2 DEF SetCompleted, Goto, SetStatus
      <4> QED
        BY <2>1, <2>3, <3>1, <4>1 DEF Phase, Rows, Exists, Statuses
    <3>3. CASE SetFailed(r) \/ SetCollecting(r)
      <4>1. /\ \/ pc[r] = "fail" /\ pc'[r] = "done"
               \/ pc[r] = "start" /\ pc'[r] = "extract"
            /\ view' = view
            /\ request'[r] \in IF Exists(r) THEN {"FAILED", "COLLECTING"}
                                            ELSE {request[r]}
        BY <1>0, <3>3 DEF SetFailed, SetCollecting, Goto, SetStatus
      <4> QED
        BY <2>1, <2>3, <3>1, <4>1 DEF Phase, Rows, Exists, Statuses
    <3>4. CASE Create(r)
      <4>1. /\ pc[r] = "none" /\ pc'[r] = "start" /\ view' = view
            /\ request[r] = "NONE" /\ request'[r] = "PENDING"
        BY <1>0, <3>4 DEF Create, Goto
      <4> QED
        BY <2>1, <2>3, <3>1, <4>1 DEF Phase, Rows, Exists, Statuses
    <3>5. CASE ReadRequest(r)
      <4>1. /\ request[r] = "COMPLETED" /\ request' = request /\ pc' = pc
            /\ view'[r].at = "status"
        BY <1>0, <3>5 DEF ReadRequest
      <4> QED
        BY <2>1, <2>3, <3>1, <4>1 DEF Phase, Rows, Exists, Statuses
    <3>6. CASE ReadMetrics(r)
      <4>1. /\ view[r].at = "status" /\ request' = request /\ pc' = pc
            /\ view'[r].rows = FindMetrics(r)
        BY <1>0, <3>6 DEF ReadMetrics
      <4>2. request[r] = "COMPLETED" => FindMetrics(r) = Elements(returned[r])
        BY DEF Rows, Whole
      <4> QED
        BY <2>1, <2>3, <3>1, <4>1, <4>2 DEF Phase, Rows, Exists, Statuses
    <3>7. CASE \/ Extract(r) \/ FetchAnswers(r) \/ FetchLimited(r)
               \/ SelectKeywords(r) \/ InsertNext(r) \/ FailedIsLost(r)
               \/ Drops(r)
      <4>1. request' = request /\ view' = view
        BY <3>7 DEF Extract, FetchAnswers, FetchLimited, SelectKeywords,
           InsertNext, FailedIsLost, Drops, Drop, task
      <4>2. pc[r] \in Active /\ pc'[r] \notin {"none", "complete", "done"}
        BY <1>0, <3>7 DEF Extract, FetchAnswers, FetchLimited, SelectKeywords,
           InsertNext, FailedIsLost, Drops, Drop, Goto, Active
      <4>3. pc[r] \in {"complete", "fail"} => pc'[r] \in {"fail", "dead"}
        BY <1>0, <3>7 DEF Extract, FetchAnswers, FetchLimited, SelectKeywords,
           InsertNext, FailedIsLost, Drops, Drop, Goto, Active
      <4> QED
        BY <2>1, <2>3, <3>1, <4>1, <4>2, <4>3 DEF Phase, Rows, Exists,
           Statuses, Active
    <3> QED
      BY <1>4, <3>2, <3>3, <3>4, <3>5, <3>6, <3>7, ActSplit
  <2> QED  BY <2>2, <2>3
<1> QED  BY <1>2, <1>3, <1>4

-----------------------------------------------------------------------------
(* The INSERT *)

(* How a task comes to its INSERT, and out of it *)
LEMMA InsertFacts ==
  ASSUME TypeOK, NEW r \in RequestIds, Act(r), pc'[r] \in {"insert", "save"}
  PROVE  \/ SelectKeywords(r)
         \/ InsertNext(r)
         \/ /\ pc'[r] = pc[r] /\ returned' = returned /\ inserted' = inserted
            /\ missing' = missing /\ keywords' = keywords
<1>1. CASE Delete(r) \/ ReadRequest(r) \/ ReadMetrics(r)
  BY <1>1 DEF Delete, ReadRequest, ReadMetrics, task
<1>2. CASE \/ Create(r) \/ SetCollecting(r) \/ Extract(r) \/ Save(r)
           \/ SetCompleted(r) \/ SetFailed(r) \/ FailedIsLost(r) \/ Drops(r)
  BY <1>2 DEF TypeOK, Create, SetCollecting, Extract, Save, SetCompleted,
     SetFailed, FailedIsLost, Drops, Drop, Goto
<1>3. CASE FetchAnswers(r) \/ FetchLimited(r)
  BY <1>3 DEF TypeOK, FetchAnswers, FetchLimited, Goto
<1> QED  BY <1>1, <1>2, <1>3, ActSplit

LEMMA InsertStep ==
  ASSUME TypeOK, InsertInv, EveryKeywordFound, NEW r \in RequestIds, Act(r)
  PROVE  InsertInv' /\ EveryKeywordFound'
<1>1. keywords \subseteq keywords'
  BY KeywordsStay
<1>2. ASSUME NEW s \in RequestIds, s # r
      PROVE  /\ pc'[s] = "insert" => Elements(returned'[s]) \subseteq
                  keywords' \cup inserted'[s] \cup missing'[s]
             /\ pc'[s] = "save" => Elements(returned'[s]) \subseteq
                  keywords' \cup inserted'[s]
  <2>1. /\ pc'[s] = pc[s] /\ returned'[s] = returned[s]
        /\ missing'[s] = missing[s] /\ inserted'[s] = inserted[s]
    BY <1>2, OthersStay
  <2> QED  BY <1>1, <2>1 DEF InsertInv, EveryKeywordFound
<1>3. ASSUME pc'[r] \in {"insert", "save"}
      PROVE  /\ pc'[r] = "insert" => Elements(returned'[r]) \subseteq
                  keywords' \cup inserted'[r] \cup missing'[r]
             /\ pc'[r] = "save" => Elements(returned'[r]) \subseteq
                  keywords' \cup inserted'[r]
  <2>1. CASE SelectKeywords(r)
    <3>1. /\ returned' = returned /\ keywords' = keywords
          /\ missing'[r] = Elements(returned[r]) \ keywords
          /\ pc'[r] = IF Elements(returned[r]) \ keywords = {}
                        THEN "save" ELSE "insert"
      BY <2>1 DEF TypeOK, SelectKeywords, Goto
    <3> QED  BY <3>1
  <2>2. CASE InsertNext(r)
    <3>1. PICK k \in missing[r] :
            /\ MayInsert(r, k)
            /\ inserted' = [inserted EXCEPT ![r] =
                 IF k \in keywords \cup UNION {inserted[s] : s \in RequestIds}
                   THEN inserted[r] ELSE inserted[r] \cup {k}]
            /\ missing' = [missing EXCEPT ![r] = missing[r] \ {k}]
            /\ pc' = [pc EXCEPT ![r] =
                        IF missing[r] = {k} THEN "save" ELSE pc[r]]
      BY <2>2 DEF InsertNext
    <3>2. /\ pc[r] = "insert" /\ returned' = returned /\ keywords' = keywords
      BY <2>2 DEF InsertNext
    <3>3. inserted[r] \cup {k} \subseteq keywords \cup inserted'[r]
      <4>1. CASE k \in keywords \cup UNION {inserted[s] : s \in RequestIds}
        <5>1. k \in keywords \cup inserted[r]
          BY <3>1, <4>1 DEF MayInsert
        <5>2. inserted'[r] = inserted[r]
          BY <3>1, <4>1 DEF TypeOK
        <5> QED  BY <5>1, <5>2
      <4>2. CASE ~(k \in keywords \cup UNION {inserted[s] : s \in RequestIds})
        <5>1. inserted'[r] = inserted[r] \cup {k}
          BY <3>1, <4>2 DEF TypeOK
        <5> QED  BY <5>1
      <4> QED  BY <4>1, <4>2
    <3>4. /\ missing'[r] = missing[r] \ {k}
          /\ pc'[r] = IF missing[r] = {k} THEN "save" ELSE "insert"
      BY <3>1, <3>2 DEF TypeOK
    <3>5. Elements(returned[r]) \subseteq
            keywords \cup inserted[r] \cup missing[r]
      BY <3>2 DEF InsertInv
    <3>6. Elements(returned[r]) \subseteq
            keywords \cup inserted'[r] \cup missing'[r]
      BY <3>3, <3>4, <3>5
    <3> QED  BY <3>2, <3>4, <3>6
  <2>3. CASE /\ pc'[r] = pc[r] /\ returned' = returned /\ inserted' = inserted
             /\ missing' = missing /\ keywords' = keywords
    BY <2>3 DEF InsertInv, EveryKeywordFound
  <2> QED  BY <1>3, <2>1, <2>2, <2>3, InsertFacts
<1> QED  BY <1>2, <1>3 DEF InsertInv, EveryKeywordFound

(* The metrics that are saved have their keywords. *)
LEMMA MetricsStep ==
  ASSUME TypeOK, RowsInv, EveryKeywordFound, NEW r \in RequestIds, Act(r)
  PROVE  \A m \in metrics' : m[2] \in keywords'
<1>1. \A m \in metrics : m[2] \in keywords'
  BY KeywordsStay DEF RowsInv
<1>2. CASE Save(r)
  <2>1. Elements(returned[r]) \subseteq keywords'
    BY <1>2 DEF Save, Goto, EveryKeywordFound
  <2>2. metrics' = metrics \cup ({r} \X Elements(returned[r]))
    BY <1>2 DEF Save, MetricRows
  <2> QED  BY <1>1, <2>1, <2>2
<1>3. CASE Delete(r)
  BY <1>1, <1>3 DEF Delete
<1>4. CASE ~Save(r) /\ ~Delete(r)
  BY <1>1, <1>4, OwnMetrics
<1> QED  BY <1>2, <1>3, <1>4

-----------------------------------------------------------------------------
(* The invariant is inductive. *)

LEMMA InitInvariant == Init => IInv
<1> SUFFICES ASSUME Init PROVE IInv
  OBVIOUS
<1>1. TypeOK
  <2>1. <<>> \in Lists(Keywords)
    BY EmptyList, CollectionConstants
  <2>2. returned \in [RequestIds -> Lists(Keywords)]
    BY <2>1 DEF Init
  <2>3. /\ 0 \in 0 .. MaxSeeds /\ 0 \in 0 .. MaxAttempts - 1
    BY CollectionConstants
  <2>4. /\ seeds \in [RequestIds -> 0 .. MaxSeeds]
        /\ attempt \in [RequestIds -> 0 .. MaxAttempts - 1]
    BY <2>3 DEF Init
  <2>5. /\ missing \in [RequestIds -> SUBSET Keywords]
        /\ inserted \in [RequestIds -> SUBSET Keywords]
        /\ keywords \subseteq Keywords
        /\ metrics \subseteq RequestIds \X Keywords
    BY DEF Init
  <2>6. request \in [RequestIds -> Statuses \cup {"NONE", "GONE"}]
    BY DEF Init
  <2>7. pc \in [RequestIds -> Active \cup {"none", "done", "dead"}]
    BY DEF Init
  <2>8. view \in [RequestIds -> [at: {"none", "status", "answered"},
                                 rows: SUBSET Keywords]]
    <3>1. [at |-> "none", rows |-> {}] \in
            [at: {"none", "status", "answered"}, rows: SUBSET Keywords]
      OBVIOUS
    <3> QED  BY <3>1 DEF Init
  <2> QED  BY <2>2, <2>4, <2>5, <2>6, <2>7, <2>8 DEF TypeOK
<1>2. /\ metrics = {}
      /\ \A r \in RequestIds :
           request[r] = "NONE" /\ pc[r] = "none" /\ view[r].at = "none"
  BY DEF Init
<1>3. \A r \in RequestIds : FindMetrics(r) = {}
  BY <1>2 DEF FindMetrics
<1> QED
  BY <1>1, <1>2, <1>3 DEF IInv, PhaseInv, Phase, InsertInv, RowsInv, Rows,
     EveryKeywordFound, Exists, Statuses

LEMMA NextInvariant == IInv /\ [Next]_vars => IInv'
<1> SUFFICES ASSUME IInv, [Next]_vars PROVE IInv'
  OBVIOUS
<1>0. TypeOK /\ PhaseInv /\ InsertInv /\ RowsInv /\ EveryKeywordFound
  BY DEF IInv
<1>1. ASSUME NEW r \in RequestIds, Act(r)
      PROVE  IInv'
  <2>1. TypeOK'
    BY <1>0, <1>1, TypeStep
  <2>2. InsertInv' /\ EveryKeywordFound'
    BY <1>0, <1>1, InsertStep
  <2>3. \A m \in metrics' : m[2] \in keywords'
    BY <1>0, <1>1, MetricsStep
  <2>4. ASSUME NEW s \in RequestIds
        PROVE  Phase(s)' /\ Rows(s)'
    <3>1. Phase(s) /\ Rows(s) /\ Phase(r) /\ Rows(r)
      BY <1>0 DEF PhaseInv, RowsInv
    <3>2. CASE s = r
      BY <1>0, <1>1, <3>1, <3>2, OwnStep
    <3>3. CASE s # r
      <4>1. /\ request'[s] = request[s] /\ pc'[s] = pc[s]
            /\ returned'[s] = returned[s] /\ view'[s] = view[s]
            /\ FindMetrics(s)' = FindMetrics(s)
        BY <1>0, <1>1, <3>3, OthersStay
      <4> QED
        BY <3>1, <4>1 DEF Phase, Rows, Whole, Exists
    <3> QED  BY <3>2, <3>3
  <2>5. PhaseInv' /\ RowsInv'
    BY <2>3, <2>4 DEF PhaseInv, RowsInv
  <2> QED  BY <2>1, <2>2, <2>5 DEF IInv
<1>2. CASE UNCHANGED vars
  <2>1. UNCHANGED <<request, keywords, metrics, pc, seeds, attempt, returned,
                    missing, inserted, view>>
    BY <1>2 DEF vars, task
  <2>2. \A r \in RequestIds : FindMetrics(r)' = FindMetrics(r)
    BY <2>1 DEF FindMetrics
  <2>3. TypeOK'
    BY <1>0, <2>1 DEF TypeOK
  <2>4. PhaseInv' /\ RowsInv'
    BY <1>0, <2>1, <2>2 DEF PhaseInv, RowsInv, Phase, Rows, Whole, Exists
  <2>5. InsertInv' /\ EveryKeywordFound'
    BY <1>0, <2>1 DEF InsertInv, EveryKeywordFound
  <2> QED  BY <2>3, <2>4, <2>5 DEF IInv
<1>3. CASE Next
  BY <1>1, <1>3 DEF Next, Act
<1> QED  BY <1>2, <1>3

-----------------------------------------------------------------------------
(* The theorems *)

(* The strengthened invariant holds in every reachable state, whichever
   collections share their keywords, wait for each other or are lost. *)
THEOREM Invariance == Spec => []IInv
  BY InitInvariant, NextInvariant, PTL DEF Spec

(* add_metrics looks up every keyword of its own list after the upsert: each
   is there, inserted by this transaction or by the one it waited for. *)
THEOREM EveryKeywordFoundHolds == Spec => []EveryKeywordFound
<1>1. IInv => EveryKeywordFound
  BY DEF IInv
<1> QED  BY <1>1, Invariance, PTL

(* The metrics of a request are all or none, COMPLETED means all of them, and
   a client that is told COMPLETED is given every keyword. *)
THEOREM MetricsConsistentHolds == Spec => []MetricsConsistent
<1>1. IInv => MetricsConsistent
  <2> SUFFICES ASSUME IInv PROVE MetricsConsistent
    OBVIOUS
  <2>0. TypeOK /\ RowsInv
    BY DEF IInv
  <2>1. ASSUME NEW r \in RequestIds
        PROVE  LET rows == {m \in metrics : m[1] = r}
               IN  /\ rows \in {{}, {r} \X Elements(returned[r])}
                   /\ request[r] = "COMPLETED" =>
                        rows = {r} \X Elements(returned[r])
                   /\ rows # {} => Exists(r)
    <3> DEFINE rows == {m \in metrics : m[1] = r}
    <3>1. rows = {r} \X FindMetrics(r)
      <4>1. ASSUME NEW m \in rows
            PROVE  m \in {r} \X FindMetrics(r)
        <5>1. PICK a \in RequestIds, k \in Keywords : m = <<a, k>>
          BY <2>0 DEF TypeOK
        <5>2. a = r /\ <<r, k>> \in metrics
          BY <5>1
        <5> QED  BY <5>1, <5>2 DEF FindMetrics
      <4>2. ASSUME NEW k \in FindMetrics(r)
            PROVE  <<r, k>> \in rows
        BY DEF FindMetrics
      <4> QED  BY <4>1, <4>2
    <3> HIDE DEF rows
    <3>2. FindMetrics(r) = {} => rows = {}
      BY <3>1
    <3>3. Rows(r)
      BY <2>0 DEF RowsInv
    <3>4. Whole(r) => rows = {r} \X Elements(returned[r])
      BY <3>1 DEF Whole
    <3>5. /\ rows \in {{}, {r} \X Elements(returned[r])}
          /\ request[r] = "COMPLETED" => rows = {r} \X Elements(returned[r])
          /\ rows # {} => Exists(r)
      BY <3>2, <3>3, <3>4 DEF Rows
    <3> QED  BY <3>5 DEF rows
  <2>2. MetricsAllOrNone
    BY <2>0, <2>1 DEF MetricsAllOrNone, RowsInv
  <2>3. CompletedAnswerIsWhole
    BY <2>0 DEF CompletedAnswerIsWhole, RowsInv, Rows
  <2> QED  BY <2>0, <2>2, <2>3 DEF MetricsConsistent
<1> QED  BY <1>1, Invariance, PTL

=============================================================================
