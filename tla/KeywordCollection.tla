-------------------------- MODULE KeywordCollection --------------------------
(***************************************************************************)
(* The background task that collects search keywords for a new analysis    *)
(* request: collect_keywords of app/services/analysis_request_service.py,  *)
(* collect of keyword_collection_service.py, fetch_keywords of             *)
(* naver_searchad_client.py and add_metrics of keyword_repository.py.      *)
(*                                                                         *)
(* The rows of keywords are shared by all requests and inserted by the     *)
(* first that needs one.  INSERT ... ON CONFLICT DO NOTHING goes through   *)
(* its rows in the order Naver has returned them; where it meets a row     *)
(* that another transaction has not committed it waits for its end, so two *)
(* collections may wait for each other, and PostgreSQL aborts one.         *)
(*                                                                         *)
(* One task runs per request.  It dies with its process, and its exceptions*)
(* end in the status FAILED, unless that update fails as well.             *)
(***************************************************************************)
EXTENDS Naturals, Sequences, FiniteSets

CONSTANTS
  RequestIds, Keywords,
  MaxSeeds,      (* seeds of an extraction that finds the problem: 6        *)
  MaxAttempts    (* range(3) of fetch_keywords                              *)

ASSUME CollectionConstants ==
  /\ IsFiniteSet(Keywords)
  /\ MaxSeeds \in Nat \ {0} /\ MaxAttempts \in Nat \ {0}

VARIABLES
  (* committed rows *)
  request,      (* analysis_requests: keyword_collection_status, or GONE     *)
  keywords,     (* keywords                                                  *)
  metrics,      (* keyword_metrics: request and keyword                      *)
  (* the task of a request *)
  pc,
  seeds,        (* seeds still to fetch                                      *)
  attempt,      (* tries for the present seed                                *)
  returned,     (* what Naver has returned: row_by_keyword in its order      *)
  missing,      (* the keywords the INSERT has still to do                   *)
  inserted,     (* rows it has inserted and not committed                    *)
  view          (* get_naver_keywords: what it reads of a COMPLETED request  *)

task == <<seeds, attempt, returned, missing, inserted>>
vars == <<request, keywords, metrics, pc, task, view>>

Statuses == {"PENDING", "COLLECTING", "COMPLETED", "FAILED"}
Active   == {"start", "extract", "fetch", "select", "insert", "save",
             "complete", "fail"}

Lists(S) == {s \in UNION {[1 .. n -> S] : n \in 0 .. Cardinality(S)} :
               \A i, j \in DOMAIN s : s[i] = s[j] => i = j}
Elements(s) == {s[i] : i \in DOMAIN s}

TypeOK ==
  /\ request \in [RequestIds -> Statuses \cup {"NONE", "GONE"}]
  /\ keywords \subseteq Keywords
  /\ metrics \subseteq RequestIds \X Keywords
  /\ pc \in [RequestIds -> Active \cup {"none", "done", "dead"}]
  /\ seeds \in [RequestIds -> 0 .. MaxSeeds]
  /\ attempt \in [RequestIds -> 0 .. MaxAttempts - 1]
  /\ returned \in [RequestIds -> Lists(Keywords)]
  /\ missing \in [RequestIds -> SUBSET Keywords]
  /\ inserted \in [RequestIds -> SUBSET Keywords]
  /\ view \in [RequestIds -> [at: {"none", "status", "answered"},
                              rows: SUBSET Keywords]]

Init ==
  /\ request = [r \in RequestIds |-> "NONE"]
  /\ keywords = {} /\ metrics = {}
  /\ pc = [r \in RequestIds |-> "none"]
  /\ seeds = [r \in RequestIds |-> 0]
  /\ attempt = [r \in RequestIds |-> 0]
  /\ returned = [r \in RequestIds |-> <<>>]
  /\ missing = [r \in RequestIds |-> {}]
  /\ inserted = [r \in RequestIds |-> {}]
  /\ view = [r \in RequestIds |->
               [at |-> "none", rows |-> {}]]

-----------------------------------------------------------------------------
(* Helpers *)

Exists(r) == request[r] \in Statuses

Goto(r, from, to) == pc[r] = from /\ pc' = [pc EXCEPT ![r] = to]

(* The transaction is rolled back, and what was collected but not saved is
   forgotten. *)
Drop(r, to) ==
  /\ pc' = [pc EXCEPT ![r] = to]
  /\ seeds' = [seeds EXCEPT ![r] = 0]
  /\ attempt' = [attempt EXCEPT ![r] = 0]
  /\ returned' = [returned EXCEPT
       ![r] = IF pc[r] \in {"complete", "fail"} THEN @ ELSE <<>>]
  /\ inserted' = [inserted EXCEPT ![r] = {}]
  /\ missing' = [missing EXCEPT ![r] = {}]
  /\ UNCHANGED <<request, keywords, metrics, view>>

(* An exception: the handler comes next. *)
Raise(r, from) == pc[r] \in from /\ Drop(r, "fail")

(* update_keyword_collection_status; of a missing row it does nothing *)
SetStatus(r, status) ==
  request' = IF Exists(r) THEN [request EXCEPT ![r] = status] ELSE request

(* The INSERT of r is at k: the first returned of those still missing. *)
IsAt(r, k) ==
  \E i \in DOMAIN returned[r] :
    /\ returned[r][i] = k /\ k \in missing[r]
    /\ \A j \in DOMAIN returned[r] : j < i => returned[r][j] \notin missing[r]

(* s is the transaction that has inserted the keyword the INSERT of r is at. *)
Blocks(s, r) ==
  /\ pc[r] = "insert" /\ s # r
  /\ \E k \in inserted[s] : IsAt(r, k)

(* mutant: nobody looks for deadlocks *)
DeadlockedNever(r) == FALSE

(* r waits in a cycle *)
Deadlocked(r) ==
  \E S \in SUBSET RequestIds :
    /\ r \in S
    /\ \A s \in S : (\E t \in S : Blocks(t, s)) /\ (\E t \in S : Blocks(s, t))

-----------------------------------------------------------------------------
(* The request and its task *)

Create(r) ==
  /\ request[r] = "NONE"
  /\ request' = [request EXCEPT ![r] = "PENDING"]
  /\ Goto(r, "none", "start")
  /\ UNCHANGED <<keywords, metrics, task, view>>

SetCollecting(r) ==
  /\ Goto(r, "start", "extract")
  /\ SetStatus(r, "COLLECTING")
  /\ UNCHANGED <<keywords, metrics, task, view>>

(* _extract and build_seeds: without a problem there is one seed, the name *)
Extract(r) ==
  /\ Goto(r, "extract", "fetch")
  /\ \E n \in {1, MaxSeeds} : seeds' = [seeds EXCEPT ![r] = n]
  /\ UNCHANGED <<request, keywords, metrics, attempt, returned, missing,
                 inserted, view>>

(* fetch_keywords of the next seed *)
FetchAnswers(r) ==
  /\ seeds[r] > 0
  /\ Goto(r, "fetch", IF seeds[r] = 1 THEN "select" ELSE "fetch")
  /\ \E new \in Lists(Keywords \ Elements(returned[r])) :
       returned' = [returned EXCEPT ![r] = @ \o new]
  /\ seeds' = [seeds EXCEPT ![r] = @ - 1]
  /\ attempt' = [attempt EXCEPT ![r] = 0]
  /\ UNCHANGED <<request, keywords, metrics, missing, inserted, view>>

(* 429: once more, after the delay *)
FetchLimited(r) ==
  /\ pc[r] = "fetch" /\ attempt[r] < MaxAttempts - 1
  /\ attempt' = [attempt EXCEPT ![r] = @ + 1]
  /\ UNCHANGED <<request, keywords, metrics, pc, seeds, returned, missing,
                 inserted, view>>

(* 429 at the last attempt, or any other failure at any *)
FetchFails(r) == Raise(r, {"fetch"})

(* add_metrics: which of the keywords are there already? *)
SelectKeywords(r) ==
  LET absent == Elements(returned[r]) \ keywords
  IN  /\ Goto(r, "select", IF absent = {} THEN "save" ELSE "insert")
      /\ missing' = [missing EXCEPT ![r] = absent]
      /\ UNCHANGED <<request, keywords, metrics, seeds, attempt, returned,
                     inserted, view>>

(* mutant: an INSERT that skips what another has inserted without waiting *)
MayInsertSkipping(r, k) == TRUE

MayInsert(r, k) == \A s \in RequestIds \ {r} : k \notin inserted[s]

(* One row of the INSERT; a row that is there is left alone.  After the last
   one all of them are read again. *)
InsertNext(r) ==
  /\ pc[r] = "insert"
  /\ \E k \in missing[r] :
       LET there == k \in keywords \cup UNION {inserted[s] : s \in RequestIds}
       IN  /\ IsAt(r, k) /\ MayInsert(r, k)
           /\ inserted' = [inserted EXCEPT
                ![r] = IF there THEN @ ELSE @ \cup {k}]
           /\ missing' = [missing EXCEPT ![r] = @ \ {k}]
           /\ pc' = [pc EXCEPT ![r] = IF missing[r] = {k} THEN "save" ELSE @]
  /\ UNCHANGED <<request, keywords, metrics, seeds, attempt, returned, view>>

InsertAborted(r) ==
  /\ Deadlocked(r)
  /\ Raise(r, {"insert"})

(* mutant: metrics only of the keywords that were new *)
MetricRowsOfNew(r) == {r} \X inserted[r]

MetricRows(r) == {r} \X Elements(returned[r])

(* The metrics of all keywords, and the commit. *)
Save(r) ==
  /\ Exists(r)
  /\ Goto(r, "save", "complete")
  /\ keywords' = keywords \cup inserted[r]
  /\ metrics' = metrics \cup MetricRows(r)
  /\ inserted' = [inserted EXCEPT ![r] = {}]
  /\ UNCHANGED <<request, seeds, attempt, returned, missing, view>>

(* The request is gone: the foreign key refuses the metrics. *)
SaveRefused(r) ==
  /\ ~Exists(r)
  /\ Raise(r, {"save"})

SetCompleted(r) ==
  /\ Goto(r, "complete", "done")
  /\ SetStatus(r, "COMPLETED")
  /\ UNCHANGED <<keywords, metrics, task, view>>

SetFailed(r) ==
  /\ Goto(r, "fail", "done")
  /\ SetStatus(r, "FAILED")
  /\ UNCHANGED <<keywords, metrics, task, view>>

-----------------------------------------------------------------------------
(* Faults, deletion, and the reader *)

(* The database or the language model raises. *)
Error(r) == Raise(r, {"start", "extract", "select", "insert", "save",
                      "complete"})

(* The update to FAILED raises too, and is only logged. *)
FailedIsLost(r) ==
  /\ Goto(r, "fail", "dead")
  /\ UNCHANGED <<request, keywords, metrics, task, view>>

(* The process of the task ends. *)
Stop(r) == pc[r] \in Active /\ Drop(r, "dead")

(* The account is deleted, its requests and their metrics with it. *)
Delete(r) ==
  /\ Exists(r)
  /\ request' = [request EXCEPT ![r] = "GONE"]
  /\ metrics' = {m \in metrics : m[1] # r}
  /\ UNCHANGED <<keywords, pc, task, view>>

(* find_metrics of keyword_repository.py *)
FindMetrics(r) == {k \in Keywords : <<r, k>> \in metrics}

(* get_naver_keywords reads the request, then its metrics.  An answer with
   another status than COMPLETED promises nothing and is left out. *)
ReadRequest(r) ==
  /\ request[r] = "COMPLETED" /\ view[r].at = "none"
  /\ view' = [view EXCEPT ![r].at = "status"]
  /\ UNCHANGED <<request, keywords, metrics, pc, task>>

ReadMetrics(r) ==
  /\ view[r].at = "status"
  /\ view' = [view EXCEPT ![r] =
                 [at |-> "answered", rows |-> FindMetrics(r)]]
  /\ UNCHANGED <<request, keywords, metrics, pc, task>>

-----------------------------------------------------------------------------

Work(r) ==
  \/ SetCollecting(r) \/ Extract(r)
  \/ FetchAnswers(r) \/ FetchLimited(r) \/ FetchFails(r)
  \/ SelectKeywords(r) \/ InsertNext(r) \/ InsertAborted(r)
  \/ Save(r) \/ SaveRefused(r) \/ SetCompleted(r) \/ SetFailed(r)

Next ==
  \E r \in RequestIds :
    \/ Create(r) \/ Work(r)
    \/ Error(r) \/ FailedIsLost(r) \/ Stop(r) \/ Delete(r)
    \/ ReadRequest(r) \/ ReadMetrics(r)

Spec == Init /\ [][Next]_vars

(* A task whose process lives goes on; a call to Naver ends, by its timeout
   if not by an answer. *)
FairSpec == Spec /\ \A r \in RequestIds : WF_vars(Work(r))

-----------------------------------------------------------------------------
(* Properties *)

(* The second SELECT finds every keyword that the first has missed, inserted
   by this transaction or by the one it has waited for: add_metrics looks
   each of them up without asking whether it is there. *)
EveryKeywordFound ==
  \A r \in RequestIds : pc[r] = "save" =>
    Elements(returned[r]) \subseteq keywords \cup inserted[r]

(* The metrics of a request are all there or none is, whoever failed, was
   aborted or stopped; COMPLETED means all, and metrics have their request
   and their keyword. *)
MetricsAllOrNone ==
  /\ \A r \in RequestIds :
       LET rows == {m \in metrics : m[1] = r}
       IN  /\ rows \in {{}, {r} \X Elements(returned[r])}
           /\ request[r] = "COMPLETED" => rows = {r} \X Elements(returned[r])
           /\ rows # {} => Exists(r)
  /\ \A m \in metrics : m[2] \in keywords

(* A client that is told COMPLETED is given every keyword, although status
   and keywords are read one after the other, unless the request was deleted
   in between. *)
CompletedAnswerIsWhole ==
  \A r \in RequestIds :
    view[r].at = "answered" =>
      view[r].rows = Elements(returned[r]) \/ request[r] = "GONE"

(* The parts about metrics together. *)
MetricsConsistent == TypeOK /\ MetricsAllOrNone /\ CompletedAnswerIsWhole

(* A collection that was begun ends in COMPLETED or FAILED, even if it was
   in a deadlock, unless its process, its last update or the request is
   lost. *)
CollectionEnds ==
  \A r \in RequestIds :
    request[r] = "PENDING" ~>
      request[r] \in {"COMPLETED", "FAILED", "GONE"} \/ pc[r] = "dead"
=============================================================================
