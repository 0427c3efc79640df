-------------------------- MODULE AnalysisLifecycle --------------------------
(***************************************************************************)
(* The life of one analysis request: the interview (POST .../interview),   *)
(* the analysis that writes the report (started by the last answer or by   *)
(* POST .../analyze) and DELETE /reports, of interview_message_service.py, *)
(* analysis_report_service.py and their repositories.                      *)
(*                                                                         *)
(* Requests of different ids share no row, so one is enough.  Its calls    *)
(* overlap: nothing serialises two answers or two analyses but the unique  *)
(* index on analysis_reports.analysis_request_id and the row locks behind  *)
(* the foreign keys.  PostgreSQL runs at READ COMMITTED, so each statement *)
(* of a call sees what has been committed when it starts; the ORM however  *)
(* keeps the columns it has loaded until its session commits.              *)
(*                                                                         *)
(* A message carries the name of the call that saved it: its answer, or    *)
(* the next question it got from the model.                                *)
(***************************************************************************)
EXTENDS Integers, FiniteSets, FiniteSetsExt

CONSTANTS
  Calls,           (* numbers, in the order the calls come in              *)
  AnswersNeeded,   (* answers that complete the interview, 5 in the code   *)
  NoCall

ASSUME AnalysisConstants ==
  /\ AnswersNeeded \in Nat \ {0}
  /\ Calls \subseteq Nat /\ IsFiniteSet(Calls)
  /\ NoCall \notin Calls

VARIABLES
  legacy,      (* the request was left COMPLETED without a report by an
                  earlier release: start_analysis allows for that           *)
  (* committed rows *)
  request,     (* the analysis_requests row: NONE, OPEN, GONE               *)
  status,      (* analysis_requests.status                                  *)
  completed,   (* analysis_requests.interview_completed                     *)
  answerAt,    (* message_order of the answer of each call, 0: none         *)
  questionAt,  (* message_order of the question it has added, 0: none       *)
  report,      (* the call that wrote the analysis_reports row              *)
  runs,        (* the calls that wrote a retrieval_runs row                 *)
  (* rows inserted but not committed *)
  indexEntry,  (* the call whose report it is, in the unique index          *)
  staged,      (* the calls with a retrieval_runs row                       *)
  (* the calls *)
  pc,
  loaded,      (* the request's columns that the session of the call holds  *)
  order,       (* the message_order computed for the next message           *)
  read,        (* the answers the report is made from                       *)
  earlier,     (* the calls that had ended when this one began              *)
  answer

rows     == <<legacy, request, status, completed, answerAt, questionAt, report,
              runs>>
locks    == <<indexEntry, staged>>
work     == <<loaded, order, read>>
vars     == <<rows, locks, pc, earlier, work, answer>>

Kinds     == {"answer", "analyze", "delete"}
Answering == {"check", "order", "save", "count", "complete", "askOrder", "ask"}
Analysing == {"load", "find", "reset", "repair", "read", "audit", "insert",
              "commit"}
Deleting  == {"findOwned", "delete"}
Working   == Answering \cup Analysing \cup Deleting
Orders    == 0 .. 2 * Cardinality(Calls) + 1
Unloaded  == [status |-> "none", completed |-> FALSE]

TypeOK ==
  /\ legacy \in BOOLEAN
  /\ request \in {"NONE", "OPEN", "GONE"}
  /\ status \in {"INTERVIEWING", "COMPLETED"}
  /\ completed \in BOOLEAN
  /\ answerAt \in [Calls -> Orders] /\ questionAt \in [Calls -> Orders]
  /\ report \in Calls \cup {NoCall}
  /\ runs \subseteq Calls
  /\ indexEntry \in Calls \cup {NoCall}
  /\ staged \subseteq Calls
  /\ pc \in [Calls -> Working \cup {"idle", "done"}]
  /\ loaded \in [Calls -> [status : {"none", "INTERVIEWING", "COMPLETED"},
                           completed : BOOLEAN]]
  /\ order \in [Calls -> Orders]
  /\ read \in [Calls -> SUBSET Calls]
  /\ earlier \in [Calls -> SUBSET Calls]
  /\ answer \in [Calls -> {"none", "OK", "Refused", "NotFound", "Error"}]

Init ==
  /\ legacy \in BOOLEAN
  /\ request = IF legacy THEN "OPEN" ELSE "NONE"
  /\ status = IF legacy THEN "COMPLETED" ELSE "INTERVIEWING"
  /\ completed = legacy
  /\ answerAt = [c \in Calls |-> 0] /\ questionAt = [c \in Calls |-> 0]
  /\ report = NoCall
  /\ runs = {}
  /\ indexEntry = NoCall
  /\ staged = {}
  /\ pc = [c \in Calls |-> "idle"]
  /\ loaded = [c \in Calls |-> Unloaded]
  /\ order = [c \in Calls |-> 0]
  /\ read = [c \in Calls |-> {}]
  /\ earlier = [c \in Calls |-> {}]
  /\ answer = [c \in Calls |-> "none"]

-----------------------------------------------------------------------------
(* Helpers *)

Goto(c, from, to) == pc[c] = from /\ pc' = [pc EXCEPT ![c] = to]

Reply(c, a) == answer' = [answer EXCEPT ![c] = a]

(* A call that has ended keeps no session; what a report was made from stays
   known. *)
End(c, from, a) ==
  /\ Goto(c, from, "done")
  /\ Reply(c, a)
  /\ loaded' = [loaded EXCEPT ![c] = Unloaded]
  /\ order' = [order EXCEPT ![c] = 0]
  /\ read' = [read EXCEPT ![c] = IF from = "commit" THEN @ ELSE {}]

Exists == request = "OPEN"

(* mutant: a call that fails keeps its transaction open *)
ReleaseNothing(c) == UNCHANGED locks

(* The rollback or commit that ends the transaction of c *)
Release(c) ==
  /\ indexEntry' = IF indexEntry = c THEN NoCall ELSE indexEntry
  /\ staged' = staged \ {c}

(* An inserted row that refers to the request keeps it FOR KEY SHARE. *)
KeyShare == staged \cup ({indexEntry} \ {NoCall})

Answers == {c \in Calls : answerAt[c] # 0}

(* mutant: the answers are numbered without the questions *)
NextOrderOfAnswers == Max({answerAt[c] : c \in Calls} \cup {1}) + 1

(* find_max_message_order(...) or 0, plus one; the first question has 1. *)
NextOrder ==
  LET used == {answerAt[c] : c \in Calls} \cup {questionAt[c] : c \in Calls} IN
  Max(used \cup {1}) + 1

(* The columns a session gets when it reads the request again *)
Row == [status |-> status, completed |-> completed]

-----------------------------------------------------------------------------
(* create: the request and the first question.  They are two commits, but no
   client has the id before both are done. *)

Create ==
  /\ request = "NONE"
  /\ request' = "OPEN"
  /\ UNCHANGED <<legacy, status, completed, answerAt, questionAt, report, runs,
                 locks, pc, earlier, work, answer>>

(* A call comes in for the id of the request, which may be gone by then. *)
Begin(c, k) ==
  /\ request # "NONE"
  /\ \A d \in Calls : d < c => pc[d] # "idle"
  /\ Goto(c, "idle", CASE k = "answer" -> "check" [] k = "analyze" -> "load"
                       [] k = "delete" -> "findOwned")
  /\ earlier' = [earlier EXCEPT ![c] = {d \in Calls : pc[d] = "done"}]
  /\ UNCHANGED <<rows, locks, work, answer>>

(* get_owned_or_404, or session.get in start_analysis, finds no row. *)
NotFound(c) ==
  /\ ~Exists
  /\ \E from \in {"check", "load", "findOwned"} : End(c, from, "NotFound")
  /\ UNCHANGED <<rows, locks, earlier>>

-----------------------------------------------------------------------------
(* save_answer *)

Closed == status = "COMPLETED" \/ completed

Check(c) ==
  /\ Exists /\ ~Closed
  /\ Goto(c, "check", "order")
  /\ loaded' = [loaded EXCEPT ![c] = Row]
  /\ UNCHANGED <<rows, locks, earlier, order, read, answer>>

CheckRefuses(c) ==
  /\ Exists /\ Closed
  /\ End(c, "check", "Refused")
  /\ UNCHANGED <<rows, locks, earlier>>

(* The order of a message is read in one statement and used in the next: for
   the answer, and for the question once the model has given it. *)
ReadOrder(c) ==
  /\ Goto(c, "order", "save") \/ Goto(c, "askOrder", "ask")
  /\ order' = [order EXCEPT ![c] = NextOrder]
  /\ UNCHANGED <<rows, locks, earlier, loaded, read, answer>>

(* save_message commits, and the commit expires what the session has loaded:
   the request's columns are gone from the object until one is asked for. *)
SaveAnswer(c) ==
  /\ Exists
  /\ Goto(c, "save", "count")
  /\ answerAt' = [answerAt EXCEPT ![c] = order[c]]
  /\ loaded' = [loaded EXCEPT ![c] = Unloaded]
  /\ order' = [order EXCEPT ![c] = 0]
  /\ UNCHANGED <<legacy, request, status, completed, questionAt, report, runs,
                 locks, earlier, read, answer>>

(* mutant: only the answers of the other calls are counted *)
EnoughWithoutOwn(c) == Cardinality(Answers \ {c}) >= AnswersNeeded

Enough(c) == Cardinality(Answers) >= AnswersNeeded

(* Without enough answers, generate_next_question comes next. *)
Count(c) ==
  /\ Goto(c, "count", IF Enough(c) THEN "complete" ELSE "askOrder")
  /\ UNCHANGED <<rows, locks, earlier, work, answer>>

(* interview_completed is committed before the analysis begins. *)
Complete(c) ==
  /\ Exists
  /\ Goto(c, "complete", "load")
  /\ completed' = TRUE
  /\ UNCHANGED <<legacy, request, status, answerAt, questionAt, report, runs,
                 locks, earlier, work, answer>>

(* The status in the response is read from the row after the commit. *)
SaveQuestion(c) ==
  /\ Exists
  /\ \E a \in {"OK", "Error"} : End(c, "ask", a)
  /\ questionAt' = [questionAt EXCEPT ![c] = order[c]]
  /\ UNCHANGED <<legacy, request, status, completed, answerAt, report, runs,
                 locks, earlier>>

-----------------------------------------------------------------------------
(* start_analysis, in a session of its own *)

Load(c) ==
  /\ Exists
  /\ Goto(c, "load", "find")
  /\ loaded' = [loaded EXCEPT ![c] = Row]
  /\ UNCHANGED <<rows, locks, earlier, order, read, answer>>

(* mutant: an analysis of a completed interview is taken for a second one *)
NeedsResetIfCompleted(c) == loaded[c].completed

NeedsReset(c) == loaded[c].status = "COMPLETED"

Refusable(c) == loaded[c].status # "INTERVIEWING" /\ ~loaded[c].completed

(* find_report sees what is committed now; the status is the loaded one. *)
FindReport(c) ==
  /\ Goto(c, "find", "repair")
  /\ report # NoCall
  /\ UNCHANGED <<rows, locks, earlier, work, answer>>

FindNoReport(c) ==
  /\ Goto(c, "find", IF NeedsReset(c) THEN "reset" ELSE "read")
  /\ report = NoCall /\ ~Refusable(c)
  /\ UNCHANGED <<rows, locks, earlier, work, answer>>

FindRefuses(c) ==
  /\ End(c, "find", "Refused")
  /\ report = NoCall /\ Refusable(c)
  /\ UNCHANGED <<rows, locks, earlier>>

(* complete_analysis: no UPDATE is sent when the loaded status is already
   COMPLETED; the refresh after the commit may still fail. *)
Repair(c) ==
  /\ \E a \in {"OK", "Error"} : End(c, "repair", a)
  /\ Exists
  /\ status' = IF loaded[c].status = "COMPLETED" THEN status ELSE "COMPLETED"
  /\ UNCHANGED <<legacy, request, completed, answerAt, questionAt, report,
                 runs, locks, earlier>>

(* A completed request without a report goes back to INTERVIEWING; the commit
   writes what was true of the loaded row, whatever the row says by now. *)
Reset(c) ==
  /\ Goto(c, "reset", "read")
  /\ Exists
  /\ status' = "INTERVIEWING"
  /\ loaded' = [loaded EXCEPT ![c] = [Row EXCEPT !.status = "INTERVIEWING"]]
  /\ UNCHANGED <<legacy, request, completed, answerAt, questionAt, report,
                 runs, locks, earlier, order, read, answer>>

(* mutant: the messages are those from before the call saved its answer *)
TranscriptBefore(c) == Answers \ {c}

Transcript(c) == Answers

(* find_messages, the metrics and the retrieval; without evidence there is no
   audit.  (A statement that fails here aborts the transaction: see Fault.) *)
ReadMessages(c) ==
  /\ Goto(c, "read", "audit") \/ Goto(c, "read", "insert")
  /\ read' = [read EXCEPT ![c] = Transcript(c)]
  /\ UNCHANGED <<rows, locks, earlier, loaded, order, answer>>

(* record_retrieval only flushes: the row is this transaction's, which keeps
   the request row FOR KEY SHARE while the model writes the report. *)
Audit(c) ==
  /\ Goto(c, "audit", "insert")
  /\ Exists
  /\ staged' = staged \cup {c}
  /\ UNCHANGED <<rows, indexEntry, earlier, work, answer>>

(* mutant: nothing keeps a request from having two reports *)
NoReportYetAlways == TRUE

(* The unique index on analysis_reports.analysis_request_id *)
NoReportYet == report = NoCall

(* The flush of the report waits for an inserted report not yet committed. *)
Insert(c) ==
  /\ Goto(c, "insert", "commit")
  /\ Exists
  /\ indexEntry = NoCall /\ NoReportYet
  /\ indexEntry' = c
  /\ UNCHANGED <<rows, staged, earlier, work, answer>>

(* The flush of a second report fails, and the call with it. *)
InsertFails(c) ==
  /\ End(c, "insert", "Error")
  /\ indexEntry = NoCall /\ ~NoReportYet
  /\ Release(c)
  /\ UNCHANGED <<rows, earlier>>

(* attach_report, the citations and COMPLETED: one commit with the report and
   the run.  The refresh after it may fail. *)
CommitReport(c) ==
  /\ \E a \in {"OK", "Error"} : End(c, "commit", a)
  /\ report' = c
  /\ status' = "COMPLETED"
  /\ runs' = runs \cup (staged \cap {c})
  /\ Release(c)
  /\ UNCHANGED <<legacy, request, completed, answerAt, questionAt,
                 earlier>>

-----------------------------------------------------------------------------
(* delete_report, and the account deletion that takes the request along *)

FindOwned(c) ==
  /\ Goto(c, "findOwned", "delete")
  /\ Exists /\ report # NoCall
  /\ UNCHANGED <<rows, locks, earlier, work, answer>>

FindOwnedNothing(c) ==
  /\ End(c, "findOwned", "NotFound")
  /\ Exists /\ report = NoCall
  /\ UNCHANGED <<rows, locks, earlier>>

(* The cascades of the foreign keys to analysis_requests *)
Erase ==
  /\ request' = "GONE"
  /\ status' = "INTERVIEWING" /\ completed' = FALSE
  /\ answerAt' = [c \in Calls |-> 0] /\ questionAt' = [c \in Calls |-> 0]
  /\ report' = NoCall
  /\ runs' = {}
  /\ UNCHANGED legacy

(* The DELETE waits for the FOR KEY SHARE locks.  When another call has been
   faster it deletes no row, which the ORM takes for a success. *)
Delete(c) ==
  /\ End(c, "delete", "OK")
  /\ KeyShare = {}
  /\ IF Exists THEN Erase ELSE UNCHANGED rows
  /\ UNCHANGED <<locks, earlier>>

DeleteAccount ==
  /\ Exists /\ KeyShare = {}
  /\ Erase
  /\ UNCHANGED <<locks, pc, earlier, work, answer>>

-----------------------------------------------------------------------------
(* An exception or a crash: the transaction is rolled back and what the call
   has committed stays. *)
Fault(c) ==
  /\ \E from \in Working : End(c, from, "Error")
  /\ Release(c)
  /\ UNCHANGED <<rows, earlier>>

(* A missing row is such an exception: an UPDATE that matches nothing, an
   INSERT that its foreign key refuses. *)
RowMissing(c) ==
  /\ ~Exists
  /\ \E from \in {"save", "complete", "ask", "repair", "reset", "audit",
                   "insert"} : End(c, from, "Error")
  /\ Release(c)
  /\ UNCHANGED <<rows, earlier>>

Quiescent ==
  /\ \A c \in Calls : pc[c] = "done"
  /\ UNCHANGED vars

Step(c) ==
  \/ NotFound(c) \/ RowMissing(c)
  \/ /\ pc[c] \in Answering
     /\ \/ Check(c) \/ CheckRefuses(c) \/ ReadOrder(c) \/ SaveAnswer(c)
        \/ Count(c) \/ Complete(c) \/ SaveQuestion(c)
  \/ /\ pc[c] \in Analysing
     /\ \/ Load(c) \/ FindReport(c) \/ FindNoReport(c) \/ FindRefuses(c)
        \/ Repair(c) \/ Reset(c) \/ ReadMessages(c) \/ Audit(c)
        \/ Insert(c) \/ InsertFails(c) \/ CommitReport(c)
  \/ /\ pc[c] \in Deleting
     /\ \/ FindOwned(c) \/ FindOwnedNothing(c) \/ Delete(c)

Next ==
  \/ Create \/ DeleteAccount \/ Quiescent
  \/ \E c \in Calls : (\E k \in Kinds : Begin(c, k)) \/ Step(c) \/ Fault(c)

Spec == Init /\ [][Next]_vars

(* Some call runs on as long as one can: the model's API and the database
   answer or time out, and PostgreSQL grants a lock that stays free.  Nothing
   has to fail.  No call takes infinitely many steps, so this is enough. *)
Fairness == WF_vars(\E c \in Calls : pc[c] \in Working /\ Step(c))

FairSpec == Spec /\ Fairness

-----------------------------------------------------------------------------
(* Properties *)

(* "Retrieval audit/evidence, report JSONB, citations, and the COMPLETED status
   use ... one final commit": whichever calls of start_analysis overlap, fail
   or repeat, the request is COMPLETED exactly when its report is there, so
   that the list of reports (status COMPLETED joined with the report) shows
   every report.  Only a request that an earlier release has left COMPLETED
   may be without a report still. *)
CompletedIffReport ==
  request = "OPEN" /\ ~legacy => (status = "COMPLETED" <=> report # NoCall)

(* A report is final: a second analysis, begun before the first has committed
   or after it, never replaces the report a client may have read. *)
ReportIsFinal ==
  [][report # NoCall /\ request' = "OPEN" => report' = report]_vars

(* The audit trail has no run without a report, none of an analysis that
   failed or lost against another: a run is committed with its report. *)
AuditBelongsToReport == runs \subseteq {report}

(* The rows are consistent: the parts above together. *)
RowsConsistent == TypeOK /\ CompletedIffReport /\ AuditBelongsToReport

(* find_messages sorts by message_order, which nothing makes unique.  Still the
   answer of a call comes after both messages of every call that had ended when
   it began: only calls that overlap can tie or trade places. *)
OrderFollowsCalls ==
  \A c \in Calls : answerAt[c] # 0 =>
    \A d \in earlier[c] :
      answerAt[d] < answerAt[c] /\ questionAt[d] < answerAt[c]

(* The report is made from every answer that was saved by a call that ended
   before the analysing one began, and from that one's own. *)
ReportKnowsEarlierAnswers ==
  report # NoCall =>
    Answers \cap (earlier[report] \cup {report}) \subseteq read[report]

(* The interview closes: once so many answers have been acknowledged as the
   interview needs, it is completed.  Of answers that overlap, the last one
   saved counts them all, so they cannot each leave it to another. *)
LastAnswerCloses ==
  LET acknowledged == {c \in Answers : answer[c] = "OK"} IN
  Cardinality(acknowledged) >= AnswersNeeded => completed

(* A call that has come in ends: a report or a delete waiting for another
   analysis does not wait for ever, whatever fails in between. *)
EveryCallEnds == <>[](\A c \in Calls : pc[c] \notin Working)

(* The prompt for the next question tells the model about the service
   (interview_question_ai.py:118).  The context it gives is vars() of the
   request object, which holds the columns the session has loaded. *)
QuestionKnowsService ==
  \A c \in Calls : pc[c] = "askOrder" => loaded[c] # Unloaded
=============================================================================
