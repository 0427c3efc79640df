------------------------ MODULE AnalysisLifecycleProofs ------------------------
(***************************************************************************)
(* What holds of AnalysisLifecycle for every number of calls and every     *)
(* length of the interview.                                                *)
(*                                                                         *)
(* IInv is the inductive invariant.  Beside the properties it says how far *)
(* a call is when it has messages or none (CallInv); that a request that   *)
(* is gone has left nothing, and that one with uncommitted rows cannot go  *)
(* (RowInv); what a call that repairs, resets or commits relies on         *)
(* (StageInv); how the orders are bounded by the number of messages        *)
(* (OrderInv); that an order computed and not yet used is beyond the       *)
(* messages of the calls before (PendingInv); what a report in the making  *)
(* has read (ReadInv); and that the calls that were told to ask another    *)
(* question are fewer than the interview needs (AskInv).                   *)
(***************************************************************************)
EXTENDS AnalysisLifecycle, FiniteSetTheorems, WellFoundedInduction, TLAPS

(* How far a call is when it has an answer, a question, an order; before the
   request is created no call has begun. *)
CallInv ==
  /\ \A c \in Calls :
       /\ answerAt[c] # 0 => pc[c] \in {"count", "complete", "askOrder", "ask",
                                        "done"} \cup Analysing
       /\ questionAt[c] # 0 => pc[c] = "done"
       /\ pc[c] \in {"save", "ask"} => order[c] # 0
       /\ answer[c] # "none" => pc[c] = "done"
       /\ \A d \in earlier[c] : pc[d] = "done"
  /\ request = "NONE" =>
       /\ status = "INTERVIEWING" /\ ~legacy
       /\ \A c \in Calls : pc[c] = "idle" /\ loaded[c] = Unloaded

(* Only a request that is there has rows, and uncommitted ones keep it. *)
RowInv ==
  /\ request # "OPEN" =>
       /\ report = NoCall
       /\ \A c \in Calls : answerAt[c] = 0 /\ questionAt[c] = 0
  /\ KeyShare # {} => request = "OPEN"
  /\ report # NoCall => pc[report] = "done"

(* The transactions of an analysis *)
StageInv ==
  /\ \A c \in Calls :
       /\ pc[c] = "commit" <=> indexEntry = c
       /\ c \in staged => pc[c] \in {"insert", "commit"}
       /\ pc[c] = "repair" /\ Exists => report # NoCall
       /\ pc[c] = "reset" /\ Exists => legacy
       /\ loaded[c].status = "COMPLETED" /\ Exists /\ ~legacy =>
            report # NoCall
  /\ indexEntry # NoCall => report = NoCall

(* The orders of the messages, and their number *)
Questions == {c \in Calls : questionAt[c] # 0}
Messages  == Cardinality(Answers) + Cardinality(Questions)

OrderInv ==
  Exists => \A c \in Calls :
    /\ answerAt[c] <= Messages + 1 /\ questionAt[c] <= Messages + 1
    /\ pc[c] \in {"save", "ask"} => order[c] <= Messages + 2

(* The order of an answer that is about to be saved *)
PendingInv ==
  Exists => \A c \in Calls : pc[c] = "save" =>
    \A d \in earlier[c] : answerAt[d] < order[c] /\ questionAt[d] < order[c]

(* The answers an analysis has read *)
ReadInv ==
  \A c \in Calls : pc[c] \in {"audit", "insert", "commit"} =>
    Answers \cap (earlier[c] \cup {c}) \subseteq read[c]

(* Answers whose calls ask on, or have been acknowledged *)
Asking == {c \in Answers : pc[c] \in {"askOrder", "ask"} \/ answer[c] = "OK"}

AskInv ==
  /\ ~completed => Cardinality(Asking) < AnswersNeeded
  /\ \A c \in Answers : pc[c] \in Analysing => completed

(* The inductive invariant *)
IInv ==
  /\ RowsConsistent /\ OrderFollowsCalls /\ ReportKnowsEarlierAnswers
  /\ CallInv /\ RowInv /\ StageInv /\ OrderInv /\ PendingInv /\ ReadInv
  /\ AskInv

-----------------------------------------------------------------------------
(* The greatest element of a finite set of numbers *)

(* Of the sets of elements beyond one of S, the least belongs to the greatest
   element. *)
LEMMA FiniteMax ==
  ASSUME NEW S, S \subseteq Nat, IsFiniteSet(S), S # {}
  PROVE  Max(S) \in S /\ \A x \in S : x <= Max(S)
<1> DEFINE Beyond(x) == {y \in S : y > x}
           T == {Beyond(x) : x \in S}
           R == StrictSubsetOrdering(S)
<1>1. IsWellFoundedOn(R, SUBSET S)
  BY FS_StrictSubsetOrderingWellFounded, FS_FiniteSubsetsOfFinite
<1>2. T \subseteq SUBSET S /\ T # {}
  OBVIOUS
<1> HIDE DEF R, T
<1>3. PICK B \in T : \A C \in T : ~(<<C, B>> \in R)
  BY <1>1, <1>2, WFMin
<1>4. PICK x \in S : B = Beyond(x)
  BY <1>3 DEF T
<1>5. ASSUME NEW y \in S, y > x
      PROVE  FALSE
  <2>1. Beyond(y) \in T /\ Beyond(y) \in SUBSET S /\ B \in SUBSET S
    BY <1>4 DEF T
  <2>2. y \in B /\ y \notin Beyond(y)
    BY <1>4, <1>5
  <2>3. Beyond(y) \subseteq B
    <3> SUFFICES ASSUME NEW z \in S, z > y PROVE z > x
      BY <1>4
    <3>1. x \in Nat /\ y \in Nat /\ z \in Nat
      OBVIOUS
    <3> QED  BY <1>5, <3>1
  <2>4. <<Beyond(y), B>> \in R
    BY <2>1, <2>2, <2>3 DEF R, StrictSubsetOrdering
  <2> QED  BY <1>3, <2>1, <2>4
<1>6. \A y \in S : x >= y
  BY <1>5
<1>7. Max(S) \in S /\ \A y \in S : Max(S) >= y
  BY <1>6 DEF Max
<1> QED  BY <1>7

(* The next order is beyond every message, and one beyond one of them. *)
LEMMA NextOrderFacts ==
  ASSUME TypeOK
  PROVE  /\ NextOrder \in Nat /\ NextOrder > 1
         /\ \A c \in Calls :
              answerAt[c] < NextOrder /\ questionAt[c] < NextOrder
         /\ \/ NextOrder = 2
            \/ \E c \in Calls : \/ NextOrder = answerAt[c] + 1
                                \/ NextOrder = questionAt[c] + 1
<1> DEFINE used ==
             {answerAt[c] : c \in Calls} \cup {questionAt[c] : c \in Calls}
           S == used \cup {1}
           N == 2 * Cardinality(Calls) + 1
<1>1. N \in Nat /\ N >= 1
  BY AnalysisConstants, FS_CardinalityType
<1>2. S \subseteq 0 .. N /\ S # {} /\ 1 \in S
  BY <1>1 DEF TypeOK, Orders
<1>3. NextOrder = Max(S) + 1
  BY DEF NextOrder
<1>4. \A c \in Calls : answerAt[c] \in S /\ questionAt[c] \in S
  OBVIOUS
<1>5. \A x \in S :
        x = 1 \/ \E c \in Calls : x = answerAt[c] \/ x = questionAt[c]
  OBVIOUS
<1> HIDE DEF S, N
<1>6. S \subseteq Nat /\ IsFiniteSet(S)
  <2>1. IsFiniteSet(0 .. N)
    BY <1>1, FS_Interval
  <2>2. IsFiniteSet(S)
    BY <1>2, <2>1, FS_Subset
  <2> QED  BY <1>2, <2>2
<1>7. Max(S) \in S /\ \A x \in S : x <= Max(S)
  BY <1>2, <1>6, FiniteMax
<1>8. Max(S) \in Nat
  BY <1>6, <1>7
<1>9. Max(S) >= 1 /\ \A c \in Calls :
        answerAt[c] <= Max(S) /\ questionAt[c] <= Max(S)
  BY <1>2, <1>4, <1>7
<1>10. \A c \in Calls : answerAt[c] \in Nat /\ questionAt[c] \in Nat
  BY <1>4, <1>6
<1> HIDE DEF used
<1> QED  BY <1>3, <1>5, <1>7, <1>8, <1>9, <1>10

-----------------------------------------------------------------------------
(* The steps *)

Act(c) == (\E k \in Kinds : Begin(c, k)) \/ Step(c) \/ Fault(c)

LEMMA NextSplit ==
  ASSUME [Next]_vars
  PROVE  Create \/ DeleteAccount \/ (\E c \in Calls : Act(c)) \/ UNCHANGED vars
  BY DEF Next, Act, Quiescent

(* The three entrances *)
LEMMA Entrances ==
  ASSUME NEW c \in Calls, NEW k \in Kinds, Begin(c, k)
  PROVE  \E to \in {"check", "load", "findOwned"} : Goto(c, "idle", to)
<1>1. CASE k = "answer"
  <2>1. Goto(c, "idle", "check")
    BY <1>1, Zenon DEF Begin
  <2> QED  BY <2>1
<1>2. CASE k = "analyze"
  <2>1. Goto(c, "idle", "load")
    BY <1>2, Zenon DEF Begin
  <2> QED  BY <2>1
<1>3. CASE k = "delete"
  <2>1. Goto(c, "idle", "findOwned")
    BY <1>3, Zenon DEF Begin
  <2> QED  BY <2>1
<1> QED  BY <1>1, <1>2, <1>3 DEF Kinds

(* A step is a step of one call: the others stay where they are. *)
LEMMA OthersStay ==
  ASSUME TypeOK, NEW c \in Calls, Act(c), NEW d \in Calls, d # c
  PROVE  /\ pc'[d] = pc[d] /\ loaded'[d] = loaded[d] /\ order'[d] = order[d]
         /\ read'[d] = read[d] /\ earlier'[d] = earlier[d]
         /\ answer'[d] = answer[d]
  BY DEF TypeOK, Act, Begin, Step, NotFound, RowMissing, Check, CheckRefuses,
     ReadOrder, SaveAnswer, Count, Complete, SaveQuestion, Load, FindReport,
     FindNoReport, FindRefuses, Repair, Reset, ReadMessages, Audit, Insert,
     InsertFails, CommitReport, FindOwned, FindOwnedNothing, Delete, Fault,
     Goto, End, Reply, work

(* How a call goes on: it stays idle or ends once, and keeps the calls it knew
   to have ended. *)
LEMMA Onward ==
  ASSUME TypeOK, CallInv, NEW c \in Calls, Act(c)
  PROVE  /\ request # "NONE" /\ pc[c] # "done" /\ pc'[c] # "idle"
         /\ answer[c] = "none" /\ questionAt[c] = 0
         /\ pc[c] # "idle" => earlier'[c] = earlier[c]
         /\ pc[c] = "idle" => earlier'[c] = {d \in Calls : pc[d] = "done"}
<1>1. CASE \E k \in Kinds : Begin(c, k)
  BY <1>1 DEF TypeOK, CallInv, Begin, Goto, Kinds, work
<1>2. CASE Fault(c)
  BY <1>2 DEF TypeOK, CallInv, Fault, End, Goto, Reply, Working, Answering,
     Analysing, Deleting
<1>3. CASE Step(c)
  <2>1. pc[c] \in Working
    BY <1>3 DEF Step, NotFound, RowMissing, End, Goto, Working, Answering,
       Analysing, Deleting
  <2>2. pc'[c] # "idle" /\ earlier' = earlier
    BY <1>3 DEF TypeOK, Step, NotFound, RowMissing, Check, CheckRefuses,
       ReadOrder, SaveAnswer, Count, Complete, SaveQuestion, Load, FindReport,
       FindNoReport, FindRefuses, Repair, Reset, ReadMessages, Audit, Insert,
       InsertFails, CommitReport, FindOwned, FindOwnedNothing, Delete, Goto,
       End
  <2> QED
    BY <2>1, <2>2 DEF CallInv, Working, Answering, Analysing, Deleting
<1> QED  BY <1>1, <1>2, <1>3 DEF Act

(* What a step does to the rows: a request and its messages change alone, and
   all of it goes at once. *)

Erases == Exists /\ KeyShare = {} /\ Erase

LEMMA RowsStep ==
  ASSUME NEW c \in Calls, Act(c)
  PROVE  \/ UNCHANGED rows
         \/ SaveAnswer(c) \/ Complete(c) \/ SaveQuestion(c) \/ Repair(c)
         \/ Reset(c) \/ CommitReport(c) \/ (Erases /\ Delete(c))
<1>1. CASE \E k \in Kinds : Begin(c, k)
  BY <1>1 DEF Begin
<1>2. CASE Fault(c)
  BY <1>2 DEF Fault
<1>3. CASE Step(c)
  BY <1>3 DEF Step, NotFound, RowMissing, Check, CheckRefuses, ReadOrder,
     Count, Load, FindReport, FindNoReport, FindRefuses, ReadMessages, Audit,
     Insert, InsertFails, FindOwned, FindOwnedNothing, Delete, Erases
<1> QED  BY <1>1, <1>2, <1>3 DEF Act

(* What a step does to the uncommitted rows *)
LEMMA LocksStep ==
  ASSUME NEW c \in Calls, Act(c)
  PROVE  \/ UNCHANGED locks /\ pc[c] \notin {"insert", "commit"}
         \/ Audit(c) \/ Insert(c)
         \/ /\ InsertFails(c) \/ CommitReport(c) \/ Fault(c) \/ RowMissing(c)
            /\ Release(c)
<1>1. CASE \E k \in Kinds : Begin(c, k)
  BY <1>1 DEF Begin, Goto
<1>2. CASE Fault(c)
  BY <1>2 DEF Fault
<1>3. CASE Step(c)
  BY <1>3 DEF Step, NotFound, RowMissing, Check, CheckRefuses, ReadOrder,
     SaveAnswer, Count, Complete, SaveQuestion, Load, FindReport, FindNoReport,
     FindRefuses, Repair, Reset, ReadMessages, InsertFails, CommitReport,
     FindOwned, FindOwnedNothing, Delete, Goto, End
<1> QED  BY <1>1, <1>2, <1>3 DEF Act

-----------------------------------------------------------------------------
(* Messages *)

LEMMA CallsFinite ==
  /\ IsFiniteSet(Calls) /\ Cardinality(Calls) \in Nat
  /\ \A c \in Calls : Cardinality(Calls) >= 1
<1>1. IsFiniteSet(Calls)  BY AnalysisConstants
<1>2. Cardinality(Calls) \in Nat /\ (Calls # {} => Cardinality(Calls) # 0)
  BY <1>1, FS_CardinalityType, FS_EmptySet
<1> QED  BY <1>1, <1>2

LEMMA MessagesCounted ==
  ASSUME TypeOK
  PROVE  /\ IsFiniteSet(Answers) /\ Cardinality(Answers) \in Nat
         /\ IsFiniteSet(Questions) /\ Cardinality(Questions) \in Nat
         /\ Messages \in Nat
         /\ \A c \in Calls : answerAt[c] = 0 \/ questionAt[c] = 0 =>
              Messages <= 2 * Cardinality(Calls) - 1
<1>1. Answers \in SUBSET Calls /\ Questions \in SUBSET Calls
  BY DEF Answers, Questions
<1>2. /\ IsFiniteSet(Answers) /\ Cardinality(Answers) <= Cardinality(Calls)
      /\ Cardinality(Answers) = Cardinality(Calls) => Answers = Calls
  BY <1>1, CallsFinite, FS_Subset
<1>3. /\ IsFiniteSet(Questions) /\ Cardinality(Questions) <= Cardinality(Calls)
      /\ Cardinality(Questions) = Cardinality(Calls) => Questions = Calls
  BY <1>1, CallsFinite, FS_Subset
<1>4. Cardinality(Answers) \in Nat /\ Cardinality(Questions) \in Nat
  BY <1>2, <1>3, FS_CardinalityType
<1>5. ASSUME NEW c \in Calls, answerAt[c] = 0 \/ questionAt[c] = 0
      PROVE  Messages <= 2 * Cardinality(Calls) - 1
  <2>1. Answers # Calls \/ Questions # Calls
    BY <1>5 DEF Answers, Questions
  <2> QED  BY <1>2, <1>3, <1>4, <2>1, CallsFinite DEF Messages
<1> QED  BY <1>2, <1>3, <1>4, <1>5 DEF Messages

(* A call that reads the next order may still use it. *)
LEMMA NextOrderFits ==
  ASSUME TypeOK, CallInv, RowInv, OrderInv,
         NEW c \in Calls, pc[c] \in {"order", "askOrder"}
  PROVE  /\ NextOrder \in Orders /\ NextOrder # 0
         /\ Exists => NextOrder <= Messages + 2
<1>1. questionAt[c] = 0
  BY DEF CallInv
<1>2. Messages \in Nat /\ Messages <= 2 * Cardinality(Calls) - 1
  BY <1>1, MessagesCounted
<1>3. Cardinality(Calls) \in Nat /\ Cardinality(Calls) >= 1
  BY CallsFinite
<1>4. CASE Exists
  <2>1. \A d \in Calls : /\ answerAt[d] <= Messages + 1
                         /\ questionAt[d] <= Messages + 1
                         /\ answerAt[d] \in Nat /\ questionAt[d] \in Nat
    BY <1>4 DEF OrderInv, TypeOK, Orders
  <2>2. NextOrder \in Nat /\ NextOrder > 1 /\ NextOrder <= Messages + 2
    BY <1>2, <2>1, NextOrderFacts
  <2> QED  BY <1>2, <1>3, <2>2 DEF Orders
<1>5. CASE ~Exists
  <2>1. \A d \in Calls : answerAt[d] = 0 /\ questionAt[d] = 0
    BY <1>5 DEF RowInv, Exists
  <2>2. NextOrder = 2
    BY <2>1, NextOrderFacts
  <2> QED  BY <1>3, <1>5, <2>2 DEF Orders
<1> QED  BY <1>4, <1>5

-----------------------------------------------------------------------------
(* Types *)

LEMMA RowType ==
  ASSUME TypeOK
  PROVE  /\ Row \in [status: {"none", "INTERVIEWING", "COMPLETED"},
                     completed: BOOLEAN]
         /\ [Row EXCEPT !.status = "INTERVIEWING"] \in
              [status: {"none", "INTERVIEWING", "COMPLETED"},
               completed: BOOLEAN]
         /\ Unloaded \in [status: {"none", "INTERVIEWING", "COMPLETED"},
                          completed: BOOLEAN]
<1>1. status \in {"none", "INTERVIEWING", "COMPLETED"} /\ completed \in BOOLEAN
  BY DEF TypeOK
<1>2. [status |-> status, completed |-> completed] \in
        [status: {"none", "INTERVIEWING", "COMPLETED"}, completed: BOOLEAN]
  BY <1>1, Zenon
<1>3. [status |-> "INTERVIEWING", completed |-> completed] \in
        [status: {"none", "INTERVIEWING", "COMPLETED"}, completed: BOOLEAN]
  BY <1>1, Zenon
<1>4. [status |-> "none", completed |-> FALSE] \in
        [status: {"none", "INTERVIEWING", "COMPLETED"}, completed: BOOLEAN]
  OBVIOUS
<1>5. [Row EXCEPT !.status = "INTERVIEWING"] =
        [status |-> "INTERVIEWING", completed |-> completed]
  BY DEF Row
<1> QED  BY <1>2, <1>3, <1>4, <1>5, Zenon DEF Row, Unloaded

(* What a session has loaded *)
LEMMA LoadedStep ==
  ASSUME NEW c \in Calls, Act(c)
  PROVE  \/ loaded' = loaded
         \/ loaded' = [loaded EXCEPT ![c] = Row]
         \/ loaded' =
              [loaded EXCEPT ![c] = [Row EXCEPT !.status = "INTERVIEWING"]]
         \/ loaded' = [loaded EXCEPT ![c] = Unloaded]
  BY DEF Act, Begin, Step, NotFound, RowMissing, Check, CheckRefuses,
     ReadOrder, SaveAnswer, Count, Complete, SaveQuestion, Load, FindReport,
     FindNoReport, FindRefuses, Repair, Reset, ReadMessages, Audit, Insert,
     InsertFails, CommitReport, FindOwned, FindOwnedNothing, Delete, Fault,
     End, work

LEMMA TypeStep ==
  ASSUME TypeOK, CallInv, RowInv, OrderInv, NEW c \in Calls, Act(c)
  PROVE  TypeOK'
<1>0. 0 \in Orders
  BY CallsFinite DEF Orders
<1>1. /\ legacy' \in BOOLEAN /\ request' \in {"NONE", "OPEN", "GONE"}
      /\ status' \in {"INTERVIEWING", "COMPLETED"} /\ completed' \in BOOLEAN
  BY RowsStep DEF TypeOK, rows, SaveAnswer, Complete, SaveQuestion, Repair,
     Reset, CommitReport, Erases, Erase
<1>2. /\ answerAt' \in [Calls -> Orders] /\ questionAt' \in [Calls -> Orders]
      /\ report' \in Calls \cup {NoCall} /\ runs' \subseteq Calls
  <2>1. CASE SaveAnswer(c) \/ SaveQuestion(c)
    <3>1. order[c] \in Orders
      BY DEF TypeOK
    <3>2. CASE SaveAnswer(c)
      BY <3>1, <3>2 DEF TypeOK, SaveAnswer
    <3>3. CASE SaveQuestion(c)
      BY <3>1, <3>3 DEF TypeOK, SaveQuestion
    <3> QED  BY <2>1, <3>2, <3>3
  <2>2. CASE Complete(c) \/ Repair(c) \/ Reset(c) \/ CommitReport(c)
    BY <2>2 DEF TypeOK, Complete, Repair, Reset, CommitReport
  <2>3. CASE Erases
    BY <1>0, <2>3 DEF TypeOK, Erases, Erase
  <2>4. CASE UNCHANGED rows
    BY <2>4 DEF TypeOK, rows
  <2> QED  BY <2>1, <2>2, <2>3, <2>4, RowsStep
<1>3. indexEntry' \in Calls \cup {NoCall} /\ staged' \subseteq Calls
  <2>1. CASE Audit(c)
    BY <2>1 DEF TypeOK, Audit
  <2>2. CASE Insert(c)
    BY <2>2 DEF TypeOK, Insert
  <2>3. CASE Release(c)
    BY <2>3 DEF TypeOK, Release
  <2>4. CASE UNCHANGED locks
    BY <2>4 DEF TypeOK, locks
  <2>5. Audit(c) \/ Insert(c) \/ Release(c) \/ UNCHANGED locks
    BY LocksStep
  <2> QED  BY <2>1, <2>2, <2>3, <2>4, <2>5
<1>4. pc' \in [Calls -> Working \cup {"idle", "done"}]
  <2>1. CASE \E k \in Kinds : Begin(c, k)
    <3>1. PICK to \in {"check", "load", "findOwned"} : Goto(c, "idle", to)
      BY <2>1, Entrances
    <3> QED
      BY <3>1 DEF TypeOK, Goto, Working, Answering, Analysing, Deleting
  <2>2. CASE Step(c) \/ Fault(c)
    BY <2>2 DEF TypeOK, Step, NotFound, RowMissing, Check, CheckRefuses,
       ReadOrder, SaveAnswer, Count, Complete, SaveQuestion, Load, FindReport,
       FindNoReport, FindRefuses, Repair, Reset, ReadMessages, Audit, Insert,
       InsertFails, CommitReport, FindOwned, FindOwnedNothing, Delete, Fault,
       Goto, End, Working, Answering, Analysing, Deleting
  <2> QED  BY <2>1, <2>2 DEF Act
<1>5. loaded' \in [Calls -> [status: {"none", "INTERVIEWING", "COMPLETED"},
                             completed: BOOLEAN]]
  <2>1. \/ loaded' = loaded
        \/ loaded' = [loaded EXCEPT ![c] = Row]
        \/ loaded' =
             [loaded EXCEPT ![c] = [Row EXCEPT !.status = "INTERVIEWING"]]
        \/ loaded' = [loaded EXCEPT ![c] = Unloaded]
    BY LoadedStep
  <2> DEFINE Columns == [status: {"none", "INTERVIEWING", "COMPLETED"},
                         completed: BOOLEAN]
  <2>2. /\ loaded \in [Calls -> Columns] /\ Row \in Columns
        /\ [Row EXCEPT !.status = "INTERVIEWING"] \in Columns
        /\ Unloaded \in Columns
    BY RowType DEF TypeOK
  <2> HIDE DEF Columns
  <2>3. loaded' \in [Calls -> Columns]
    BY <2>1, <2>2
  <2> QED  BY <2>3 DEF Columns
<1>6. order' \in [Calls -> Orders]
  <2>1. CASE ReadOrder(c)
    <3>1. NextOrder \in Orders
      BY <2>1, NextOrderFits DEF ReadOrder, Goto
    <3> QED  BY <2>1, <3>1 DEF ReadOrder, TypeOK
  <2>2. ReadOrder(c) \/ order' = order \/ order' = [order EXCEPT ![c] = 0]
    BY DEF Act, Begin, Step, NotFound, RowMissing, Check, CheckRefuses,
       SaveAnswer, Count, Complete, SaveQuestion, Load, FindReport,
       FindNoReport, FindRefuses, Repair, Reset, ReadMessages, Audit, Insert,
       InsertFails, CommitReport, FindOwned, FindOwnedNothing, Delete, Fault,
       End, work
  <2>3. order \in [Calls -> Orders]
    BY DEF TypeOK
  <2> QED  BY <1>0, <2>1, <2>2, <2>3
<1>7. read' \in [Calls -> SUBSET Calls]
  <2>1. \/ read' = read
        \/ read' = [read EXCEPT ![c] = Answers]
        \/ read' = [read EXCEPT ![c] = {}]
        \/ read' = [read EXCEPT ![c] = read[c]]
    BY DEF Act, Begin, Step, NotFound, RowMissing, Check, CheckRefuses,
       ReadOrder, SaveAnswer, Count, Complete, SaveQuestion, Load, FindReport,
       FindNoReport, FindRefuses, Repair, Reset, ReadMessages, Audit, Insert,
       InsertFails, CommitReport, FindOwned, FindOwnedNothing, Delete, Fault,
       End, Reply, work, Transcript
  <2>2. Answers \in SUBSET Calls /\ {} \in SUBSET Calls
    BY DEF Answers
  <2>3. read \in [Calls -> SUBSET Calls]
    BY DEF TypeOK
  <2> QED  BY <2>1, <2>2, <2>3
<1>9. earlier' \in [Calls -> SUBSET Calls]
  <2>1. \/ earlier' = earlier
        \/ earlier' = [earlier EXCEPT ![c] = {d \in Calls : pc[d] = "done"}]
    BY DEF Act, Begin, Step, NotFound, RowMissing, Check, CheckRefuses,
       ReadOrder, SaveAnswer, Count, Complete, SaveQuestion, Load, FindReport,
       FindNoReport, FindRefuses, Repair, Reset, ReadMessages, Audit, Insert,
       InsertFails, CommitReport, FindOwned, FindOwnedNothing, Delete, Fault
  <2>2. {d \in Calls : pc[d] = "done"} \in SUBSET Calls
    OBVIOUS
  <2>3. earlier \in [Calls -> SUBSET Calls]
    BY DEF TypeOK
  <2> QED  BY <2>1, <2>2, <2>3
<1>8. answer' \in [Calls -> {"none", "OK", "Refused", "NotFound", "Error"}]
  BY DEF TypeOK, Act, Begin, Step, NotFound, RowMissing, Check, CheckRefuses,
     ReadOrder, SaveAnswer, Count, Complete, SaveQuestion, Load, FindReport,
     FindNoReport, FindRefuses, Repair, Reset, ReadMessages, Audit, Insert,
     InsertFails, CommitReport, FindOwned, FindOwnedNothing, Delete, Fault,
     End, Reply
<1> QED  BY <1>1, <1>2, <1>3, <1>4, <1>5, <1>6, <1>7, <1>8, <1>9
     DEF TypeOK

-----------------------------------------------------------------------------
(* How a call goes on, and what happens to the rows on the way *)

(* A call that does not end has taken one of these steps. *)
LEMMA GoesOn ==
  ASSUME TypeOK, NEW c \in Calls, Act(c), pc'[c] # "done"
  PROVE  \/ \E to \in {"check", "load", "findOwned"} : Goto(c, "idle", to)
         \/ Check(c) \/ ReadOrder(c) \/ SaveAnswer(c) \/ Count(c) \/ Complete(c)
         \/ Load(c) \/ FindReport(c) \/ FindNoReport(c) \/ Reset(c)
         \/ ReadMessages(c) \/ Audit(c) \/ Insert(c) \/ FindOwned(c)
<1>1. CASE \E k \in Kinds : Begin(c, k)
  BY <1>1, Entrances
<1>2. CASE Fault(c)
  BY <1>2 DEF Fault, End, Goto, TypeOK
<1>3. CASE Step(c)
  BY <1>3 DEF TypeOK, Step, NotFound, RowMissing, CheckRefuses, SaveQuestion,
     FindRefuses, Repair, InsertFails, CommitReport, FindOwnedNothing, Delete,
     Goto, End
<1> QED  BY <1>1, <1>2, <1>3 DEF Act

(* An order in hand has just been read. *)
LEMMA ReadsOrder ==
  ASSUME TypeOK, NEW c \in Calls, Act(c), pc'[c] \in {"save", "ask"}
  PROVE  ReadOrder(c)
  BY GoesOn, ZenonT(60) DEF TypeOK, Check, SaveAnswer, Count, Complete, Load,
     FindReport, FindNoReport, Reset, ReadMessages, Audit, Insert, FindOwned,
     Goto

(* A report is committed by a call whose entry in the index it is. *)
LEMMA CommitFacts ==
  ASSUME TypeOK, RowInv, StageInv, NEW c \in Calls, CommitReport(c)
  PROVE  pc[c] = "commit" /\ indexEntry = c /\ Exists /\ report = NoCall
<1>1. pc[c] = "commit"
  BY DEF CommitReport, End, Goto
<1>2. indexEntry = c /\ c # NoCall
  BY <1>1, AnalysisConstants DEF StageInv
<1>3. KeyShare # {}
  BY <1>2 DEF KeyShare
<1> QED  BY <1>1, <1>2, <1>3 DEF RowInv, StageInv, Exists

(* The request stays what it is, or all of its rows are erased. *)
LEMMA RequestStep ==
  ASSUME TypeOK, RowInv, StageInv, NEW c \in Calls, Act(c)
  PROVE  /\ legacy' = legacy
         /\ ~Exists => UNCHANGED rows
         /\ \/ Erases
            \/ /\ request' = request
               /\ \A d \in Calls : /\ \/ answerAt'[d] = answerAt[d]
                                      \/ d = c /\ SaveAnswer(c)
                                   /\ \/ questionAt'[d] = questionAt[d]
                                      \/ d = c /\ SaveQuestion(c)
               /\ report' = report \/ CommitReport(c)
               /\ completed' = completed \/ Complete(c)
<1>1. CASE UNCHANGED rows
  BY <1>1 DEF rows
<1>2. CASE SaveAnswer(c)
  BY <1>2 DEF TypeOK, SaveAnswer, rows, Exists
<1>3. CASE SaveQuestion(c)
  BY <1>3 DEF TypeOK, SaveQuestion, rows, Exists
<1>4. CASE Complete(c) \/ Repair(c) \/ Reset(c)
  BY <1>4 DEF Complete, Repair, Reset, Exists
<1>5. CASE CommitReport(c)
  BY <1>5, CommitFacts DEF CommitReport
<1>6. CASE Erases
  BY <1>6 DEF Erases, Erase
<1> QED  BY <1>1, <1>2, <1>3, <1>4, <1>5, <1>6, RowsStep

LEMMA ErasesFacts ==
  ASSUME Erases
  PROVE  /\ Exists /\ KeyShare = {} /\ request' = "GONE" /\ ~Exists'
         /\ legacy' = legacy /\ status' = "INTERVIEWING" /\ report' = NoCall
         /\ runs' = {}
         /\ \A c \in Calls : answerAt'[c] = 0 /\ questionAt'[c] = 0
         /\ Answers' = {}
  BY DEF Erases, Erase, Exists, Answers

-----------------------------------------------------------------------------
(* Each invariant in turn *)

LEMMA CallStep ==
  ASSUME TypeOK, CallInv, RowInv, StageInv, OrderInv, NEW c \in Calls, Act(c)
  PROVE  CallInv'
<1>1. /\ request # "NONE" /\ pc[c] # "done" /\ pc'[c] # "idle"
      /\ answer[c] = "none" /\ questionAt[c] = 0
      /\ pc[c] # "idle" => earlier'[c] = earlier[c]
      /\ pc[c] = "idle" => earlier'[c] = {d \in Calls : pc[d] = "done"}
  BY Onward
<1>2. request' # "NONE"
  BY <1>1, RequestStep, ErasesFacts
<1>3. ASSUME NEW d \in Calls, d # c
      PROVE  /\ answerAt'[d] # 0 => pc'[d] \in {"count", "complete", "askOrder",
                                               "ask", "done"} \cup Analysing
             /\ questionAt'[d] # 0 => pc'[d] = "done"
             /\ pc'[d] \in {"save", "ask"} => order'[d] # 0
             /\ answer'[d] # "none" => pc'[d] = "done"
             /\ \A e \in earlier'[d] : pc'[e] = "done"
  <2>1. /\ pc'[d] = pc[d] /\ order'[d] = order[d] /\ earlier'[d] = earlier[d]
        /\ answer'[d] = answer[d]
    BY <1>3, OthersStay
  <2>2. /\ answerAt'[d] = answerAt[d] \/ answerAt'[d] = 0
        /\ questionAt'[d] = questionAt[d] \/ questionAt'[d] = 0
    BY <1>3, RequestStep, ErasesFacts
  <2>3. ASSUME NEW e \in earlier[d] PROVE pc'[e] = "done"
    <3>1. e \in Calls /\ pc[e] = "done"
      BY DEF TypeOK, CallInv
    <3> QED  BY <1>1, <3>1, OthersStay
  <2> QED  BY <2>1, <2>2, <2>3 DEF CallInv
<1>4. answerAt'[c] # 0 => pc'[c] \in {"count", "complete", "askOrder", "ask",
                                     "done"} \cup Analysing
  <2>1. CASE SaveAnswer(c)
    BY <2>1 DEF SaveAnswer, Goto, TypeOK
  <2>2. CASE ~SaveAnswer(c)
    <3>1. answerAt'[c] # 0 => answerAt[c] # 0
      BY <2>2, RequestStep, ErasesFacts
    <3>2. answerAt[c] # 0 => pc[c] \in {"count", "complete", "askOrder", "ask"}
                                       \cup Analysing
      BY <1>1 DEF CallInv
    <3>3. SUFFICES ASSUME pc'[c] # "done",
                          pc[c] \in {"count", "complete", "askOrder", "ask"}
                                    \cup Analysing
                   PROVE  pc'[c] \in {"count", "complete", "askOrder", "ask"}
                                     \cup Analysing
      BY <3>1, <3>2
    <3> QED
      BY <2>2, <3>3, GoesOn, ZenonT(60) DEF TypeOK, Check, ReadOrder, Count,
         Complete, Load, FindReport, FindNoReport, Reset, ReadMessages, Audit,
         Insert, FindOwned, Goto, Analysing
  <2> QED  BY <2>1, <2>2
<1>5. questionAt'[c] # 0 => pc'[c] = "done"
  <2>1. CASE SaveQuestion(c)
    BY <2>1 DEF SaveQuestion, End, Goto, TypeOK
  <2>2. CASE ~SaveQuestion(c)
    BY <1>1, <2>2, RequestStep, ErasesFacts
  <2> QED  BY <2>1, <2>2
<1>6. pc'[c] \in {"save", "ask"} => order'[c] # 0
  <2> SUFFICES ASSUME pc'[c] \in {"save", "ask"} PROVE order'[c] # 0
    OBVIOUS
  <2>1. ReadOrder(c)
    BY ReadsOrder
  <2>2. NextOrder # 0 /\ order'[c] = NextOrder
    BY <2>1, NextOrderFits DEF ReadOrder, Goto, TypeOK
  <2> QED  BY <2>2
<1>7. answer'[c] # "none" => pc'[c] = "done"
  <2> SUFFICES ASSUME pc'[c] # "done" PROVE answer' = answer
    BY <1>1
  <2>1. CASE \E k \in Kinds : Begin(c, k)
    BY <2>1 DEF Begin
  <2>2. CASE Fault(c)
    BY <2>2 DEF Fault, End, Goto, TypeOK
  <2>3. CASE Step(c)
    BY <2>3 DEF TypeOK, Step, NotFound, RowMissing, Check, CheckRefuses,
       ReadOrder, SaveAnswer, Count, Complete, SaveQuestion, Load, FindReport,
       FindNoReport, FindRefuses, Repair, Reset, ReadMessages, Audit, Insert,
       InsertFails, CommitReport, FindOwned, FindOwnedNothing, Delete, Goto,
       End, work
  <2> QED  BY <2>1, <2>2, <2>3 DEF Act
<1>8. \A e \in earlier'[c] : pc'[e] = "done"
  <2> TAKE e \in earlier'[c]
  <2>1. e \in Calls /\ pc[e] = "done"
    BY <1>1 DEF TypeOK, CallInv
  <2> QED  BY <1>1, <2>1, OthersStay
<1> QED
  <2>1. \A d \in Calls :
          /\ answerAt'[d] # 0 => pc'[d] \in {"count", "complete", "askOrder",
                                            "ask", "done"} \cup Analysing
          /\ questionAt'[d] # 0 => pc'[d] = "done"
          /\ pc'[d] \in {"save", "ask"} => order'[d] # 0
          /\ answer'[d] # "none" => pc'[d] = "done"
          /\ \A e \in earlier'[d] : pc'[e] = "done"
    BY <1>3, <1>4, <1>5, <1>6, <1>7, <1>8
  <2> QED  BY <1>2, <2>1 DEF CallInv, Analysing

LEMMA RowStep ==
  ASSUME TypeOK, CallInv, RowInv, StageInv, NEW c \in Calls, Act(c)
  PROVE  RowInv'
<1>1. pc[c] # "done"
  BY Onward
<1>2. /\ request' # "OPEN" =>
           /\ report' = NoCall
           /\ \A d \in Calls : answerAt'[d] = 0 /\ questionAt'[d] = 0
  <2>1. CASE Erases
    BY <2>1, ErasesFacts
  <2>2. CASE ~Erases /\ Exists
    BY <2>2, RequestStep DEF Exists
  <2>3. CASE ~Exists
    BY <2>3, RequestStep DEF rows, RowInv, Exists
  <2> QED  BY <2>1, <2>2, <2>3
<1>3. KeyShare' # {} => request' = "OPEN"
  <2>1. CASE UNCHANGED locks
    <3>1. KeyShare' = KeyShare
      BY <2>1 DEF KeyShare, locks
    <3> QED  BY <3>1, RequestStep, ErasesFacts DEF RowInv
  <2>2. CASE Audit(c) \/ Insert(c)
    BY <2>2 DEF Audit, Insert, rows, Exists
  <2>3. CASE /\ InsertFails(c) \/ CommitReport(c) \/ Fault(c) \/ RowMissing(c)
             /\ Release(c)
    <3>1. KeyShare' \subseteq KeyShare
      BY <2>3 DEF KeyShare, Release
    <3>2. request' = request
      BY <2>3 DEF InsertFails, CommitReport, Fault, RowMissing, rows
    <3> QED  BY <3>1, <3>2 DEF RowInv
  <2> QED  BY <2>1, <2>2, <2>3, LocksStep
<1>4. report' # NoCall => pc'[report'] = "done"
  <2>1. CASE CommitReport(c)
    BY <2>1 DEF CommitReport, End, Goto, TypeOK
  <2>2. CASE ~CommitReport(c) /\ report' # NoCall
    <3>1. report' = report /\ report \in Calls /\ pc[report] = "done"
      BY <2>2, RequestStep, ErasesFacts DEF TypeOK, RowInv
    <3> QED  BY <1>1, <3>1, OthersStay
  <2> QED  BY <2>1, <2>2
<1> QED  BY <1>2, <1>3, <1>4 DEF RowInv

LEMMA StageStep ==
  ASSUME TypeOK, CompletedIffReport, CallInv, RowInv, StageInv,
         NEW c \in Calls, Act(c)
  PROVE  StageInv'
<1>1. pc[c] # "done" /\ c # NoCall
  BY Onward, AnalysisConstants
<1>2. /\ Exists' => Exists /\ ~Erases
      /\ Exists' /\ report # NoCall => report' # NoCall
      /\ legacy' = legacy
  <2>1. CommitReport(c) => report' = c
    BY DEF CommitReport
  <2> QED  BY <1>1, <2>1, RequestStep, ErasesFacts DEF rows, Exists
<1>3. ASSUME NEW d \in Calls
      PROVE  pc'[d] = "commit" <=> indexEntry' = d
  <2>1. pc[d] = "commit" <=> indexEntry = d
    BY DEF StageInv
  <2>2. CASE d # c
    <3>1. pc'[d] = pc[d]
      BY <2>2, OthersStay
    <3>2. indexEntry' = d <=> indexEntry = d
      <4>1. CASE UNCHANGED locks
        BY <4>1 DEF locks
      <4>2. CASE Audit(c)
        BY <4>2 DEF Audit
      <4>3. CASE Insert(c)
        BY <2>2, <4>3, AnalysisConstants DEF Insert
      <4>4. CASE Release(c)
        BY <2>2, <4>4, AnalysisConstants DEF Release
      <4>5. UNCHANGED locks \/ Audit(c) \/ Insert(c) \/ Release(c)
        BY LocksStep
      <4> QED  BY <4>1, <4>2, <4>3, <4>4, <4>5
    <3> QED  BY <2>1, <3>1, <3>2
  <2>3. CASE d = c
    <3>1. pc'[c] = "commit" => Insert(c)
      BY GoesOn, ZenonT(60) DEF TypeOK, Check, ReadOrder, SaveAnswer, Count,
         Complete, Load, FindReport, FindNoReport, Reset, ReadMessages, Audit,
         FindOwned, Goto
    <3>2. Insert(c) => pc'[c] = "commit" /\ indexEntry' = c
      BY DEF Insert, Goto, TypeOK
    <3>3. ~Insert(c) => indexEntry' # c
      <4>1. CASE UNCHANGED locks /\ pc[c] \notin {"insert", "commit"}
        BY <2>1, <2>3, <4>1 DEF locks
      <4>2. CASE Audit(c)
        BY <2>1, <2>3, <4>2 DEF Audit, Goto
      <4>3. CASE Release(c)
        BY <1>1, <4>3 DEF Release
      <4>4. \/ UNCHANGED locks /\ pc[c] \notin {"insert", "commit"}
            \/ Audit(c) \/ Insert(c) \/ Release(c)
        BY LocksStep
      <4> QED  BY <4>1, <4>2, <4>3, <4>4
    <3> QED  BY <2>3, <3>1, <3>2, <3>3
  <2> QED  BY <2>2, <2>3
<1>4. ASSUME NEW d \in Calls, d \in staged'
      PROVE  pc'[d] \in {"insert", "commit"}
  <2>1. d \in staged => pc[d] \in {"insert", "commit"}
    BY DEF StageInv
  <2>2. CASE UNCHANGED locks /\ pc[c] \notin {"insert", "commit"}
    <3>1. d \in staged
      BY <1>4, <2>2 DEF locks
    <3> QED  BY <2>1, <2>2, <3>1, OthersStay
  <2>3. CASE Audit(c)
    <3>1. pc' = [pc EXCEPT ![c] = "insert"] /\ staged' = staged \cup {c}
      BY <2>3 DEF Audit, Goto
    <3> QED  BY <1>4, <2>1, <3>1 DEF TypeOK
  <2>4. CASE Insert(c)
    <3>1. pc' = [pc EXCEPT ![c] = "commit"] /\ staged' = staged
      BY <2>4 DEF Insert, Goto
    <3> QED  BY <1>4, <2>1, <3>1 DEF TypeOK
  <2>5. CASE Release(c)
    <3>1. d \in staged /\ d # c
      BY <1>4, <2>5 DEF Release
    <3> QED  BY <2>1, <3>1, OthersStay
  <2> QED  BY <2>2, <2>3, <2>4, <2>5, LocksStep
<1>5. ASSUME NEW d \in Calls, pc'[d] = "repair", Exists'
      PROVE  report' # NoCall
  <2>1. CASE d # c
    BY <1>2, <1>5, <2>1, OthersStay DEF StageInv
  <2>2. CASE d = c
    <3>1. FindReport(c)
      BY <1>5, <2>2, GoesOn, ZenonT(60) DEF TypeOK, Check, ReadOrder,
         SaveAnswer, Count, Complete, Load, FindNoReport, Reset, ReadMessages,
         Audit, Insert, FindOwned, Goto
    <3> QED  BY <1>2, <1>5, <3>1 DEF FindReport
  <2> QED  BY <2>1, <2>2
<1>6. ASSUME NEW d \in Calls, pc'[d] = "reset", Exists'
      PROVE  legacy'
  <2>1. CASE d # c
    BY <1>2, <1>6, <2>1, OthersStay DEF StageInv
  <2>2. CASE d = c
    <3>1. FindNoReport(c) /\ NeedsReset(c)
      BY <1>6, <2>2, GoesOn, ZenonT(60) DEF TypeOK, Check, ReadOrder,
         SaveAnswer, Count, Complete, Load, FindReport, FindNoReport, Reset,
         ReadMessages, Audit, Insert, FindOwned, Goto
    <3>2. loaded[c].status = "COMPLETED" /\ report = NoCall
      BY <3>1 DEF FindNoReport, NeedsReset
    <3> QED  BY <1>2, <1>6, <3>2 DEF StageInv
  <2> QED  BY <2>1, <2>2
<1>7. ASSUME NEW d \in Calls, loaded'[d].status = "COMPLETED", Exists', ~legacy'
      PROVE  report' # NoCall
  <2>1. CASE loaded'[d] = loaded[d]
    BY <1>2, <1>7, <2>1 DEF StageInv
  <2>2. CASE d = c /\ loaded' = [loaded EXCEPT ![c] = Row]
    <3>1. status = "COMPLETED"
      BY <1>7, <2>2 DEF TypeOK, Row
    <3>2. report # NoCall
      BY <1>2, <1>7, <3>1 DEF CompletedIffReport, Exists
    <3> QED  BY <1>2, <1>7, <3>2
  <2>3. CASE d = c /\ loaded' = [loaded EXCEPT ![c] =
                                   [Row EXCEPT !.status = "INTERVIEWING"]]
    BY <1>7, <2>3 DEF TypeOK, Row
  <2>4. CASE d = c /\ loaded' = [loaded EXCEPT ![c] = Unloaded]
    BY <1>7, <2>4 DEF TypeOK, Unloaded
  <2>5. \/ loaded' = loaded
        \/ loaded' = [loaded EXCEPT ![c] = Row]
        \/ loaded' =
             [loaded EXCEPT ![c] = [Row EXCEPT !.status = "INTERVIEWING"]]
        \/ loaded' = [loaded EXCEPT ![c] = Unloaded]
    BY LoadedStep
  <2> QED  BY <2>1, <2>2, <2>3, <2>4, <2>5, OthersStay
<1>8. indexEntry' # NoCall => report' = NoCall
  <2> SUFFICES ASSUME indexEntry' # NoCall, ~Erases PROVE report' = NoCall
    BY ErasesFacts
  <2>1. CASE CommitReport(c)
    BY <2>1, CommitFacts DEF CommitReport, Release
  <2>2. CASE Insert(c)
    BY <2>2 DEF Insert, NoReportYet, rows
  <2>3. CASE ~CommitReport(c) /\ ~Insert(c)
    <3>1. report' = report
      BY <2>3, RequestStep
    <3>2. indexEntry # NoCall
      BY <2>3, LocksStep DEF locks, Audit, Release
    <3> QED  BY <3>1, <3>2 DEF StageInv
  <2> QED  BY <2>1, <2>2, <2>3
<1> QED
  BY <1>3, <1>4, <1>5, <1>6, <1>7, <1>8 DEF StageInv

LEMMA RowsConsistentStep ==
  ASSUME RowsConsistent, CallInv, RowInv, StageInv, OrderInv,
         NEW c \in Calls, Act(c)
  PROVE  RowsConsistent'
<1>1. TypeOK /\ CompletedIffReport /\ AuditBelongsToReport /\ c # NoCall
  BY AnalysisConstants DEF RowsConsistent
<1>2. TypeOK'
  BY <1>1, TypeStep
<1>3. CompletedIffReport'
  <2> SUFFICES ASSUME request' = "OPEN", ~legacy'
               PROVE  status' = "COMPLETED" <=> report' # NoCall
    BY DEF CompletedIffReport
  <2>1. request = "OPEN" /\ ~legacy /\ ~Erases
    BY <1>1, RequestStep, ErasesFacts DEF rows, Exists
  <2>2. status = "COMPLETED" <=> report # NoCall
    BY <1>1, <2>1 DEF CompletedIffReport
  <2>3. CASE UNCHANGED rows
    BY <2>2, <2>3 DEF rows
  <2>4. CASE SaveAnswer(c) \/ SaveQuestion(c) \/ Complete(c)
    BY <2>2, <2>4 DEF SaveAnswer, SaveQuestion, Complete
  <2>5. CASE Repair(c)
    <3>1. report # NoCall
      BY <2>1, <2>5 DEF StageInv, Repair, End, Goto, Exists
    <3> QED  BY <2>2, <2>5, <3>1 DEF Repair
  <2>6. CASE Reset(c)
    BY <2>1, <2>6 DEF StageInv, Reset, Goto
  <2>7. CASE CommitReport(c)
    BY <1>1, <2>7 DEF CommitReport
  <2> QED  BY <2>1, <2>3, <2>4, <2>5, <2>6, <2>7, RowsStep
<1>4. AuditBelongsToReport'
  <2>1. CASE CommitReport(c)
    <3>1. report = NoCall /\ runs \subseteq {NoCall} /\ runs \subseteq Calls
      BY <1>1, <2>1, CommitFacts DEF AuditBelongsToReport, TypeOK
    <3>2. runs = {}
      BY <3>1, AnalysisConstants
    <3> QED  BY <2>1, <3>2 DEF CommitReport, AuditBelongsToReport
  <2>2. CASE Erases
    BY <2>2, ErasesFacts DEF AuditBelongsToReport
  <2>3. CASE ~CommitReport(c) /\ ~Erases
    <3>1. report' = report /\ runs' = runs
      BY <2>3, RowsStep DEF rows, SaveAnswer, SaveQuestion, Complete, Repair,
         Reset
    <3> QED  BY <1>1, <3>1 DEF AuditBelongsToReport
  <2> QED  BY <2>1, <2>2, <2>3
<1> QED  BY <1>2, <1>3, <1>4 DEF RowsConsistent

(* A message saved is one message more. *)
LEMMA MessagesStep ==
  ASSUME TypeOK, CallInv, RowInv, StageInv, NEW c \in Calls, Act(c), Exists'
  PROVE  /\ Messages' \in Nat /\ Messages' >= Messages
         /\ SaveAnswer(c) \/ SaveQuestion(c) => Messages' = Messages + 1
<1>1. /\ IsFiniteSet(Answers) /\ Cardinality(Answers) \in Nat
      /\ IsFiniteSet(Questions) /\ Cardinality(Questions) \in Nat
  BY MessagesCounted
<1>2. CASE SaveAnswer(c)
  <2>1. order[c] # 0 /\ c \notin Answers
    BY <1>2 DEF CallInv, SaveAnswer, Goto, Answers, Analysing
  <2>2. /\ answerAt' = [answerAt EXCEPT ![c] = order[c]]
        /\ questionAt' = questionAt
    BY <1>2 DEF SaveAnswer
  <2>3. Answers' = Answers \cup {c}
    BY <2>1, <2>2 DEF TypeOK, Answers
  <2>4. Questions' = Questions
    BY <2>2 DEF Questions
  <2>5. Cardinality(Answers \cup {c}) = Cardinality(Answers) + 1
    BY <1>1, <2>1, FS_AddElement
  <2>6. ~SaveQuestion(c)
    BY <1>2 DEF SaveAnswer, SaveQuestion, Goto, End
  <2> QED  BY <1>1, <2>3, <2>4, <2>5, <2>6 DEF Messages
<1>3. CASE SaveQuestion(c)
  <2>1. order[c] # 0 /\ c \notin Questions
    BY <1>3 DEF CallInv, SaveQuestion, End, Goto, Questions
  <2>2. /\ questionAt' = [questionAt EXCEPT ![c] = order[c]]
        /\ answerAt' = answerAt
    BY <1>3 DEF SaveQuestion
  <2>3. Questions' = Questions \cup {c}
    BY <2>1, <2>2 DEF TypeOK, Questions
  <2>4. Answers' = Answers
    BY <2>2 DEF Answers
  <2>5. Cardinality(Questions \cup {c}) = Cardinality(Questions) + 1
    BY <1>1, <2>1, FS_AddElement
  <2> QED  BY <1>1, <2>3, <2>4, <2>5 DEF Messages
<1>4. CASE ~SaveAnswer(c) /\ ~SaveQuestion(c)
  <2>1. \A d \in Calls : /\ answerAt'[d] = answerAt[d]
                         /\ questionAt'[d] = questionAt[d]
    BY <1>4, RequestStep, ErasesFacts
  <2>2. Answers' = Answers /\ Questions' = Questions
    BY <2>1 DEF Answers, Questions
  <2> QED  BY <1>1, <1>4, <2>2 DEF Messages
<1> QED  BY <1>2, <1>3, <1>4

LEMMA OrderStep ==
  ASSUME TypeOK, CallInv, RowInv, StageInv, OrderInv, NEW c \in Calls, Act(c)
  PROVE  OrderInv'
<1> SUFFICES ASSUME Exists', NEW d \in Calls
             PROVE  /\ answerAt'[d] <= Messages' + 1
                    /\ questionAt'[d] <= Messages' + 1
                    /\ pc'[d] \in {"save", "ask"} => order'[d] <= Messages' + 2
  BY DEF OrderInv
<1>1. Exists /\ ~Erases
  BY RequestStep, ErasesFacts DEF rows, Exists
<1>2. /\ answerAt[d] \in Nat /\ questionAt[d] \in Nat /\ order[d] \in Nat
      /\ order[c] \in Nat
  BY DEF TypeOK, Orders
<1>3. Messages \in Nat
  BY MessagesCounted
<1>4. /\ Messages' \in Nat /\ Messages' >= Messages
      /\ SaveAnswer(c) \/ SaveQuestion(c) => Messages' = Messages + 1
  BY MessagesStep
<1>5. /\ answerAt[d] <= Messages + 1 /\ questionAt[d] <= Messages + 1
      /\ pc[d] \in {"save", "ask"} => order[d] <= Messages + 2
      /\ pc[c] \in {"save", "ask"} => order[c] <= Messages + 2
  BY <1>1 DEF OrderInv
<1>6. answerAt'[d] <= Messages' + 1
  <2>1. CASE answerAt'[d] = answerAt[d]
    BY <1>2, <1>3, <1>4, <1>5, <2>1
  <2>2. CASE d = c /\ SaveAnswer(c)
    <3>1. pc[c] = "save" /\ answerAt'[c] = order[c]
      BY <2>2 DEF TypeOK, SaveAnswer, Goto
    <3> QED  BY <1>2, <1>3, <1>4, <1>5, <2>2, <3>1
  <2> QED  BY <1>1, <2>1, <2>2, RequestStep
<1>7. questionAt'[d] <= Messages' + 1
  <2>1. CASE questionAt'[d] = questionAt[d]
    BY <1>2, <1>3, <1>4, <1>5, <2>1
  <2>2. CASE d = c /\ SaveQuestion(c)
    <3>1. pc[c] = "ask" /\ questionAt'[c] = order[c]
      BY <2>2 DEF TypeOK, SaveQuestion, End, Goto
    <3> QED  BY <1>2, <1>3, <1>4, <1>5, <2>2, <3>1
  <2> QED  BY <1>1, <2>1, <2>2, RequestStep
<1>8. ASSUME pc'[d] \in {"save", "ask"}
      PROVE  order'[d] <= Messages' + 2
  <2>1. CASE d # c
    <3>1. pc'[d] = pc[d] /\ order'[d] = order[d]
      BY <2>1, OthersStay
    <3> QED  BY <1>2, <1>3, <1>4, <1>5, <1>8, <3>1
  <2>2. CASE d = c
    <3>1. ReadOrder(c)
      BY <1>8, <2>2, ReadsOrder
    <3>2. order'[d] = NextOrder
      BY <2>2, <3>1 DEF ReadOrder, TypeOK
    <3>3. NextOrder \in Nat /\ NextOrder <= Messages + 2
      BY <1>1, <3>1, NextOrderFacts, NextOrderFits DEF ReadOrder, Goto
    <3>4. Messages' \in Nat /\ Messages' >= Messages
      BY <1>4
    <3>5. order'[d] \in Nat /\ order'[d] <= Messages + 2
      BY <3>2, <3>3
    <3> QED  BY <1>3, <3>4, <3>5
  <2> QED  BY <2>1, <2>2
<1> QED  BY <1>6, <1>7, <1>8

(* The messages of a call that has ended stay as long as the request. *)
LEMMA EndedStays ==
  ASSUME TypeOK, CallInv, RowInv, StageInv, NEW c \in Calls, Act(c), ~Erases,
         NEW d \in Calls, pc[d] = "done"
  PROVE  d # c /\ answerAt'[d] = answerAt[d] /\ questionAt'[d] = questionAt[d]
<1>1. d # c
  BY Onward
<1> QED  BY <1>1, RequestStep

LEMMA PendingStep ==
  ASSUME TypeOK, CallInv, RowInv, StageInv, PendingInv,
         NEW c \in Calls, Act(c)
  PROVE  PendingInv'
<1> SUFFICES ASSUME Exists', NEW d \in Calls, pc'[d] = "save",
                    NEW e \in earlier'[d]
             PROVE  answerAt'[e] < order'[d] /\ questionAt'[e] < order'[d]
  BY DEF PendingInv
<1>1. Exists /\ ~Erases
  BY RequestStep, ErasesFacts DEF rows, Exists
<1>2. pc[d] # "idle"
  <2>1. CASE d = c
    BY <2>1, ReadsOrder DEF ReadOrder, Goto
  <2>2. CASE d # c
    BY <2>2, OthersStay
  <2> QED  BY <2>1, <2>2
<1>3. e \in earlier[d]
  BY <1>2, Onward, OthersStay
<1>4. e \in Calls /\ pc[e] = "done"
  BY <1>3 DEF TypeOK, CallInv
<1>5. answerAt'[e] = answerAt[e] /\ questionAt'[e] = questionAt[e]
  BY <1>1, <1>4, EndedStays
<1>6. CASE d # c
  <2>1. pc[d] = "save" /\ order'[d] = order[d]
    BY <1>6, OthersStay
  <2> QED  BY <1>1, <1>3, <1>5, <2>1 DEF PendingInv
<1>7. CASE d = c
  <2>1. order'[c] = NextOrder
    BY <1>7, ReadsOrder DEF ReadOrder, TypeOK
  <2> QED  BY <1>4, <1>5, <1>7, <2>1, NextOrderFacts
<1> QED  BY <1>6, <1>7

LEMMA OrderFollowsStep ==
  ASSUME TypeOK, CallInv, RowInv, StageInv, PendingInv, OrderFollowsCalls,
         NEW c \in Calls, Act(c)
  PROVE  OrderFollowsCalls'
<1> SUFFICES ASSUME NEW d \in Calls, answerAt'[d] # 0, NEW e \in earlier'[d]
             PROVE  answerAt'[e] < answerAt'[d] /\ questionAt'[e] < answerAt'[d]
  BY DEF OrderFollowsCalls
<1>1. ~Erases
  BY ErasesFacts
<1>2. \/ answerAt'[d] = answerAt[d]
      \/ d = c /\ SaveAnswer(c)
  BY <1>1, RequestStep
<1>3. pc[d] # "idle"
  <2>1. SaveAnswer(c) => pc[c] = "save"
    BY DEF SaveAnswer, Goto
  <2>2. answerAt[d] # 0 => pc[d] # "idle"
    BY DEF CallInv, Analysing
  <2> QED  BY <1>2, <2>1, <2>2
<1>4. e \in earlier[d]
  BY <1>3, Onward, OthersStay
<1>5. e \in Calls /\ pc[e] = "done"
  BY <1>4 DEF TypeOK, CallInv
<1>6. answerAt'[e] = answerAt[e] /\ questionAt'[e] = questionAt[e]
  BY <1>1, <1>5, EndedStays
<1>7. CASE answerAt'[d] = answerAt[d]
  BY <1>4, <1>6, <1>7 DEF OrderFollowsCalls
<1>8. CASE d = c /\ SaveAnswer(c)
  <2>1. Exists /\ pc[c] = "save" /\ answerAt'[c] = order[c]
    BY <1>8 DEF SaveAnswer, Goto, TypeOK
  <2> QED  BY <1>4, <1>6, <1>8, <2>1 DEF PendingInv
<1> QED  BY <1>2, <1>7, <1>8

(* A call that is about to write a report has read the messages, or knows what
   it has read. *)
LEMMA ReadsMessages ==
  ASSUME TypeOK, NEW c \in Calls, Act(c),
         pc'[c] \in {"audit", "insert", "commit"}
  PROVE  /\ pc[c] # "idle" /\ UNCHANGED <<answerAt, report>>
         /\ \/ read'[c] = Answers
            \/ read'[c] = read[c] /\ pc[c] \in {"audit", "insert"}
  BY GoesOn, ZenonT(60) DEF TypeOK, Check, ReadOrder, SaveAnswer, Count,
     Complete, Load, FindReport, FindNoReport, Reset, ReadMessages, Audit,
     Insert, FindOwned, Goto, Transcript, rows, work

LEMMA ReadStep ==
  ASSUME TypeOK, CallInv, RowInv, StageInv, ReadInv, NEW c \in Calls, Act(c)
  PROVE  ReadInv'
<1> SUFFICES ASSUME NEW d \in Calls, pc'[d] \in {"audit", "insert", "commit"},
                    NEW e \in Calls, answerAt'[e] # 0,
                    e \in earlier'[d] \cup {d}
             PROVE  e \in read'[d]
  BY DEF ReadInv, Answers
<1>1. ~Erases
  BY ErasesFacts
<1>2. CASE d # c
  <2>1. /\ pc[d] \in {"audit", "insert", "commit"} /\ read'[d] = read[d]
        /\ e \in earlier[d] \cup {d}
    BY <1>2, OthersStay
  <2>2. e # c
    <3>1. CASE e = d
      BY <1>2, <3>1
    <3>2. CASE e \in earlier[d]
      BY <3>2, EndedStays, <1>1 DEF CallInv
    <3> QED  BY <2>1, <3>1, <3>2
  <2>3. answerAt[e] # 0
    BY <1>1, <2>2, RequestStep
  <2> QED  BY <2>1, <2>3 DEF ReadInv, Answers
<1>3. CASE d = c
  <2>1. /\ pc[c] # "idle" /\ answerAt' = answerAt
        /\ \/ read'[c] = Answers
           \/ read'[c] = read[c] /\ pc[c] \in {"audit", "insert"}
    BY <1>3, ReadsMessages
  <2>2. e \in earlier[c] \cup {c}
    BY <1>3, <2>1, Onward
  <2> QED  BY <1>3, <2>1, <2>2 DEF ReadInv, Answers
<1> QED  BY <1>2, <1>3

LEMMA ReportKnowsStep ==
  ASSUME TypeOK, CallInv, RowInv, StageInv, ReadInv, ReportKnowsEarlierAnswers,
         NEW c \in Calls, Act(c)
  PROVE  ReportKnowsEarlierAnswers'
<1> SUFFICES ASSUME report' # NoCall, NEW e \in Calls, answerAt'[e] # 0,
                    e \in earlier'[report'] \cup {report'}
             PROVE  e \in read'[report']
  BY DEF ReportKnowsEarlierAnswers, Answers
<1>1. ~Erases
  BY ErasesFacts
<1>2. CASE CommitReport(c)
  <2>1. /\ pc[c] = "commit" /\ answerAt' = answerAt /\ report' = c
        /\ earlier' = earlier
    BY <1>2 DEF CommitReport, End, Goto
  <2>2. read'[c] = read[c]
    BY <1>2 DEF CommitReport, End, TypeOK
  <2> QED  BY <2>1, <2>2 DEF ReadInv, Answers
<1>3. CASE ~CommitReport(c)
  <2>1. report' = report /\ report \in Calls /\ pc[report] = "done"
    BY <1>1, <1>3, RequestStep DEF TypeOK, RowInv
  <2>2. report # c
    BY <1>1, <2>1, EndedStays
  <2>3. read'[report] = read[report] /\ earlier'[report] = earlier[report]
    BY <2>1, <2>2, OthersStay
  <2>4. e # c
    <3>1. CASE e = report
      BY <2>2, <3>1
    <3>2. CASE e \in earlier[report]
      BY <1>1, <2>1, <3>2, EndedStays DEF CallInv
    <3> QED  BY <2>1, <2>3, <3>1, <3>2
  <2>5. answerAt[e] # 0
    BY <1>1, <2>4, RequestStep
  <2> QED  BY <2>1, <2>3, <2>5 DEF ReportKnowsEarlierAnswers, Answers
<1> QED  BY <1>2, <1>3

-----------------------------------------------------------------------------
(* The interview closes *)

(* A call that has just begun to ask, or has just been acknowledged *)
LEMMA AsksOrEnds ==
  ASSUME TypeOK, NEW c \in Calls, Act(c), answer[c] = "none",
         pc'[c] \in {"askOrder", "ask"} \/ answer'[c] = "OK"
  PROVE  \/ pc[c] \in {"askOrder", "ask"}
         \/ Count(c) /\ ~Enough(c)
         \/ pc[c] \in Analysing
         \/ pc[c] = "delete"
<1>1. CASE pc'[c] \in {"askOrder", "ask"}
  BY <1>1, GoesOn, ZenonT(60) DEF TypeOK, Check, ReadOrder, SaveAnswer, Count,
     Complete, Load, FindReport, FindNoReport, Reset, ReadMessages, Audit,
     Insert, FindOwned, Goto
<1>2. CASE answer'[c] = "OK"
  <2>1. CASE \E k \in Kinds : Begin(c, k)
    BY <1>2, <2>1 DEF Begin
  <2>2. CASE Fault(c)
    BY <1>2, <2>2 DEF Fault, End, Reply, TypeOK
  <2>3. CASE Step(c)
    BY <1>2, <2>3 DEF TypeOK, Step, NotFound, RowMissing, Check, CheckRefuses,
       ReadOrder, SaveAnswer, Count, Complete, SaveQuestion, Load, FindReport,
       FindNoReport, FindRefuses, Repair, Reset, ReadMessages, Audit, Insert,
       InsertFails, CommitReport, FindOwned, FindOwnedNothing, Delete, Goto,
       End, Reply, work
  <2> QED  BY <2>1, <2>2, <2>3 DEF Act
<1> QED  BY <1>1, <1>2

LEMMA AskStep ==
  ASSUME TypeOK, CallInv, RowInv, StageInv, AskInv, NEW c \in Calls, Act(c)
  PROVE  AskInv'
<1>0. Asking \subseteq Answers /\ Asking \subseteq Calls /\ IsFiniteSet(Answers)
      /\ Cardinality(Answers) \in Nat /\ IsFiniteSet(Asking)
  <2>1. Asking \subseteq Answers /\ Asking \subseteq Calls
    BY DEF Asking, Answers
  <2>2. IsFiniteSet(Answers) /\ Cardinality(Answers) \in Nat
    BY MessagesCounted
  <2> QED  BY <2>1, <2>2, FS_Subset
<1>1. CASE Erases
  <2>1. Answers' = {}
    BY <1>1, ErasesFacts
  <2>2. Asking' = {}
    BY <2>1 DEF Asking
  <2>3. Cardinality(Asking') < AnswersNeeded
    BY <2>2, FS_EmptySet, AnalysisConstants
  <2> QED  BY <2>1, <2>3 DEF AskInv
<1>2. CASE ~Erases
  <2>0. answer[c] = "none" /\ pc[c] # "done"
    BY Onward
  <2>1. ASSUME NEW d \in Calls, d # c
        PROVE  d \in Answers' <=> d \in Answers
    BY <1>2, <2>1, RequestStep DEF Answers
  <2>2. completed => completed'
    BY <1>2, RequestStep DEF Complete
  <2>3. SaveAnswer(c) => pc'[c] = "count" /\ answer'[c] = "none"
    BY <2>0 DEF SaveAnswer, Goto, TypeOK
  <2>4. c \in Answers' => c \in Answers \/ SaveAnswer(c)
    BY <1>2, RequestStep DEF Answers
  <2>5. ~completed' => Cardinality(Asking') < AnswersNeeded
    <3> SUFFICES ASSUME ~completed' PROVE Cardinality(Asking') < AnswersNeeded
      OBVIOUS
    <3>1. Cardinality(Asking) < AnswersNeeded /\ ~completed
      BY <2>2 DEF AskInv
    <3>2. ASSUME NEW d \in Asking', d # c
          PROVE  d \in Asking
      <4>1. d \in Calls /\ d \in Answers'
        BY DEF Asking, Answers
      <4> QED  BY <2>1, <3>2, <4>1, OthersStay DEF Asking
    <3>3. CASE Count(c) /\ ~Enough(c)
      <4>1. Answers' = Answers
        BY <3>3 DEF Count, rows, Answers
      <4>2. Asking' \subseteq Answers
        BY <4>1 DEF Asking
      <4>3. Cardinality(Asking') <= Cardinality(Answers)
            /\ Cardinality(Asking') \in Nat
        BY <1>0, <4>2, FS_Subset, FS_CardinalityType
      <4>4. Cardinality(Answers) < AnswersNeeded
        BY <1>0, <3>3, AnalysisConstants DEF Enough
      <4> QED  BY <1>0, <4>3, <4>4, AnalysisConstants
    <3>4. CASE ~(Count(c) /\ ~Enough(c))
      <4>1. c \in Asking' => c \in Asking
        <5> SUFFICES ASSUME c \in Asking' PROVE c \in Asking
          OBVIOUS
        <5>1. /\ c \in Answers'
              /\ pc'[c] \in {"askOrder", "ask"} \/ answer'[c] = "OK"
          BY DEF Asking
        <5>2. c \in Answers
          BY <2>3, <2>4, <5>1
        <5>3. pc[c] \notin Analysing
          BY <3>1, <5>2 DEF AskInv
        <5>4. pc[c] # "delete"
          BY <5>2 DEF CallInv, Answers, Analysing
        <5>5. pc[c] \in {"askOrder", "ask"}
          BY <2>0, <3>4, <5>1, <5>3, <5>4, AsksOrEnds
        <5> QED  BY <5>2, <5>5 DEF Asking
      <4>2. Asking' \subseteq Asking
        BY <3>2, <4>1
      <4>3. Cardinality(Asking') <= Cardinality(Asking)
            /\ Cardinality(Asking') \in Nat /\ Cardinality(Asking) \in Nat
        BY <1>0, <4>2, FS_Subset, FS_CardinalityType
      <4> QED  BY <3>1, <4>3, AnalysisConstants
    <3> QED  BY <3>3, <3>4
  <2>6. ASSUME NEW d \in Calls, d \in Answers', pc'[d] \in Analysing
        PROVE  completed'
    <3>1. CASE d # c
      BY <2>1, <2>2, <2>6, <3>1, OthersStay DEF AskInv
    <3>2. CASE d = c
      <4>1. c \in Answers
        BY <2>3, <2>4, <2>6, <3>2 DEF Analysing
      <4>2. pc[c] \in {"count", "complete", "askOrder", "ask"} \cup Analysing
        BY <2>0, <4>1 DEF CallInv, Answers
      <4>3. pc[c] \in Analysing \/ Complete(c)
        BY <2>6, <3>2, <4>2, GoesOn DEF TypeOK, Check, ReadOrder, SaveAnswer,
           Count, Load, FindReport, FindNoReport, Reset, ReadMessages, Audit,
           Insert, FindOwned, Goto, Analysing
      <4> QED  BY <2>2, <4>1, <4>3 DEF AskInv, Complete
    <3> QED  BY <3>1, <3>2
  <2>7. Answers' \subseteq Calls
    BY DEF Answers
  <2> QED  BY <2>5, <2>6, <2>7 DEF AskInv, Analysing
<1> QED  BY <1>1, <1>2

-----------------------------------------------------------------------------
(* The invariant is inductive. *)

LEMMA InitInvariant == Init => IInv
<1> SUFFICES ASSUME Init PROVE IInv
  OBVIOUS
<1>1. TypeOK
  <2>1. 0 \in Orders
    BY CallsFinite DEF Orders
  <2>2. answerAt \in [Calls -> Orders] /\ questionAt \in [Calls -> Orders]
        /\ order \in [Calls -> Orders]
    BY <2>1 DEF Init
  <2>3. loaded \in [Calls -> [status: {"none", "INTERVIEWING", "COMPLETED"},
                              completed: BOOLEAN]]
    <3>1. [status |-> "none", completed |-> FALSE] \in
            [status: {"none", "INTERVIEWING", "COMPLETED"}, completed: BOOLEAN]
      OBVIOUS
    <3> QED  BY <3>1, Zenon DEF Init, Unloaded
  <2>4. read \in [Calls -> SUBSET Calls] /\ earlier \in [Calls -> SUBSET Calls]
    BY DEF Init
  <2>5. /\ legacy \in BOOLEAN /\ request \in {"NONE", "OPEN", "GONE"}
        /\ status \in {"INTERVIEWING", "COMPLETED"} /\ completed \in BOOLEAN
        /\ report = NoCall /\ runs = {} /\ indexEntry = NoCall /\ staged = {}
    BY DEF Init
  <2>6. pc \in [Calls -> Working \cup {"idle", "done"}]
    BY DEF Init
  <2>7. answer \in [Calls -> {"none", "OK", "Refused", "NotFound", "Error"}]
    BY DEF Init
  <2> QED  BY <2>2, <2>3, <2>4, <2>5, <2>6, <2>7 DEF TypeOK
<1>2. /\ legacy => request = "OPEN" /\ status = "COMPLETED"
      /\ ~legacy => request = "NONE" /\ status = "INTERVIEWING"
      /\ report = NoCall /\ runs = {} /\ indexEntry = NoCall /\ staged = {}
      /\ \A c \in Calls :
           /\ answerAt[c] = 0 /\ questionAt[c] = 0 /\ pc[c] = "idle"
           /\ loaded[c] = Unloaded /\ earlier[c] = {} /\ answer[c] = "none"
  BY DEF Init
<1>3. RowsConsistent
  BY <1>1, <1>2 DEF RowsConsistent, CompletedIffReport, AuditBelongsToReport
<1>4. OrderFollowsCalls /\ ReportKnowsEarlierAnswers
  BY <1>2 DEF OrderFollowsCalls, ReportKnowsEarlierAnswers
<1>5. CallInv
  BY <1>2 DEF CallInv
<1>6. RowInv
  BY <1>2 DEF RowInv, KeyShare
<1>7. StageInv
  BY <1>2, AnalysisConstants DEF StageInv, Unloaded
<1>8. OrderInv /\ PendingInv /\ ReadInv
  <2>1. Messages \in Nat
    BY <1>1, MessagesCounted
  <2> QED  BY <1>2, <2>1 DEF OrderInv, PendingInv, ReadInv
<1>9. AskInv
  <2>1. Answers = {}
    BY <1>2 DEF Answers
  <2>2. Asking = {}
    BY <2>1 DEF Asking
  <2>3. Cardinality(Asking) < AnswersNeeded
    BY <2>2, FS_EmptySet, AnalysisConstants
  <2> QED  BY <2>1, <2>3 DEF AskInv
<1> QED  BY <1>3, <1>4, <1>5, <1>6, <1>7, <1>8, <1>9 DEF IInv

LEMMA CreateStep == IInv /\ Create => IInv'
<1> SUFFICES ASSUME IInv, Create PROVE IInv'
  OBVIOUS
<1>0. TypeOK /\ TypeOK'
  BY DEF IInv, RowsConsistent, TypeOK, Create, locks, work
<1>1. /\ request = "NONE" /\ request' = "OPEN"
      /\ UNCHANGED <<legacy, status, completed, answerAt, questionAt, report,
                     runs, indexEntry, staged, pc, earlier, loaded, order, read,
                     answer>>
  BY DEF Create, locks, work
<1>2. /\ status = "INTERVIEWING" /\ ~legacy /\ report = NoCall
      /\ \A c \in Calls : /\ pc[c] = "idle" /\ loaded[c] = Unloaded
                          /\ answerAt[c] = 0 /\ questionAt[c] = 0
  BY <1>1 DEF IInv, CallInv, RowInv
<1>3. RowsConsistent'
  BY <1>0, <1>1, <1>2 DEF IInv, RowsConsistent, CompletedIffReport,
     AuditBelongsToReport
<1>4. (OrderFollowsCalls /\ ReportKnowsEarlierAnswers)'
  BY <1>1, <1>2 DEF OrderFollowsCalls, ReportKnowsEarlierAnswers
<1>5. CallInv'
  BY <1>1, <1>2 DEF IInv, CallInv
<1>6. RowInv'
  BY <1>1, <1>2 DEF RowInv
<1>7. StageInv'
  BY <1>1, <1>2 DEF IInv, StageInv, Unloaded
<1>8. (OrderInv /\ PendingInv /\ ReadInv)'
  <2>1. Messages' \in Nat
    BY <1>0, <1>1, MessagesCounted DEF Messages, Answers, Questions
  <2> QED  BY <1>1, <1>2, <2>1 DEF OrderInv, PendingInv, ReadInv
<1>9. AskInv'
  BY <1>1 DEF IInv, AskInv, Asking, Answers
<1> QED  BY <1>3, <1>4, <1>5, <1>6, <1>7, <1>8, <1>9 DEF IInv

LEMMA DeleteAccountStep == IInv /\ DeleteAccount => IInv'
<1> SUFFICES ASSUME IInv, DeleteAccount PROVE IInv'
  OBVIOUS
<1>1. /\ Erases
      /\ UNCHANGED <<indexEntry, staged, pc, earlier, loaded, order, read,
                     answer>>
  BY DEF DeleteAccount, Erases, locks, work
<1>2. /\ request' = "GONE" /\ ~Exists' /\ legacy' = legacy
      /\ status' = "INTERVIEWING" /\ report' = NoCall /\ runs' = {}
      /\ \A c \in Calls : answerAt'[c] = 0 /\ questionAt'[c] = 0
      /\ Answers' = {} /\ KeyShare = {} /\ request = "OPEN"
  BY <1>1, ErasesFacts DEF Exists
<1>3. TypeOK'
  <2>1. 0 \in Orders
    BY CallsFinite DEF Orders
  <2>2. /\ answerAt' = [c \in Calls |-> 0] /\ questionAt' = [c \in Calls |-> 0]
        /\ completed' = FALSE
    BY <1>1 DEF Erases, Erase
  <2> QED
    BY <1>1, <1>2, <2>1, <2>2 DEF IInv, RowsConsistent, TypeOK
<1>4. RowsConsistent'
  BY <1>2, <1>3 DEF RowsConsistent, CompletedIffReport, AuditBelongsToReport
<1>5. (OrderFollowsCalls /\ ReportKnowsEarlierAnswers)'
  BY <1>2 DEF OrderFollowsCalls, ReportKnowsEarlierAnswers
<1>6. CallInv'
  BY <1>1, <1>2 DEF IInv, CallInv
<1>7. RowInv'
  <2>1. KeyShare' = {}
    BY <1>1, <1>2 DEF KeyShare
  <2> QED  BY <1>2, <2>1 DEF RowInv
<1>8. StageInv'
  BY <1>1, <1>2 DEF IInv, StageInv
<1>9. (OrderInv /\ PendingInv /\ ReadInv)'
  BY <1>2 DEF OrderInv, PendingInv, ReadInv
<1>10. AskInv'
  <2>1. Asking' = {}
    BY <1>2 DEF Asking
  <2>2. Cardinality(Asking') < AnswersNeeded
    BY <2>1, FS_EmptySet, AnalysisConstants
  <2> QED  BY <1>2, <2>2 DEF AskInv
<1> QED
  BY <1>4, <1>5, <1>6, <1>7, <1>8, <1>9, <1>10 DEF IInv

LEMMA StutterStep == IInv /\ UNCHANGED vars => IInv'
<1> SUFFICES ASSUME IInv, UNCHANGED vars PROVE IInv'
  OBVIOUS
<1>1. UNCHANGED <<legacy, request, status, completed, answerAt, questionAt,
                  report, runs, indexEntry, staged, pc, earlier, loaded, order,
                  read, answer>>
  BY DEF vars, rows, locks, work
<1>2. Answers' = Answers /\ Questions' = Questions /\ KeyShare' = KeyShare
  BY <1>1 DEF Answers, Questions, KeyShare
<1>3. Messages' = Messages /\ Asking' = Asking
  BY <1>1, <1>2 DEF Messages, Asking
<1>4. (RowsConsistent /\ OrderFollowsCalls /\ ReportKnowsEarlierAnswers)'
  BY <1>1, <1>2 DEF IInv, RowsConsistent, TypeOK, CompletedIffReport,
     AuditBelongsToReport, OrderFollowsCalls, ReportKnowsEarlierAnswers
<1>5. (CallInv /\ RowInv /\ StageInv)'
  BY <1>1, <1>2 DEF IInv, CallInv, RowInv, StageInv, Exists
<1>6. (OrderInv /\ PendingInv /\ ReadInv /\ AskInv)'
  BY <1>1, <1>2, <1>3 DEF IInv, OrderInv, PendingInv, ReadInv, AskInv, Exists
<1> QED  BY <1>4, <1>5, <1>6 DEF IInv

LEMMA NextInvariant == IInv /\ [Next]_vars => IInv'
<1> SUFFICES ASSUME IInv, [Next]_vars PROVE IInv'
  OBVIOUS
<1>1. ASSUME NEW c \in Calls, Act(c)
      PROVE  IInv'
  <2>1. /\ TypeOK /\ CompletedIffReport /\ RowsConsistent /\ OrderFollowsCalls
        /\ ReportKnowsEarlierAnswers /\ CallInv /\ RowInv /\ StageInv
        /\ OrderInv /\ PendingInv /\ ReadInv /\ AskInv
    BY DEF IInv, RowsConsistent
  <2>2. RowsConsistent'
    BY <1>1, <2>1, RowsConsistentStep
  <2>3. OrderFollowsCalls' /\ ReportKnowsEarlierAnswers'
    BY <1>1, <2>1, OrderFollowsStep, ReportKnowsStep
  <2>4. CallInv' /\ RowInv' /\ StageInv'
    BY <1>1, <2>1, CallStep, RowStep, StageStep
  <2>5. OrderInv' /\ PendingInv'
    BY <1>1, <2>1, OrderStep, PendingStep
  <2>6. ReadInv' /\ AskInv'
    BY <1>1, <2>1, ReadStep, AskStep
  <2> QED  BY <2>2, <2>3, <2>4, <2>5, <2>6 DEF IInv
<1> QED  BY <1>1, NextSplit, CreateStep, DeleteAccountStep, StutterStep

-----------------------------------------------------------------------------
(* The theorems *)

(* The strengthened invariant holds in every reachable state: all that the
   theorems below rest on, whichever calls overlap, fail or repeat. *)
THEOREM Invariance == Spec => []IInv
  BY InitInvariant, NextInvariant, PTL DEF Spec

(* Whatever overlaps, a request of this release is COMPLETED exactly when its
   report is committed, and the audit has no run without it: complete_analysis
   and the commit of start_analysis keep the rows together. *)
THEOREM RowsConsistentHolds == Spec => []RowsConsistent
<1>1. IInv => RowsConsistent
  BY DEF IInv
<1> QED  BY <1>1, Invariance, PTL

(* save_message computes max + 1 in one statement and uses it in the next; the
   answer still comes after every message of the calls that had ended. *)
THEOREM OrderFollowsCallsHolds == Spec => []OrderFollowsCalls
<1>1. IInv => OrderFollowsCalls
  BY DEF IInv
<1> QED  BY <1>1, Invariance, PTL

(* The report that is kept, of several analyses that may have run, has been
   made from all the answers its call could have known. *)
THEOREM ReportKnowsEarlierAnswersHolds == Spec => []ReportKnowsEarlierAnswers
<1>1. IInv => ReportKnowsEarlierAnswers
  BY DEF IInv
<1> QED  BY <1>1, Invariance, PTL

(* However answers overlap, save_answer does not acknowledge as many as the
   interview needs without having completed it: a call that counts too few
   answers counts every one acknowledged before, and its own. *)
THEOREM LastAnswerClosesHolds == Spec => []LastAnswerCloses
<1>1. IInv => LastAnswerCloses
  <2> DEFINE acknowledged == {c \in Answers : answer[c] = "OK"}
  <2> SUFFICES ASSUME IInv, Cardinality(acknowledged) >= AnswersNeeded,
                      ~completed
               PROVE  FALSE
    BY DEF LastAnswerCloses, IInv, RowsConsistent, TypeOK
  <2>1. acknowledged \subseteq Asking /\ Asking \subseteq Answers
    BY DEF Asking
  <2>2. IsFiniteSet(Answers)
    BY MessagesCounted DEF IInv, RowsConsistent
  <2>3. IsFiniteSet(Asking)
    BY <2>1, <2>2, FS_Subset
  <2>4. Cardinality(acknowledged) <= Cardinality(Asking)
    BY <2>1, <2>3, FS_Subset
  <2>5. IsFiniteSet(acknowledged)
    BY <2>1, <2>3, FS_Subset
  <2>6. Cardinality(acknowledged) \in Nat /\ Cardinality(Asking) \in Nat
    BY <2>3, <2>5, FS_CardinalityType
  <2>7. Cardinality(Asking) < AnswersNeeded
    BY DEF IInv, AskInv
  <2> HIDE DEF acknowledged
  <2> QED  BY <2>4, <2>6, <2>7, AnalysisConstants
<1> QED  BY <1>1, Invariance, PTL

(* No step replaces a report while its request is there: a transaction with an
   entry in the unique index has found none, and none comes before it ends. *)
THEOREM ReportIsFinalHolds == Spec => ReportIsFinal
<1>1. ASSUME IInv, [Next]_vars, report # NoCall, request' = "OPEN"
      PROVE  report' = report
  <2>1. ASSUME NEW c \in Calls, Act(c)
        PROVE  report' = report
    <3>1. TypeOK /\ RowInv /\ StageInv
      BY <1>1 DEF IInv, RowsConsistent
    <3>2. ~Erases /\ ~CommitReport(c)
      BY <1>1, <3>1, ErasesFacts, CommitFacts
    <3> QED  BY <2>1, <3>1, <3>2, RequestStep
  <2>2. DeleteAccount => request' = "GONE"
    BY DEF DeleteAccount, Erase
  <2>3. Create => report' = report
    BY DEF Create
  <2>4. UNCHANGED vars => report' = report
    BY DEF vars, rows
  <2> QED  BY <1>1, <2>1, <2>2, <2>3, <2>4, NextSplit
<1>2. IInv /\ [Next]_vars =>
        [report # NoCall /\ request' = "OPEN" => report' = report]_vars
  BY <1>1
<1> QED  BY <1>2, Invariance, PTL DEF Spec, ReportIsFinal

=============================================================================
