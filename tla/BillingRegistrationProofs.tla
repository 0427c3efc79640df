---------------------- MODULE BillingRegistrationProofs ----------------------
(***************************************************************************)
(* What holds of BillingRegistration for every number of users, customer   *)
(* keys and requests.                                                      *)
(*                                                                         *)
(* The inductive invariant IInv adds three facts to the types: what a call *)
(* has received once it has begun (CallInv), what a call knows while it    *)
(* holds the lock on its user (LockInv), and that a customer key which has *)
(* led to a billing key can never be claimed again (ClaimInv).             *)
(*                                                                         *)
(* A second one, SagaInv, is inductive relative to it: how far each call   *)
(* has come (ProgressInv), what it has replaced and not yet cleaned up     *)
(* (OldInv, ReplacedInv), and which rows belong together (RowInv,          *)
(* OwnerInv, SavedInv).  With both, every step is one of CardRegistry.     *)
(***************************************************************************)
EXTENDS BillingRegistration, TLAPS

(* A call that has begun acts for a user with a customer key that exists; it
   has no billing method before the commit of its save transaction. *)
CallInv ==
  \A r \in Requests :
    /\ pc[r] # "idle" => /\ caller[r] \in Users
                         /\ presented[r] \in CustomerKeys
                         /\ status[presented[r]] # "NONE"
    /\ method[r] # "NONE" => pc[r] # "idle"

(* The lock on a user is held by exactly those calls that are saving for that
   user, and old[r] is then what is active: nobody has changed it since. *)
LockInv ==
  \A r \in Requests :
    pc[r] = "saving" =>
      /\ userLock[caller[r]] = r
      /\ userActive[caller[r]]
      /\ \A m \in Requests :
           m \in old[r] <=> method[m] = "ACTIVE" /\ caller[m] = caller[r]

(* The calls that have claimed a session and the keys issued for them *)
Claimed(r) == pc[r] = "issue" \/ toss[r] # "NONE"

ClaimInv ==
  \A r \in Requests :
    /\ pc[r] \in {"idle", "claim", "issue"} => toss[r] = "NONE"
    /\ Claimed(r) =>
         /\ pc[r] # "idle"
         /\ status[presented[r]] \notin {"NONE", "PENDING"}
         /\ owner[presented[r]] = caller[r]
         /\ \A s \in Requests :
              Claimed(s) /\ presented[s] = presented[r] => s = r

IInv ==
  TypeOK /\ CallInv /\ LockInv /\ ClaimInv /\ OneActiveMethod

(* What Next does, apart from doing nothing *)
Env ==
  \/ \E r \in Requests, u \in Users, k \in CustomerKeys : Begin(r, u, k)
  \/ \E u \in Users, k \in CustomerKeys : StartRegistration(u, k)
  \/ \E u \in Users : DeleteAccount(u)
  \/ \E k \in Lapsing : Lapse(k)

Work(r) == Step(r) \/ Fault(r) \/ Crash(r) \/ TossIssues(r)

(* A step of Next is a step of the environment, a step on behalf of some call,
   or no step at all. *)
LEMMA NextSplit ==
  ASSUME [Next]_vars
  PROVE  Env \/ (\E r \in Requests : Work(r)) \/ UNCHANGED vars
  BY DEF Next, Env, Work, Quiescent

LEMMA UnchangedVars ==
  ASSUME UNCHANGED vars, IInv
  PROVE  IInv'
  BY DEF vars, dbVars, callVars, IInv, TypeOK, CallInv, LockInv, ClaimInv,
         Claimed, OneActiveMethod

(* The initial states satisfy the invariant. *)
LEMMA InitInv == Init => IInv
  BY BillingConstants
     DEF Init, IInv, TypeOK, CallInv, LockInv, ClaimInv, Claimed,
         OneActiveMethod, Statuses, Rows, Working, Answers

-----------------------------------------------------------------------------
(* Type correctness *)

LEMMA WorkType ==
  ASSUME TypeOK, CallInv, NEW r \in Requests, Work(r)
  PROVE  TypeOK'
<1>0. pc[r] # "idle" => caller[r] \in Users /\ presented[r] \in CustomerKeys
  BY DEF CallInv
<1> USE <1>0, BillingConstants DEF TypeOK, Goto, Reply, dbVars, callVars,
        Statuses, Rows, Working, Answers
<1>1. CASE Claim(r) \/ ClaimRefused(r) \/ ClaimFails(r)
  BY <1>1 DEF Claim, ClaimRefused, ClaimFails, MarkProcessing
<1>2. CASE SendIssue(r) \/ IssueFails(r) \/ KeyIssued(r) \/ EncryptFails(r)
  <2>1. CASE SendIssue(r)
    BY <2>1 DEF SendIssue
  <2>2. CASE IssueFails(r)
    BY <2>2 DEF IssueFails
  <2>3. CASE KeyIssued(r)
    BY <2>3 DEF KeyIssued
  <2>4. CASE EncryptFails(r)
    BY <2>4 DEF EncryptFails
  <2> QED
    BY <1>2, <2>1, <2>2, <2>3, <2>4
<1>3. CASE SaveBegins(r) \/ SaveRefused(r) \/ SaveFails(r) \/ SaveRollsBack(r)
  BY <1>3 DEF SaveBegins, SaveRefused, SaveFails, SaveRollsBack, Replaced,
              ActiveMethods, Unlock
<1>4. CASE SaveCommits(r) \/ SaveCommitLost(r)
  BY <1>4, SMTT(30) DEF SaveCommits, SaveCommitLost, SaveEffect, Unlock
<1>5. CASE Compensate(r) \/ CompensateFails(r) \/ MarkFailed(r)
  BY <1>5, SMTT(30) DEF Compensate, CompensateFails, MarkFailed, FailSession,
              DeleteBillingKey
<1>6. ASSUME NEW m \in Requests, CleanupDeletes(r, m) \/ CleanupFails(r, m)
      PROVE  TypeOK'
  BY <1>6, SMTT(30) DEF CleanupDeletes, CleanupFails, ReportCleanup,
     DeleteBillingKey
<1>7. CASE Return(r)
  BY <1>7 DEF Return
<1>8. CASE Crash(r)
  BY <1>8 DEF Crash, Unlock
<1>9. CASE TossIssues(r)
  BY <1>9 DEF TossIssues
<1> QED
  BY <1>1, <1>2, <1>3, <1>4, <1>5, <1>6, <1>7, <1>8, <1>9
     DEF Work, Step, Fault

LEMMA EnvType ==
  ASSUME TypeOK, Env
  PROVE  TypeOK'
<1> USE BillingConstants DEF TypeOK, dbVars, callVars, Statuses, Rows, Working,
        Answers
<1>1. ASSUME NEW r \in Requests, NEW u \in Users, NEW k \in CustomerKeys,
             Begin(r, u, k)
      PROVE  TypeOK'
  BY <1>1 DEF Begin, Goto
<1>2. ASSUME NEW u \in Users, NEW k \in CustomerKeys, StartRegistration(u, k)
      PROVE  TypeOK'
  BY <1>2 DEF StartRegistration, ExpirePending
<1>3. ASSUME NEW u \in Users, DeleteAccount(u)
      PROVE  TypeOK'
  BY <1>3 DEF DeleteAccount
<1>4. ASSUME NEW k \in Lapsing, Lapse(k)
      PROVE  TypeOK'
  BY <1>4 DEF Lapse
<1> QED
  BY <1>1, <1>2, <1>3, <1>4 DEF Env

-----------------------------------------------------------------------------
(* What a call has received, and how far it has come *)

LEMMA WorkCall ==
  ASSUME TypeOK, CallInv, LockInv, NEW r \in Requests, Work(r)
  PROVE  CallInv'
<1> USE BillingConstants DEF TypeOK, CallInv, Goto, Reply, dbVars, callVars
<1>1. CASE Claim(r) \/ ClaimRefused(r) \/ ClaimFails(r)
  BY <1>1 DEF Claim, ClaimRefused, ClaimFails, MarkProcessing
<1>2. CASE SendIssue(r) \/ IssueFails(r) \/ KeyIssued(r) \/ EncryptFails(r)
  BY <1>2 DEF SendIssue, IssueFails, KeyIssued, EncryptFails
<1>3. CASE SaveBegins(r) \/ SaveRefused(r) \/ SaveFails(r) \/ SaveRollsBack(r)
  BY <1>3 DEF SaveBegins, SaveRefused, SaveFails, SaveRollsBack
<1>4. CASE SaveCommits(r) \/ SaveCommitLost(r)
  BY <1>4 DEF SaveCommits, SaveCommitLost, SaveEffect, LockInv
<1>5. CASE Compensate(r) \/ CompensateFails(r) \/ MarkFailed(r)
  BY <1>5 DEF Compensate, CompensateFails, MarkFailed, FailSession
<1>6. ASSUME NEW m \in Requests, CleanupDeletes(r, m) \/ CleanupFails(r, m)
      PROVE  CallInv'
  BY <1>6 DEF CleanupDeletes, CleanupFails
<1>7. CASE Return(r) \/ Crash(r) \/ TossIssues(r)
  BY <1>7 DEF Return, Crash, TossIssues, Working
<1> QED
  BY <1>1, <1>2, <1>3, <1>4, <1>5, <1>6, <1>7 DEF Work, Step, Fault

LEMMA EnvCall ==
  ASSUME TypeOK, CallInv, Env
  PROVE  CallInv'
<1> USE BillingConstants DEF TypeOK, CallInv, dbVars, callVars
<1>1. ASSUME NEW r \in Requests, NEW u \in Users, NEW k \in CustomerKeys,
             Begin(r, u, k)
      PROVE  CallInv'
  BY <1>1 DEF Begin, Goto
<1>2. ASSUME NEW u \in Users, NEW k \in CustomerKeys, StartRegistration(u, k)
      PROVE  CallInv'
  BY <1>2 DEF StartRegistration, ExpirePending
<1>3. ASSUME NEW u \in Users, DeleteAccount(u)
      PROVE  CallInv'
  BY <1>3 DEF DeleteAccount, Rows
<1>4. ASSUME NEW k \in Lapsing, Lapse(k)
      PROVE  CallInv'
  BY <1>4 DEF Lapse
<1> QED
  BY <1>1, <1>2, <1>3, <1>4 DEF Env

-----------------------------------------------------------------------------
(* The lock on the user, and what is known under it *)

LEMMA WorkLock ==
  ASSUME TypeOK, CallInv, LockInv, NEW r \in Requests, Work(r)
  PROVE  LockInv'
<1> USE BillingConstants DEF TypeOK, CallInv, LockInv, Goto, Reply, dbVars,
        callVars
<1>1. CASE Claim(r) \/ ClaimRefused(r) \/ ClaimFails(r)
  BY <1>1 DEF Claim, ClaimRefused, ClaimFails
<1>2. CASE SendIssue(r) \/ IssueFails(r) \/ KeyIssued(r) \/ EncryptFails(r)
  BY <1>2 DEF SendIssue, IssueFails, KeyIssued, EncryptFails
<1>3. CASE SaveBegins(r)
  BY <1>3 DEF SaveBegins, LockFree, Replaced, ActiveMethods
<1>4. CASE SaveRefused(r) \/ SaveFails(r) \/ SaveRollsBack(r)
  BY <1>4 DEF SaveRefused, SaveFails, SaveRollsBack, Unlock
<1>5. CASE SaveCommits(r) \/ SaveCommitLost(r)
  BY <1>5 DEF SaveCommits, SaveCommitLost, SaveEffect, Unlock
<1>6. CASE Compensate(r) \/ CompensateFails(r) \/ MarkFailed(r)
  BY <1>6 DEF Compensate, CompensateFails, MarkFailed
<1>7. ASSUME NEW m \in Requests, CleanupDeletes(r, m) \/ CleanupFails(r, m)
      PROVE  LockInv'
  BY <1>7 DEF CleanupDeletes, CleanupFails
<1>8. CASE Return(r) \/ TossIssues(r)
  BY <1>8 DEF Return, TossIssues
<1>9. CASE Crash(r)
  BY <1>9 DEF Crash, Unlock
<1> QED
  BY <1>1, <1>2, <1>3, <1>4, <1>5, <1>6, <1>7, <1>8, <1>9
     DEF Work, Step, Fault

LEMMA EnvLock ==
  ASSUME TypeOK, CallInv, LockInv, Env
  PROVE  LockInv'
<1> USE BillingConstants DEF TypeOK, CallInv, LockInv, dbVars, callVars
<1>1. ASSUME NEW r \in Requests, NEW u \in Users, NEW k \in CustomerKeys,
             Begin(r, u, k)
      PROVE  LockInv'
  BY <1>1 DEF Begin, Goto
<1>2. ASSUME NEW u \in Users, NEW k \in CustomerKeys, StartRegistration(u, k)
      PROVE  LockInv'
  BY <1>2 DEF StartRegistration
<1>3. ASSUME NEW u \in Users, DeleteAccount(u)
      PROVE  LockInv'
  BY <1>3 DEF DeleteAccount, LockFree, Rows
<1>4. ASSUME NEW k \in Lapsing, Lapse(k)
      PROVE  LockInv'
  BY <1>4 DEF Lapse
<1> QED
  BY <1>1, <1>2, <1>3, <1>4 DEF Env

-----------------------------------------------------------------------------
(* A customer key is claimed once *)

LEMMA WorkClaim ==
  ASSUME TypeOK, CallInv, ClaimInv, NEW r \in Requests, Work(r)
  PROVE  ClaimInv'
<1> USE BillingConstants DEF TypeOK, CallInv, ClaimInv, Claimed, Goto, Reply,
        dbVars, callVars
<1>1. CASE Claim(r)
  BY <1>1 DEF Claim, Claimable, MarkProcessing
<1>2. CASE ClaimRefused(r) \/ ClaimFails(r)
  BY <1>2 DEF ClaimRefused, ClaimFails, Claimable, MarkProcessing
<1>3. CASE SendIssue(r) \/ IssueFails(r) \/ KeyIssued(r) \/ EncryptFails(r)
  BY <1>3 DEF SendIssue, IssueFails, KeyIssued, EncryptFails
<1>4. CASE SaveBegins(r) \/ SaveRefused(r) \/ SaveFails(r) \/ SaveRollsBack(r)
  BY <1>4 DEF SaveBegins, SaveRefused, SaveFails, SaveRollsBack
<1>5. CASE SaveCommits(r) \/ SaveCommitLost(r)
  BY <1>5 DEF SaveCommits, SaveCommitLost, SaveEffect
<1>6. CASE Compensate(r) \/ CompensateFails(r)
  BY <1>6 DEF Compensate, CompensateFails, DeleteBillingKey
<1>7. CASE MarkFailed(r)
  BY <1>7 DEF MarkFailed, FailSession
<1>8. ASSUME NEW m \in Requests, CleanupDeletes(r, m) \/ CleanupFails(r, m)
      PROVE  ClaimInv'
  BY <1>8 DEF CleanupDeletes, CleanupFails, DeleteBillingKey
<1>9. CASE Return(r) \/ Crash(r) \/ TossIssues(r)
  BY <1>9 DEF Return, Crash, TossIssues, Working
<1> QED
  BY <1>1, <1>2, <1>3, <1>4, <1>5, <1>6, <1>7, <1>8, <1>9
     DEF Work, Step, Fault

LEMMA EnvClaim ==
  ASSUME TypeOK, CallInv, ClaimInv, Env
  PROVE  ClaimInv'
<1> USE BillingConstants DEF TypeOK, CallInv, ClaimInv, Claimed, dbVars,
        callVars
<1>1. ASSUME NEW r \in Requests, NEW u \in Users, NEW k \in CustomerKeys,
             Begin(r, u, k)
      PROVE  ClaimInv'
  BY <1>1 DEF Begin, Goto
<1>2. ASSUME NEW u \in Users, NEW k \in CustomerKeys, StartRegistration(u, k)
      PROVE  ClaimInv'
  BY <1>2 DEF StartRegistration, ExpirePending
<1>3. ASSUME NEW u \in Users, DeleteAccount(u)
      PROVE  ClaimInv'
  BY <1>3 DEF DeleteAccount
<1>4. ASSUME NEW k \in Lapsing, Lapse(k)
      PROVE  ClaimInv'
  BY <1>4 DEF Lapse
<1> QED
  BY <1>1, <1>2, <1>3, <1>4 DEF Env

-----------------------------------------------------------------------------
(* One active method per user *)

(* Only the commit of a save transaction activates a method, and under the
   lock it deactivates everything else that is active for the user. *)
LEMMA WorkOneActive ==
  ASSUME TypeOK, CallInv, LockInv, OneActiveMethod, NEW r \in Requests, Work(r)
  PROVE  OneActiveMethod'
<1> USE DEF TypeOK, OneActiveMethod, dbVars, callVars
<1>1. CASE SaveCommits(r) \/ SaveCommitLost(r)
  BY <1>1 DEF SaveCommits, SaveCommitLost, SaveEffect, Goto, LockInv
<1>2. CASE UNCHANGED <<method, caller>>
  BY <1>2
<1>3. ASSUME NEW m \in Requests, CleanupDeletes(r, m) \/ CleanupFails(r, m)
      PROVE  UNCHANGED <<method, caller>>
  BY <1>3 DEF CleanupDeletes, CleanupFails
<1>4. SaveCommits(r) \/ SaveCommitLost(r) \/ UNCHANGED <<method, caller>>
  BY <1>3 DEF Work, Step, Fault, Claim, ClaimRefused, ClaimFails, SendIssue,
              IssueFails, KeyIssued, EncryptFails, SaveBegins, SaveRefused,
              SaveFails, SaveRollsBack, Compensate, CompensateFails,
              MarkFailed, Return, Crash, TossIssues
<1> QED
  BY <1>1, <1>2, <1>4

LEMMA EnvOneActive ==
  ASSUME TypeOK, CallInv, OneActiveMethod, Env
  PROVE  OneActiveMethod'
<1> USE DEF TypeOK, CallInv, OneActiveMethod, dbVars, callVars
<1>1. ASSUME NEW r \in Requests, NEW u \in Users, NEW k \in CustomerKeys,
             Begin(r, u, k)
      PROVE  OneActiveMethod'
  BY <1>1 DEF Begin, Goto
<1>2. ASSUME NEW u \in Users, NEW k \in CustomerKeys, StartRegistration(u, k)
      PROVE  OneActiveMethod'
  BY <1>2 DEF StartRegistration
<1>3. ASSUME NEW u \in Users, DeleteAccount(u)
      PROVE  OneActiveMethod'
  BY <1>3 DEF DeleteAccount
<1>4. ASSUME NEW k \in Lapsing, Lapse(k)
      PROVE  OneActiveMethod'
  BY <1>4 DEF Lapse
<1> QED
  BY <1>1, <1>2, <1>3, <1>4 DEF Env

-----------------------------------------------------------------------------
(* The theorems *)

(* Every step keeps the invariant. *)
LEMMA StepInv == IInv /\ [Next]_vars => IInv'
<1> SUFFICES ASSUME IInv, [Next]_vars PROVE IInv'
  OBVIOUS
<1>1. CASE Env
  BY <1>1, EnvType, EnvCall, EnvLock, EnvClaim, EnvOneActive DEF IInv
<1>2. ASSUME NEW r \in Requests, Work(r)
      PROVE  IInv'
  BY <1>2, WorkType, WorkCall, WorkLock, WorkClaim, WorkOneActive DEF IInv
<1>3. CASE UNCHANGED vars
  BY <1>3, UnchangedVars
<1> QED
  BY <1>1, <1>2, <1>3, NextSplit

LEMMA Invariant == Spec => []IInv
  BY InitInv, StepInv, PTL DEF Spec

(* Every variable keeps its type, for any number of users, customer keys and
   concurrent completions. *)
THEOREM TypeCorrect == Spec => []TypeOK
<1>1. IInv => TypeOK
  BY DEF IInv
<1> QED
  BY <1>1, Invariant, PTL

(* However many completions of a user overlap and wherever they fail, the user
   never has two active billing methods. *)
THEOREM OneActiveMethodHolds == Spec => []OneActiveMethod
<1>1. IInv => OneActiveMethod
  BY DEF IInv
<1> QED
  BY <1>1, Invariant, PTL

(* A customer key never leads to two billing keys at Toss, nor to one for a
   user who did not start the registration. *)
THEOREM IssuedOnceHolds == Spec => []IssuedOncePerCustomerKey
<1>1. IInv => IssuedOncePerCustomerKey
  BY DEF IInv, ClaimInv, Claimed, IssuedOncePerCustomerKey
<1> QED
  BY <1>1, Invariant, PTL

-----------------------------------------------------------------------------
(* The saga: what is stored, replaced, compensated and reported *)

(* Before the commit of its save transaction *)
Unsaved == {"idle", "claim", "issue", "waiting", "save", "saving"}

(* How far a call has come, read off what it has done: it has no method and no
   answer before its save commits, its key is live from then on that Toss has
   returned it, and where a call fails it has an answer that says how. *)
ProgressInv ==
  \A r \in Requests :
    /\ pc[r] \in Unsaved => method[r] = "NONE" /\ answer[r] = "none"
    /\ pc[r] \in Unsaved \ {"saving"} => old[r] = {}
    /\ pc[r] \in {"save", "saving"} => toss[r] = "LIVE"
    /\ pc[r] = "compensate" => answer[r] \in {"UserUnavailable", "Persistence"}
    /\ pc[r] = "cleanup" => method[r] # "NONE" /\ answer[r] = "none"
    /\ pc[r] \in {"markFailed", "done"} /\ toss[r] \in {"REQUESTED", "LIVE"} =>
         answer[r] \in {"Provider", "Compensation", "OK"}
    /\ method[r] # "NONE" => toss[r] \in {"LIVE", "DELETED"}

(* What a call has replaced never becomes active again. *)
OldInv ==
  \A r \in Requests : pc[r] # "saving" =>
    \A m \in old[r] : method[m] \in {"INACTIVE", "DELETED"}

(* A replaced method with a live key is on the list of the call that has
   replaced it, to be cleaned or to be reported. *)
ReplacedInv ==
  \A m \in Requests : method[m] = "INACTIVE" /\ toss[m] = "LIVE" =>
    \E r \in Requests : m \in old[r] \cup uncleaned[r]

(* Every row of a method belongs to a COMPLETED session of its user, and the
   other way round: CompletedIffSaved, with what it rests on. *)
RowInv ==
  \A m \in Requests : method[m] \in Rows =>
    /\ status[presented[m]] = "COMPLETED"
    /\ owner[presented[m]] = caller[m]

OwnerInv ==
  \A k \in CustomerKeys : status[k] = "NONE" <=> owner[k] = NoUser

SavedInv ==
  \A k \in CustomerKeys : status[k] = "COMPLETED" =>
    \E m \in Requests : /\ presented[m] = k /\ method[m] \in Rows
                        /\ caller[m] = owner[k]

LEMMA WorkProgress ==
  ASSUME TypeOK, CallInv, LockInv, ClaimInv, ProgressInv, OldInv,
         NEW r \in Requests, Work(r)
  PROVE  ProgressInv'
<1> USE BillingConstants DEF TypeOK, CallInv, LockInv, ClaimInv, ProgressInv,
        OldInv, Unsaved, Rows, Goto, Reply, dbVars,
        callVars
<1>1. CASE Claim(r) \/ ClaimRefused(r) \/ ClaimFails(r)
  BY <1>1 DEF Claim, ClaimRefused, ClaimFails, Claimable, MarkProcessing
<1>2. CASE SendIssue(r) \/ IssueFails(r) \/ KeyIssued(r) \/ EncryptFails(r)
  BY <1>2 DEF SendIssue, IssueFails, KeyIssued, EncryptFails
<1>3. CASE SaveBegins(r)
  BY <1>3 DEF SaveBegins
<1>4. CASE SaveRefused(r) \/ SaveFails(r) \/ SaveRollsBack(r)
  BY <1>4 DEF SaveRefused, SaveFails, SaveRollsBack
<1>5. CASE SaveCommits(r) \/ SaveCommitLost(r)
  BY <1>5 DEF SaveCommits, SaveCommitLost, SaveEffect, Savable
<1>6. CASE Compensate(r) \/ CompensateFails(r)
  BY <1>6 DEF Compensate, CompensateFails, DeleteBillingKey
<1>7. CASE MarkFailed(r)
  BY <1>7 DEF MarkFailed, FailSession
<1>8. ASSUME NEW m \in Requests, CleanupDeletes(r, m) \/ CleanupFails(r, m)
      PROVE  ProgressInv'
  BY <1>8 DEF CleanupDeletes, CleanupFails, DeleteBillingKey, ReportCleanup
<1>9. CASE Return(r)
  BY <1>9 DEF Return
<1>10. CASE Crash(r)
  BY <1>10 DEF Crash, Working
<1>11. CASE TossIssues(r)
  BY <1>11 DEF TossIssues
<1> QED
  BY <1>1, <1>2, <1>3, <1>4, <1>5, <1>6, <1>7, <1>8, <1>9, <1>10, <1>11
     DEF Work, Step, Fault

LEMMA EnvProgress ==
  ASSUME TypeOK, CallInv, LockInv, ClaimInv, ProgressInv, OldInv, Env
  PROVE  ProgressInv'
<1> USE BillingConstants DEF TypeOK, CallInv, LockInv, ClaimInv, ProgressInv,
        OldInv, Unsaved, Rows, dbVars, callVars
<1>1. ASSUME NEW r \in Requests, NEW u \in Users, NEW k \in CustomerKeys,
             Begin(r, u, k)
      PROVE  ProgressInv'
  BY <1>1 DEF Begin, Goto
<1>2. ASSUME NEW u \in Users, NEW k \in CustomerKeys, StartRegistration(u, k)
      PROVE  ProgressInv'
  BY <1>2 DEF StartRegistration, ExpirePending
<1>3. ASSUME NEW u \in Users, DeleteAccount(u)
      PROVE  ProgressInv'
  BY <1>3 DEF DeleteAccount
<1>4. ASSUME NEW k \in Lapsing, Lapse(k)
      PROVE  ProgressInv'
  BY <1>4 DEF Lapse
<1> QED
  BY <1>1, <1>2, <1>3, <1>4 DEF Env

LEMMA WorkOld ==
  ASSUME TypeOK, CallInv, LockInv, ClaimInv, ProgressInv, OldInv,
         NEW r \in Requests, Work(r)
  PROVE  OldInv'
<1> USE BillingConstants DEF TypeOK, CallInv, LockInv, ProgressInv, OldInv,
        Unsaved, Rows, Goto, Reply, dbVars,
        callVars
<1>1. CASE Claim(r) \/ ClaimRefused(r) \/ ClaimFails(r)
  BY <1>1 DEF Claim, ClaimRefused, ClaimFails, Claimable, MarkProcessing
<1>2. CASE SendIssue(r) \/ IssueFails(r) \/ KeyIssued(r) \/ EncryptFails(r)
  BY <1>2 DEF SendIssue, IssueFails, KeyIssued, EncryptFails
<1>3. CASE SaveBegins(r)
  BY <1>3 DEF SaveBegins
<1>4. CASE SaveRefused(r) \/ SaveFails(r) \/ SaveRollsBack(r)
  BY <1>4 DEF SaveRefused, SaveFails, SaveRollsBack
<1>5. CASE SaveCommits(r) \/ SaveCommitLost(r)
  BY <1>5 DEF SaveCommits, SaveCommitLost, SaveEffect, Savable
<1>6. CASE Compensate(r) \/ CompensateFails(r)
  BY <1>6 DEF Compensate, CompensateFails, DeleteBillingKey
<1>7. CASE MarkFailed(r)
  BY <1>7 DEF MarkFailed, FailSession
<1>8. ASSUME NEW m \in Requests, CleanupDeletes(r, m) \/ CleanupFails(r, m)
      PROVE  OldInv'
  <2>1. old' = [old EXCEPT ![r] = @ \ {m}] /\ UNCHANGED <<method, pc>>
    BY <1>8 DEF CleanupDeletes, CleanupFails
  <2> QED
    BY <2>1
<1>9. CASE Return(r)
  BY <1>9 DEF Return
<1>10. CASE Crash(r)
  BY <1>10 DEF Crash, Working
<1>11. CASE TossIssues(r)
  BY <1>11 DEF TossIssues
<1> QED
  BY <1>1, <1>2, <1>3, <1>4, <1>5, <1>6, <1>7, <1>8, <1>9, <1>10, <1>11
     DEF Work, Step, Fault

LEMMA EnvOld ==
  ASSUME TypeOK, CallInv, LockInv, ClaimInv, ProgressInv, OldInv, Env
  PROVE  OldInv'
<1> USE BillingConstants DEF TypeOK, CallInv, LockInv, ProgressInv, OldInv,
        Unsaved, Rows, dbVars, callVars
<1>1. ASSUME NEW r \in Requests, NEW u \in Users, NEW k \in CustomerKeys,
             Begin(r, u, k)
      PROVE  OldInv'
  BY <1>1 DEF Begin, Goto
<1>2. ASSUME NEW u \in Users, NEW k \in CustomerKeys, StartRegistration(u, k)
      PROVE  OldInv'
  BY <1>2 DEF StartRegistration, ExpirePending
<1>3. ASSUME NEW u \in Users, DeleteAccount(u)
      PROVE  OldInv'
  BY <1>3 DEF DeleteAccount
<1>4. ASSUME NEW k \in Lapsing, Lapse(k)
      PROVE  OldInv'
  BY <1>4 DEF Lapse
<1> QED
  BY <1>1, <1>2, <1>3, <1>4 DEF Env

LEMMA WorkReplaced ==
  ASSUME TypeOK, CallInv, LockInv, ClaimInv, ProgressInv, OldInv, ReplacedInv,
         NEW r \in Requests, Work(r)
  PROVE  ReplacedInv'
<1> USE BillingConstants DEF TypeOK, CallInv, LockInv, ProgressInv, OldInv,
        ReplacedInv, Unsaved, Rows, Goto, Reply, dbVars,
        callVars
<1>1. CASE Claim(r) \/ ClaimRefused(r) \/ ClaimFails(r)
  BY <1>1 DEF Claim, ClaimRefused, ClaimFails, Claimable, MarkProcessing
<1>2. CASE SendIssue(r) \/ IssueFails(r) \/ KeyIssued(r) \/ EncryptFails(r)
  BY <1>2 DEF SendIssue, IssueFails, KeyIssued, EncryptFails
<1>3. CASE SaveBegins(r)
  BY <1>3 DEF SaveBegins
<1>4. CASE SaveRefused(r) \/ SaveFails(r) \/ SaveRollsBack(r)
  BY <1>4 DEF SaveRefused, SaveFails, SaveRollsBack
<1>5. CASE SaveCommits(r) \/ SaveCommitLost(r)
  BY <1>5 DEF SaveCommits, SaveCommitLost, SaveEffect, Savable
<1>6. CASE Compensate(r) \/ CompensateFails(r)
  BY <1>6 DEF Compensate, CompensateFails, DeleteBillingKey
<1>7. CASE MarkFailed(r)
  BY <1>7 DEF MarkFailed, FailSession
<1>8. ASSUME NEW m \in Requests, CleanupDeletes(r, m) \/ CleanupFails(r, m)
      PROVE  ReplacedInv'
  BY <1>8 DEF CleanupDeletes, CleanupFails, DeleteBillingKey, ReportCleanup
<1>9. CASE Return(r)
  BY <1>9 DEF Return
<1>10. CASE Crash(r)
  <2>1. UNCHANGED <<method, toss, uncleaned>>
        /\ \A s \in Requests : s # r => old'[s] = old[s]
    BY <1>10 DEF Crash
  <2>2. pc[r] # "saving" => old' = old
    BY <1>10 DEF Crash
  <2>3. \A m \in Requests : pc[r] = "saving" /\ m \in old[r] =>
          method[m] = "ACTIVE"
    OBVIOUS
  <2>4. ASSUME NEW m \in Requests, method'[m] = "INACTIVE", toss'[m] = "LIVE"
        PROVE  \E s \in Requests : m \in old'[s] \cup uncleaned'[s]
    <3>1. PICK s \in Requests : m \in old[s] \cup uncleaned[s]
      BY <2>1, <2>4
    <3> QED
      BY <3>1, <2>1, <2>2, <2>3, <2>4
  <2> QED
    BY <2>4
<1>11. CASE TossIssues(r)
  BY <1>11 DEF TossIssues
<1> QED
  BY <1>1, <1>2, <1>3, <1>4, <1>5, <1>6, <1>7, <1>8, <1>9, <1>10, <1>11
     DEF Work, Step, Fault

LEMMA EnvReplaced ==
  ASSUME TypeOK, CallInv, LockInv, ClaimInv, ProgressInv, OldInv, ReplacedInv,
         Env
  PROVE  ReplacedInv'
<1> USE BillingConstants DEF TypeOK, CallInv, LockInv, ProgressInv, OldInv,
        ReplacedInv, Unsaved, Rows, dbVars, callVars
<1>1. ASSUME NEW r \in Requests, NEW u \in Users, NEW k \in CustomerKeys,
             Begin(r, u, k)
      PROVE  ReplacedInv'
  BY <1>1 DEF Begin, Goto
<1>2. ASSUME NEW u \in Users, NEW k \in CustomerKeys, StartRegistration(u, k)
      PROVE  ReplacedInv'
  BY <1>2 DEF StartRegistration, ExpirePending
<1>3. ASSUME NEW u \in Users, DeleteAccount(u)
      PROVE  ReplacedInv'
  BY <1>3 DEF DeleteAccount
<1>4. ASSUME NEW k \in Lapsing, Lapse(k)
      PROVE  ReplacedInv'
  BY <1>4 DEF Lapse
<1> QED
  BY <1>1, <1>2, <1>3, <1>4 DEF Env

LEMMA WorkRow ==
  ASSUME TypeOK, CallInv, LockInv, ClaimInv, ProgressInv, RowInv,
         NEW r \in Requests, Work(r)
  PROVE  RowInv'
<1> USE BillingConstants DEF TypeOK, CallInv, LockInv, ClaimInv, Claimed,
        ProgressInv, RowInv, Unsaved, Rows, Goto, Reply, dbVars,
        callVars
<1>1. CASE Claim(r) \/ ClaimRefused(r) \/ ClaimFails(r)
  BY <1>1 DEF Claim, ClaimRefused, ClaimFails, Claimable, MarkProcessing
<1>2. CASE SendIssue(r) \/ IssueFails(r) \/ KeyIssued(r) \/ EncryptFails(r)
  BY <1>2 DEF SendIssue, IssueFails, KeyIssued, EncryptFails
<1>3. CASE SaveBegins(r)
  BY <1>3 DEF SaveBegins
<1>4. CASE SaveRefused(r) \/ SaveFails(r) \/ SaveRollsBack(r)
  BY <1>4 DEF SaveRefused, SaveFails, SaveRollsBack
<1>5. CASE SaveCommits(r) \/ SaveCommitLost(r)
  BY <1>5 DEF SaveCommits, SaveCommitLost, SaveEffect, Savable
<1>6. CASE Compensate(r) \/ CompensateFails(r)
  BY <1>6 DEF Compensate, CompensateFails, DeleteBillingKey
<1>7. CASE MarkFailed(r)
  BY <1>7 DEF MarkFailed, FailSession
<1>8. ASSUME NEW m \in Requests, CleanupDeletes(r, m) \/ CleanupFails(r, m)
      PROVE  RowInv'
  BY <1>8 DEF CleanupDeletes, CleanupFails, DeleteBillingKey, ReportCleanup
<1>9. CASE Return(r)
  BY <1>9 DEF Return
<1>10. CASE Crash(r)
  BY <1>10 DEF Crash, Working
<1>11. CASE TossIssues(r)
  BY <1>11 DEF TossIssues
<1> QED
  BY <1>1, <1>2, <1>3, <1>4, <1>5, <1>6, <1>7, <1>8, <1>9, <1>10, <1>11
     DEF Work, Step, Fault

LEMMA EnvRow ==
  ASSUME TypeOK, CallInv, LockInv, ClaimInv, ProgressInv, RowInv, Env
  PROVE  RowInv'
<1> USE BillingConstants DEF TypeOK, CallInv, LockInv, ClaimInv, Claimed,
        ProgressInv, RowInv, Unsaved, Rows, dbVars, callVars
<1>1. ASSUME NEW r \in Requests, NEW u \in Users, NEW k \in CustomerKeys,
             Begin(r, u, k)
      PROVE  RowInv'
  BY <1>1 DEF Begin, Goto
<1>2. ASSUME NEW u \in Users, NEW k \in CustomerKeys, StartRegistration(u, k)
      PROVE  RowInv'
  BY <1>2 DEF StartRegistration, ExpirePending
<1>3. ASSUME NEW u \in Users, DeleteAccount(u)
      PROVE  RowInv'
  BY <1>3 DEF DeleteAccount
<1>4. ASSUME NEW k \in Lapsing, Lapse(k)
      PROVE  RowInv'
  BY <1>4 DEF Lapse
<1> QED
  BY <1>1, <1>2, <1>3, <1>4 DEF Env

LEMMA WorkOwner ==
  ASSUME TypeOK, CallInv, LockInv, ClaimInv, OwnerInv, NEW r \in Requests,
         Work(r)
  PROVE  OwnerInv'
<1> USE BillingConstants DEF TypeOK, CallInv, OwnerInv, Goto, Reply, dbVars,
        callVars
<1>1. CASE Claim(r) \/ ClaimRefused(r) \/ ClaimFails(r)
  BY <1>1 DEF Claim, ClaimRefused, ClaimFails, Claimable, MarkProcessing
<1>2. CASE SendIssue(r) \/ IssueFails(r) \/ KeyIssued(r) \/ EncryptFails(r)
  BY <1>2 DEF SendIssue, IssueFails, KeyIssued, EncryptFails
<1>3. CASE SaveBegins(r)
  BY <1>3 DEF SaveBegins
<1>4. CASE SaveRefused(r) \/ SaveFails(r) \/ SaveRollsBack(r)
  BY <1>4 DEF SaveRefused, SaveFails, SaveRollsBack
<1>5. CASE SaveCommits(r) \/ SaveCommitLost(r)
  BY <1>5 DEF SaveCommits, SaveCommitLost, SaveEffect, Savable
<1>6. CASE Compensate(r) \/ CompensateFails(r)
  BY <1>6 DEF Compensate, CompensateFails, DeleteBillingKey
<1>7. CASE MarkFailed(r)
  BY <1>7 DEF MarkFailed, FailSession
<1>8. ASSUME NEW m \in Requests, CleanupDeletes(r, m) \/ CleanupFails(r, m)
      PROVE  OwnerInv'
  BY <1>8 DEF CleanupDeletes, CleanupFails, DeleteBillingKey, ReportCleanup
<1>9. CASE Return(r)
  BY <1>9 DEF Return
<1>10. CASE Crash(r)
  BY <1>10 DEF Crash, Working
<1>11. CASE TossIssues(r)
  BY <1>11 DEF TossIssues
<1> QED
  BY <1>1, <1>2, <1>3, <1>4, <1>5, <1>6, <1>7, <1>8, <1>9, <1>10, <1>11
     DEF Work, Step, Fault

LEMMA EnvOwner ==
  ASSUME TypeOK, CallInv, LockInv, ClaimInv, OwnerInv, Env
  PROVE  OwnerInv'
<1> USE BillingConstants DEF TypeOK, CallInv, OwnerInv, dbVars, callVars
<1>1. ASSUME NEW r \in Requests, NEW u \in Users, NEW k \in CustomerKeys,
             Begin(r, u, k)
      PROVE  OwnerInv'
  BY <1>1 DEF Begin, Goto
<1>2. ASSUME NEW u \in Users, NEW k \in CustomerKeys, StartRegistration(u, k)
      PROVE  OwnerInv'
  BY <1>2 DEF StartRegistration, ExpirePending
<1>3. ASSUME NEW u \in Users, DeleteAccount(u)
      PROVE  OwnerInv'
  BY <1>3 DEF DeleteAccount
<1>4. ASSUME NEW k \in Lapsing, Lapse(k)
      PROVE  OwnerInv'
  BY <1>4 DEF Lapse
<1> QED
  BY <1>1, <1>2, <1>3, <1>4 DEF Env

LEMMA WorkSaved ==
  ASSUME TypeOK, CallInv, LockInv, ClaimInv, ProgressInv, OwnerInv, SavedInv,
         NEW r \in Requests, Work(r)
  PROVE  SavedInv'
<1> USE BillingConstants DEF TypeOK, CallInv, LockInv, ClaimInv, Claimed,
        ProgressInv, OwnerInv, SavedInv, Unsaved, Rows, Goto, Reply, dbVars,
        callVars
<1>1. CASE Claim(r) \/ ClaimRefused(r) \/ ClaimFails(r)
  BY <1>1 DEF Claim, ClaimRefused, ClaimFails, Claimable, MarkProcessing
<1>2. CASE SendIssue(r) \/ IssueFails(r) \/ KeyIssued(r) \/ EncryptFails(r)
  BY <1>2 DEF SendIssue, IssueFails, KeyIssued, EncryptFails
<1>3. CASE SaveBegins(r)
  BY <1>3 DEF SaveBegins
<1>4. CASE SaveRefused(r) \/ SaveFails(r) \/ SaveRollsBack(r)
  BY <1>4 DEF SaveRefused, SaveFails, SaveRollsBack
<1>5. CASE SaveCommits(r) \/ SaveCommitLost(r)
  BY <1>5 DEF SaveCommits, SaveCommitLost, SaveEffect, Savable
<1>6. CASE Compensate(r) \/ CompensateFails(r)
  BY <1>6 DEF Compensate, CompensateFails, DeleteBillingKey
<1>7. CASE MarkFailed(r)
  BY <1>7 DEF MarkFailed, FailSession
<1>8. ASSUME NEW m \in Requests, CleanupDeletes(r, m) \/ CleanupFails(r, m)
      PROVE  SavedInv'
  BY <1>8 DEF CleanupDeletes, CleanupFails, DeleteBillingKey, ReportCleanup
<1>9. CASE Return(r)
  BY <1>9 DEF Return
<1>10. CASE Crash(r)
  BY <1>10 DEF Crash, Working
<1>11. CASE TossIssues(r)
  BY <1>11 DEF TossIssues
<1> QED
  BY <1>1, <1>2, <1>3, <1>4, <1>5, <1>6, <1>7, <1>8, <1>9, <1>10, <1>11
     DEF Work, Step, Fault

LEMMA EnvSaved ==
  ASSUME TypeOK, CallInv, LockInv, ClaimInv, ProgressInv, OwnerInv, SavedInv,
         Env
  PROVE  SavedInv'
<1> USE BillingConstants DEF TypeOK, CallInv, LockInv, ClaimInv, Claimed,
        ProgressInv, OwnerInv, SavedInv, Unsaved, Rows, dbVars, callVars
<1>1. ASSUME NEW r \in Requests, NEW u \in Users, NEW k \in CustomerKeys,
             Begin(r, u, k)
      PROVE  SavedInv'
  BY <1>1 DEF Begin, Goto
<1>2. ASSUME NEW u \in Users, NEW k \in CustomerKeys, StartRegistration(u, k)
      PROVE  SavedInv'
  BY <1>2 DEF StartRegistration, ExpirePending
<1>3. ASSUME NEW u \in Users, DeleteAccount(u)
      PROVE  SavedInv'
  BY <1>3 DEF DeleteAccount
<1>4. ASSUME NEW k \in Lapsing, Lapse(k)
      PROVE  SavedInv'
  BY <1>4 DEF Lapse
<1> QED
  BY <1>1, <1>2, <1>3, <1>4 DEF Env

-----------------------------------------------------------------------------
(* What the application sees *)

(* SessionsAgree without the part that RowInv and SavedInv give *)
LEMMA WorkAgree ==
  ASSUME TypeOK, CallInv, LockInv, ProgressInv, NEW r \in Requests, Work(r),
         OnePendingSession, AnswerAgreesWithRows
  PROVE  OnePendingSession' /\ AnswerAgreesWithRows'
<1> USE DEF TypeOK, CallInv, LockInv, ProgressInv, Unsaved, Goto, Reply,
        dbVars, callVars
<1>1. OnePendingSession'
  <2>1. owner' = owner
        /\ \A k \in CustomerKeys : status'[k] = "PENDING" =>
             status[k] = "PENDING"
    <3>1. ASSUME NEW m \in Requests, CleanupDeletes(r, m) \/ CleanupFails(r, m)
          PROVE  owner' = owner /\ status' = status
      BY <3>1 DEF CleanupDeletes, CleanupFails
    <3> QED
      BY <3>1 DEF Work, Step, Fault, Claim, ClaimRefused, ClaimFails,
         MarkProcessing, SendIssue, IssueFails, KeyIssued, EncryptFails,
         SaveBegins, SaveRefused, SaveFails, SaveRollsBack, SaveCommits,
         SaveCommitLost, SaveEffect, Compensate, CompensateFails, MarkFailed,
         FailSession, Return, Crash, TossIssues
  <2> QED
    BY <2>1 DEF OnePendingSession
<1>2. AnswerAgreesWithRows'
  <2> USE DEF AnswerAgreesWithRows
  <2>1. ASSUME NEW m \in Requests, CleanupDeletes(r, m) \/ CleanupFails(r, m)
        PROVE  AnswerAgreesWithRows'
    BY <2>1 DEF CleanupDeletes, CleanupFails
  <2>2. CASE SaveCommits(r) \/ SaveCommitLost(r)
    BY <2>2 DEF SaveCommits, SaveCommitLost, SaveEffect
  <2>3. CASE ClaimRefused(r) \/ IssueFails(r) \/ EncryptFails(r)
               \/ SaveRefused(r) \/ SaveFails(r) \/ SaveRollsBack(r)
    BY <2>3 DEF ClaimRefused, IssueFails, EncryptFails, SaveRefused,
                SaveFails, SaveRollsBack
  <2>4. CASE ClaimFails(r) \/ CompensateFails(r) \/ Return(r)
    BY <2>4 DEF ClaimFails, CompensateFails, Return
  <2>5. CASE UNCHANGED <<method, answer>>
    BY <2>5
  <2> QED
    BY <2>1, <2>2, <2>3, <2>4, <2>5
       DEF Work, Step, Fault, Claim, SendIssue, KeyIssued, SaveBegins,
           Compensate, MarkFailed, Crash, TossIssues
<1> QED
  BY <1>1, <1>2

LEMMA EnvAgree ==
  ASSUME TypeOK, CallInv, ProgressInv, Env,
         OnePendingSession, AnswerAgreesWithRows
  PROVE  OnePendingSession' /\ AnswerAgreesWithRows'
<1> USE DEF TypeOK, CallInv, ProgressInv, Unsaved, dbVars, callVars,
        OnePendingSession, AnswerAgreesWithRows
<1>1. ASSUME NEW r \in Requests, NEW u \in Users, NEW k \in CustomerKeys,
             Begin(r, u, k)
      PROVE  OnePendingSession' /\ AnswerAgreesWithRows'
  BY <1>1 DEF Begin, Goto
<1>2. ASSUME NEW u \in Users, NEW k \in CustomerKeys, StartRegistration(u, k)
      PROVE  OnePendingSession' /\ AnswerAgreesWithRows'
  BY <1>2 DEF StartRegistration, ExpirePending
<1>3. ASSUME NEW u \in Users, DeleteAccount(u)
      PROVE  OnePendingSession' /\ AnswerAgreesWithRows'
  BY <1>3 DEF DeleteAccount, Rows
<1>4. ASSUME NEW k \in Lapsing, Lapse(k)
      PROVE  OnePendingSession' /\ AnswerAgreesWithRows'
  BY <1>4 DEF Lapse
<1> QED
  BY <1>1, <1>2, <1>3, <1>4 DEF Env

(* Deletions at Toss concern a key whose method has been replaced, or one whose
   call has told its client of a failure. *)
LEMMA WorkChargeable ==
  ASSUME TypeOK, CallInv, LockInv, ProgressInv, OldInv, ActiveMethodChargeable,
         NEW r \in Requests, Work(r)
  PROVE  ActiveMethodChargeable'
<1> USE DEF TypeOK, ActiveMethodChargeable, ProgressInv, Unsaved, Goto, Reply,
        dbVars, callVars
<1>1. ASSUME NEW m \in Requests, CleanupDeletes(r, m) \/ CleanupFails(r, m)
      PROVE  ActiveMethodChargeable'
  <2>1. method[m] # "ACTIVE" /\ UNCHANGED <<method, answer>>
        /\ \A s \in Requests : s # m => toss'[s] = toss[s]
    BY <1>1 DEF CleanupDeletes, CleanupFails, DeleteBillingKey, OldInv
  <2> QED
    BY <2>1
<1>2. CASE SaveCommits(r) \/ SaveCommitLost(r)
  BY <1>2 DEF SaveCommits, SaveCommitLost, SaveEffect, LockInv
<1>3. CASE Compensate(r) \/ CompensateFails(r)
  BY <1>3 DEF Compensate, CompensateFails, DeleteBillingKey
<1>4. CASE SendIssue(r) \/ TossIssues(r)
  BY <1>4 DEF SendIssue, TossIssues
<1>5. CASE Return(r)
  BY <1>5 DEF Return
<1>6. CASE UNCHANGED <<method, toss>>
           /\ \/ answer' = answer
              \/ \E a \in {"UserUnavailable", "ExpiredOrUsed", "Provider",
                            "Persistence"} : Reply(r, a)
  BY <1>6
<1> QED
  BY <1>1, <1>2, <1>3, <1>4, <1>5, <1>6
     DEF Work, Step, Fault, Claim, ClaimRefused, ClaimFails, IssueFails,
         KeyIssued, EncryptFails, SaveBegins, SaveRefused, SaveFails,
         SaveRollsBack, MarkFailed, Crash

LEMMA EnvChargeable ==
  ASSUME TypeOK, CallInv, ProgressInv, ActiveMethodChargeable, Env
  PROVE  ActiveMethodChargeable'
<1> USE DEF TypeOK, CallInv, ActiveMethodChargeable, dbVars, callVars
<1>1. ASSUME NEW r \in Requests, NEW u \in Users, NEW k \in CustomerKeys,
             Begin(r, u, k)
      PROVE  ActiveMethodChargeable'
  BY <1>1 DEF Begin
<1>2. ASSUME NEW u \in Users, NEW k \in CustomerKeys, StartRegistration(u, k)
      PROVE  ActiveMethodChargeable'
  BY <1>2 DEF StartRegistration
<1>3. ASSUME NEW u \in Users, DeleteAccount(u)
      PROVE  ActiveMethodChargeable'
  BY <1>3 DEF DeleteAccount
<1>4. ASSUME NEW k \in Lapsing, Lapse(k)
      PROVE  ActiveMethodChargeable'
  BY <1>4 DEF Lapse
<1> QED
  BY <1>1, <1>2, <1>3, <1>4 DEF Env

-----------------------------------------------------------------------------
(* The second inductive invariant, relative to the first *)

SagaInv ==
  /\ ProgressInv /\ OldInv /\ ReplacedInv /\ RowInv /\ OwnerInv /\ SavedInv
  /\ OnePendingSession /\ AnswerAgreesWithRows /\ ActiveMethodChargeable

LEMMA InitSaga == Init => SagaInv
  BY BillingConstants
     DEF Init, SagaInv, ProgressInv, OldInv, ReplacedInv, RowInv, OwnerInv,
         SavedInv, OnePendingSession, AnswerAgreesWithRows, Unsaved, Rows,
         ActiveMethodChargeable

LEMMA StepSaga == IInv /\ SagaInv /\ [Next]_vars => SagaInv'
<1> SUFFICES ASSUME IInv, SagaInv, [Next]_vars PROVE SagaInv'
  OBVIOUS
<1>1. CASE Env
  BY <1>1, EnvProgress, EnvOld, EnvReplaced, EnvRow, EnvOwner, EnvSaved,
     EnvAgree, EnvChargeable DEF IInv, SagaInv
<1>2. ASSUME NEW r \in Requests, Work(r)
      PROVE  SagaInv'
  BY <1>2, WorkProgress, WorkOld, WorkReplaced, WorkRow, WorkOwner, WorkSaved,
     WorkAgree, WorkChargeable DEF IInv, SagaInv
<1>3. CASE UNCHANGED vars
  BY <1>3 DEF vars, dbVars, callVars, SagaInv, ProgressInv, OldInv,
     ReplacedInv, RowInv, OwnerInv, SavedInv, OnePendingSession,
     AnswerAgreesWithRows, ActiveMethodChargeable
<1> QED
  BY <1>1, <1>2, <1>3, NextSplit

LEMMA SagaInvariant == Spec => [](IInv /\ SagaInv)
  BY InitInv, StepInv, InitSaga, StepSaga, PTL DEF Spec

(* The active method of a user can be charged, however clean-ups, failures and
   crashes of other registrations interleave with it. *)
THEOREM ActiveMethodChargeableHolds == Spec => []ActiveMethodChargeable
<1>1. SagaInv => ActiveMethodChargeable
  BY DEF SagaInv
<1> QED
  BY <1>1, SagaInvariant, PTL

(* A session is COMPLETED exactly when its method is stored, at most one
   session of a user is pending, and answers agree with the rows. *)
THEOREM SessionsAgreeHolds == Spec => []SessionsAgree
<1>1. IInv /\ SagaInv => SessionsAgree
  <2> SUFFICES ASSUME IInv, SagaInv PROVE CompletedIffSaved
    BY DEF SagaInv, SessionsAgree
  <2> QED
    BY DEF IInv, SagaInv, RowInv, SavedInv, CompletedIffSaved
<1> QED
  BY <1>1, SagaInvariant, PTL

(* No billing key lives on at Toss without somebody knowing of it, except for
   the failures that LiveKeyAccountedFor names. *)
THEOREM LiveKeyAccountedForHolds == Spec => []LiveKeyAccountedFor
<1>1. IInv /\ SagaInv => LiveKeyAccountedFor
  <2> SUFFICES ASSUME IInv, SagaInv, NEW m \in Requests, toss[m] = "LIVE",
                      pc[m] \notin Working, pc[m] # "crashed",
                      method[m] \notin {"ACTIVE", "DELETED"},
                      answer[m] \notin {"Provider", "Compensation"}
               PROVE  \E r \in Requests : m \in old[r] \cup uncleaned[r]
    BY DEF LiveKeyAccountedFor
  <2>1. pc[m] = "done"
    BY DEF IInv, TypeOK, ClaimInv
  <2>2. answer[m] = "OK"
    BY <2>1 DEF SagaInv, ProgressInv
  <2>3. method[m] = "INACTIVE"
    BY <2>2 DEF SagaInv, AnswerAgreesWithRows, IInv, TypeOK, Rows
  <2> QED
    BY <2>3 DEF SagaInv, ReplacedInv
<1> QED
  BY <1>1, SagaInvariant, PTL

-----------------------------------------------------------------------------
(* Sessions move forward *)

ForwardStep ==
  \A k \in CustomerKeys :
    \/ status'[k] = status[k]
    \/ <<status[k], status'[k]>> \in Forward
    \/ status'[k] = "DELETED" /\ ~userActive'[owner[k]]

LEMMA WorkForward ==
  ASSUME TypeOK, CallInv, LockInv, NEW r \in Requests, Work(r)
  PROVE  ForwardStep
<1> USE DEF TypeOK, CallInv, ForwardStep, Forward, Goto, dbVars
<1>1. CASE Claim(r) \/ ClaimFails(r)
  BY <1>1 DEF Claim, ClaimFails, Claimable, MarkProcessing
<1>2. CASE SaveCommits(r) \/ SaveCommitLost(r)
  BY <1>2 DEF SaveCommits, SaveCommitLost, SaveEffect, Savable
<1>3. CASE MarkFailed(r)
  BY <1>3 DEF MarkFailed, FailSession
<1>4. ASSUME NEW m \in Requests, CleanupDeletes(r, m) \/ CleanupFails(r, m)
      PROVE  status' = status
  BY <1>4 DEF CleanupDeletes, CleanupFails
<1>5. CASE status' = status
  BY <1>5
<1> QED
  BY <1>1, <1>2, <1>3, <1>4, <1>5
     DEF Work, Step, Fault, ClaimRefused, SendIssue, IssueFails, KeyIssued,
         EncryptFails, SaveBegins, SaveRefused, SaveFails, SaveRollsBack,
         Compensate, CompensateFails, Return, Crash, TossIssues

LEMMA EnvForward ==
  ASSUME TypeOK, Env
  PROVE  ForwardStep
<1> USE DEF TypeOK, ForwardStep, Forward, dbVars
<1>1. ASSUME NEW u \in Users, NEW k \in CustomerKeys, StartRegistration(u, k)
      PROVE  ForwardStep
  BY <1>1 DEF StartRegistration, ExpirePending
<1>2. ASSUME NEW u \in Users, DeleteAccount(u)
      PROVE  ForwardStep
  BY <1>2 DEF DeleteAccount
<1> QED
  BY <1>1, <1>2 DEF Env, Begin, Lapse

(* No step takes a registration session back. *)
THEOREM StatusMovesForwardHolds == Spec => StatusMovesForward
<1>1. IInv /\ [Next]_vars => [ForwardStep]_vars
  BY NextSplit, WorkForward, EnvForward DEF IInv
<1> QED
  BY <1>1, Invariant, PTL DEF Spec, StatusMovesForward, ForwardStep

-----------------------------------------------------------------------------
(* The refinement of CardRegistry *)

Redeems(m, k) == presented[m] = k /\ method[m] # "NONE"
Carries(u, m) == caller[m] = u /\ method[m] = "ACTIVE"

(* The choices of the refinement mapping are no choices: there is one candidate
   at most. *)
Determined ==
  /\ \A k \in CustomerKeys :
       /\ \A m \in Requests : Redeems(m, k) => RedeemerOf(k) = m
       /\ (\A m \in Requests : ~Redeems(m, k)) => RedeemerOf(k) = NoRequest
  /\ \A u \in Users :
       /\ \A m \in Requests : Carries(u, m) => CardOf(u) = m
       /\ (\A m \in Requests : ~Carries(u, m)) => CardOf(u) = NoRequest

LEMMA MappingDetermined == IInv /\ SagaInv => Determined
<1> SUFFICES ASSUME IInv, SagaInv PROVE Determined
  OBVIOUS
<1>1. \A k \in CustomerKeys, m1, m2 \in Requests :
        Redeems(m1, k) /\ Redeems(m2, k) => m1 = m2
  BY DEF IInv, ClaimInv, Claimed, SagaInv, ProgressInv, Redeems
<1>2. \A u \in Users, m1, m2 \in Requests :
        Carries(u, m1) /\ Carries(u, m2) => m1 = m2
  BY DEF IInv, OneActiveMethod, Carries
<1>3. ASSUME NEW k \in CustomerKeys
      PROVE  /\ \A m \in Requests : Redeems(m, k) => RedeemerOf(k) = m
             /\ (\A m \in Requests : ~Redeems(m, k)) =>
                  RedeemerOf(k) = NoRequest
  BY <1>1 DEF RedeemerOf, Redeems
<1>4. ASSUME NEW u \in Users
      PROVE  /\ \A m \in Requests : Carries(u, m) => CardOf(u) = m
             /\ (\A m \in Requests : ~Carries(u, m)) => CardOf(u) = NoRequest
  <2>1. \A m \in Requests : m \in ActiveMethods(u) <=> Carries(u, m)
    BY DEF ActiveMethods, Carries
  <2>2. ASSUME NEW m \in Requests, Carries(u, m)
        PROVE  CardOf(u) = m
    BY <2>1, <2>2, <1>2 DEF CardOf
  <2>3. ASSUME \A m \in Requests : ~Carries(u, m)
        PROVE  CardOf(u) = NoRequest
    <3>1. ActiveMethods(u) = {}
      BY <2>3 DEF ActiveMethods, Carries
    <3> QED
      BY <3>1 DEF CardOf
  <2> QED
    BY <2>2, <2>3
<1> QED
  BY <1>3, <1>4 DEF Determined

LEMMA MappingDeterminedNext == IInv' /\ SagaInv' => Determined'
  BY MappingDetermined, PTL

(* Where the candidate stays the same, so does what is chosen. *)
LEMMA RedeemerKept ==
  ASSUME Determined, Determined', NEW k \in CustomerKeys,
         \A m \in Requests : Redeems(m, k)' <=> Redeems(m, k)
  PROVE  RedeemerOf(k)' = RedeemerOf(k)
<1>1. CASE \E m \in Requests : Redeems(m, k)
  BY <1>1 DEF Determined
<1>2. CASE \A m \in Requests : ~Redeems(m, k)
  BY <1>2 DEF Determined
<1> QED
  BY <1>1, <1>2

LEMMA CardKept ==
  ASSUME Determined, Determined', NEW u \in Users,
         \A m \in Requests : Carries(u, m)' <=> Carries(u, m)
  PROVE  CardOf(u)' = CardOf(u)
<1>1. CASE \E m \in Requests : Carries(u, m)
  BY <1>1 DEF Determined
<1>2. CASE \A m \in Requests : ~Carries(u, m)
  BY <1>2 DEF Determined
<1> QED
  BY <1>1, <1>2

(* The mapped state *)
Open      == {u \in Users : userActive[u]}
Cards     == [u \in Users |-> CardOf(u)]
Redeemers == [k \in CustomerKeys |-> RedeemerOf(k)]

Mapped == <<Open, Cards, owner, Redeemers>>

(* A step that moves no owner, user or candidate *)
LEMMA Stutters ==
  ASSUME Determined, Determined', owner' = owner, userActive' = userActive,
         \A m \in Requests :
           /\ \A k \in CustomerKeys : Redeems(m, k)' <=> Redeems(m, k)
           /\ \A u \in Users : Carries(u, m)' <=> Carries(u, m)
  PROVE  Mapped' = Mapped
  BY RedeemerKept, CardKept DEF Mapped, Open, Cards, Redeemers

LEMMA StartIssues ==
  ASSUME IInv, SagaInv, Determined, Determined', NEW u \in Users,
         NEW k \in CustomerKeys, StartRegistration(u, k)
  PROVE  Registry!Issue(u, k)
<1>1. owner[k] = NoUser /\ userActive[u] /\ owner' = [owner EXCEPT ![k] = u]
  BY DEF StartRegistration, SagaInv, OwnerInv
<1>2. UNCHANGED <<userActive, method, caller, presented>>
  BY DEF StartRegistration, callVars
<1>3. Cards' = Cards /\ Redeemers' = Redeemers
  BY <1>2, RedeemerKept, CardKept DEF Cards, Redeemers, Redeems, Carries
<1> QED
  BY <1>1, <1>2, <1>3 DEF Registry!Issue, Cards, Redeemers

LEMMA DeletionCloses ==
  ASSUME IInv, SagaInv, Determined, Determined', NEW u \in Users,
         DeleteAccount(u)
  PROVE  Registry!Close(u)
<1>1. /\ userActive[u] /\ userActive' = [userActive EXCEPT ![u] = FALSE]
      /\ UNCHANGED <<owner, caller, presented>>
      /\ method' = [m \in Requests |->
                      IF caller[m] = u /\ method[m] \in Rows THEN "DELETED"
                      ELSE method[m]]
  BY DEF DeleteAccount, callVars
<1>2. Redeemers' = Redeemers
  <2>1. \A m \in Requests : method'[m] # "NONE" <=> method[m] # "NONE"
    BY <1>1 DEF Rows
  <2>2. \A k \in CustomerKeys, m \in Requests :
          Redeems(m, k)' <=> Redeems(m, k)
    BY <1>1, <2>1 DEF Redeems
  <2> QED
    BY <2>2, RedeemerKept DEF Redeemers
<1>3. Cards' = [Cards EXCEPT ![u] = NoRequest]
  <2>1. \A m \in Requests : ~Carries(u, m)'
    BY <1>1 DEF Carries, Rows
  <2>2. CardOf(u)' = NoRequest
    BY <2>1 DEF Determined
  <2>3. \A v \in Users \ {u}, m \in Requests : Carries(v, m)' <=> Carries(v, m)
    BY <1>1 DEF Carries
  <2>4. \A v \in Users \ {u} : CardOf(v)' = CardOf(v)
    BY <2>3, CardKept
  <2> QED
    BY <2>2, <2>4 DEF Cards
<1>4. Open' = Open \ {u} /\ u \in Open
  BY <1>1 DEF Open, IInv, TypeOK
<1> QED
  BY <1>1, <1>2, <1>3, <1>4 DEF Registry!Close, Cards, Redeemers, Open

LEMMA SaveRedeems ==
  ASSUME IInv, SagaInv, Determined, Determined', NEW r \in Requests,
         SaveCommits(r) \/ SaveCommitLost(r)
  PROVE  Registry!Redeem(r, caller[r], presented[r])
<1> DEFINE u == caller[r]
           k == presented[r]
<1>1. /\ pc[r] = "saving" /\ UNCHANGED <<owner, userActive, caller, presented>>
      /\ Savable(r)
      /\ method' = [m \in Requests |-> IF m = r THEN "ACTIVE"
                                       ELSE IF m \in old[r] THEN "INACTIVE"
                                       ELSE method[m]]
  BY DEF SaveCommits, SaveCommitLost, SaveEffect, Goto, callVars
<1>2. u \in Users /\ k \in CustomerKeys
  BY <1>1 DEF IInv, CallInv
<1>3. toss[r] = "LIVE" /\ method[r] = "NONE"
  BY <1>1 DEF SagaInv, ProgressInv, Unsaved
<1>4. /\ owner[k] = u /\ userActive[u]
      /\ \A s \in Requests : Redeems(s, k) => s = r
  BY <1>1, <1>3 DEF IInv, ClaimInv, Claimed, LockInv, Redeems, SagaInv,
                    ProgressInv
<1>5. \A m \in old[r] : method[m] = "ACTIVE" /\ caller[m] = u
  BY <1>1 DEF IInv, LockInv, TypeOK
<1>6. Redeemers[k] = NoRequest
  <2>1. \A s \in Requests : ~Redeems(s, k)
    BY <1>3, <1>4 DEF Redeems
  <2> QED
    BY <2>1, <1>2 DEF Determined, Redeemers
<1>7. \A j \in CustomerKeys : Redeemers[j] # r
  <2> SUFFICES ASSUME NEW j \in CustomerKeys PROVE RedeemerOf(j) # r
    BY DEF Redeemers
  <2>1. CASE \E m \in Requests : Redeems(m, j)
    BY <2>1, <1>3 DEF Determined, Redeems
  <2>2. CASE \A m \in Requests : ~Redeems(m, j)
    BY <2>2, BillingConstants DEF Determined
  <2> QED
    BY <2>1, <2>2
<1>8. Redeemers' = [Redeemers EXCEPT ![k] = r]
  <2>1. Redeems(r, k)'
    BY <1>1 DEF Redeems
  <2>2. RedeemerOf(k)' = r
    BY <2>1, <1>2, <1>1 DEF Determined
  <2>3. \A j \in CustomerKeys \ {k}, m \in Requests :
          Redeems(m, j)' <=> Redeems(m, j)
    BY <1>1, <1>5 DEF Redeems
  <2>4. \A j \in CustomerKeys \ {k} : RedeemerOf(j)' = RedeemerOf(j)
    BY <2>3, RedeemerKept
  <2> QED
    BY <1>1, <1>2, <2>2, <2>4 DEF Redeemers
<1>9. Cards' = [Cards EXCEPT ![u] = r]
  <2>1. Carries(u, r)'
    BY <1>1 DEF Carries
  <2>2. CardOf(u)' = r
    BY <2>1, <1>2, <1>1 DEF Determined
  <2>3. \A v \in Users \ {u}, m \in Requests : Carries(v, m)' <=> Carries(v, m)
    BY <1>1, <1>5 DEF Carries
  <2>4. \A v \in Users \ {u} : CardOf(v)' = CardOf(v)
    BY <2>3, CardKept
  <2> QED
    BY <1>1, <1>2, <2>2, <2>4 DEF Cards
<1> QED
  BY <1>1, <1>2, <1>4, <1>6, <1>7, <1>8, <1>9
     DEF Registry!Redeem, Cards, Redeemers

LEMMA StepImplements ==
  ASSUME IInv, SagaInv, Determined, Determined', [Next]_vars
  PROVE  [Registry!Next]_Mapped
<1>1. ASSUME NEW r \in Requests, Work(r),
             ~(SaveCommits(r) \/ SaveCommitLost(r))
      PROVE  Mapped' = Mapped
  <2>1. UNCHANGED <<owner, userActive, method, caller, presented>>
    <3>1. ASSUME NEW m \in Requests, CleanupDeletes(r, m) \/ CleanupFails(r, m)
          PROVE  UNCHANGED <<owner, userActive, method, caller, presented>>
      BY <3>1 DEF CleanupDeletes, CleanupFails, dbVars, callVars
    <3> QED
      BY <1>1, <3>1
         DEF Work, Step, Fault, Claim, ClaimRefused, ClaimFails, SendIssue,
             IssueFails, KeyIssued, EncryptFails, SaveBegins, SaveRefused,
             SaveFails, SaveRollsBack, Compensate, CompensateFails,
             MarkFailed, Return, Crash, TossIssues, dbVars, callVars
  <2> QED
    BY <2>1, Stutters DEF Redeems, Carries
<1>2. ASSUME NEW r \in Requests, NEW u \in Users, NEW k \in CustomerKeys,
             Begin(r, u, k)
      PROVE  Mapped' = Mapped
  <2>1. /\ UNCHANGED <<owner, userActive, method>> /\ method[r] = "NONE"
        /\ \A m \in Requests \ {r} :
             caller'[m] = caller[m] /\ presented'[m] = presented[m]
    BY <1>2 DEF Begin, Goto, dbVars, IInv, CallInv, TypeOK
  <2> QED
    BY <2>1, Stutters DEF Redeems, Carries
<1>3. ASSUME NEW k \in Lapsing, Lapse(k)
      PROVE  Mapped' = Mapped
  <2>1. UNCHANGED <<owner, userActive, method, caller, presented>>
    BY <1>3 DEF Lapse, dbVars, callVars
  <2> QED
    BY <2>1, Stutters DEF Redeems, Carries
<1>4. CASE UNCHANGED vars
  <2>1. UNCHANGED <<owner, userActive, method, caller, presented>>
    BY <1>4 DEF vars, dbVars, callVars
  <2> QED
    BY <2>1, Stutters DEF Redeems, Carries
<1>5. ASSUME NEW r \in Requests, SaveCommits(r) \/ SaveCommitLost(r)
      PROVE  Registry!Next
  <2>1. caller[r] \in Users /\ presented[r] \in CustomerKeys
    BY <1>5 DEF SaveCommits, SaveCommitLost, Goto, IInv, CallInv
  <2> QED
    BY <2>1, <1>5, SaveRedeems DEF Registry!Next
<1>6. ASSUME NEW u \in Users, NEW k \in CustomerKeys, StartRegistration(u, k)
      PROVE  Registry!Next
  BY <1>6, StartIssues DEF Registry!Next
<1>7. ASSUME NEW u \in Users, DeleteAccount(u)
      PROVE  Registry!Next
  BY <1>7, DeletionCloses DEF Registry!Next
<1> QED
  BY <1>1, <1>2, <1>3, <1>4, <1>5, <1>6, <1>7, NextSplit DEF Env

LEMMA InitImplements == Init => Registry!Init
<1> SUFFICES ASSUME Init PROVE Registry!Init
  OBVIOUS
<1>1. \A u \in Users : ActiveMethods(u) = {}
  BY DEF Init, ActiveMethods
<1> QED
  BY <1>1 DEF Init, Registry!Init, CardOf, RedeemerOf

(* Whatever the calls, their failures and crashes do, card registration behaves
   like a CardRegistry: one card per user, a customer key redeemed once and by
   the user it was issued to, nothing else touching a card. *)
THEOREM RegistryImplemented == Spec => ImplementsRegistry
<1>1. IInv /\ SagaInv /\ IInv' /\ SagaInv' /\ [Next]_vars =>
        [Registry!Next]_(Registry!regVars)
  <2>1. Mapped' = Mapped => UNCHANGED Registry!regVars
    BY DEF Mapped, Open, Cards, Redeemers, Registry!regVars
  <2> QED
    BY <2>1, StepImplements, MappingDetermined, MappingDeterminedNext
<1> QED
  BY <1>1, InitImplements, SagaInvariant, PTL
     DEF Spec, ImplementsRegistry, Registry!Spec
=============================================================================
