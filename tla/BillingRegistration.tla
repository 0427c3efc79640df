------------------------- MODULE BillingRegistration -------------------------
(***************************************************************************)
(* Card registration (app/services/billing_service.py).                    *)
(*                                                                         *)
(* A client starts a registration and receives a fresh customer key; after *)
(* the card window it completes the registration.  A completion is a saga: *)
(*   1. a transaction claims the registration session,                     *)
(*   2. a remote call makes Toss issue a billing key,                      *)
(*   3. a transaction replaces the user's active billing method,           *)
(*   4. remote calls delete the billing keys that were replaced, or, when  *)
(*      3 failed, the new key, after which the session is marked FAILED.   *)
(* Requests run concurrently, a worker may die between any two steps, any  *)
(* transaction and any remote call may fail, and the answer to a commit or *)
(* to a remote call may be lost although it took effect.                   *)
(*                                                                         *)
(* A completion issues at most one billing key and inserts at most one     *)
(* billing_methods row, so both carry the name of the request.             *)
(***************************************************************************)
EXTENDS FiniteSets

CONSTANTS
  Users,          (* users rows                                            *)
  CustomerKeys,   (* the uuid4 customer keys, one per registration session *)
  Requests,       (* calls of complete_registration                        *)
  Lapsing,        (* bound: the customer keys whose 15 minutes may pass    *)
  NoUser, NoKey, NoRequest

ASSUME BillingConstants ==
  /\ Lapsing \subseteq CustomerKeys
  /\ NoUser \notin Users
  /\ NoKey \notin CustomerKeys
  /\ NoRequest \notin Requests

VARIABLES
  (* the database *)
  userActive,  (* users.status = 'ACTIVE'; FALSE once the row is deleted   *)
  userLock,    (* who holds the users row FOR UPDATE across two steps      *)
  owner,       (* billing_registration_sessions.user_id                    *)
  status,      (* billing_registration_sessions.status                     *)
  method,      (* the billing_methods row inserted by each request         *)
  (* Toss *)
  toss,        (* the billing key issued for each request                  *)
  (* the clock: has expires_at of the session passed? *)
  lapsed,
  (* local state of complete_registration *)
  pc, caller, presented,
  inTime,      (* expires_at > now, for the now read before the claim      *)
  old,         (* old_billing_methods                                      *)
  uncleaned,   (* old methods whose deletion raised: cleanup_required      *)
  answer       (* what the call returns or raises                          *)

dbVars   == <<userActive, userLock, owner, status, method>>
callVars == <<caller, presented, inTime>>
vars     == <<dbVars, toss, lapsed, pc, callVars, old, uncleaned, answer>>

Statuses   == {"PENDING", "PROCESSING", "COMPLETED", "EXPIRED", "FAILED"}
Rows       == {"ACTIVE", "INACTIVE"}
Working    == {"claim", "issue", "waiting", "save", "saving",
               "compensate", "markFailed", "cleanup"}
Answers    == {"none", "OK", "UserUnavailable", "ExpiredOrUsed", "Provider",
               "Persistence", "Compensation"}

TypeOK ==
  /\ userActive \in [Users -> BOOLEAN]
  /\ userLock \in [Users -> Requests \cup {NoRequest}]
  /\ owner \in [CustomerKeys -> Users \cup {NoUser}]
  /\ status \in [CustomerKeys -> Statuses \cup {"NONE", "DELETED"}]
  /\ method \in [Requests -> Rows \cup {"NONE", "DELETED"}]
  /\ toss \in [Requests -> {"NONE", "REQUESTED", "LIVE", "DELETED"}]
  /\ lapsed \in [CustomerKeys -> BOOLEAN]
  /\ pc \in [Requests -> Working \cup {"idle", "done", "crashed"}]
  /\ caller \in [Requests -> Users \cup {NoUser}]
  /\ presented \in [Requests -> CustomerKeys \cup {NoKey}]
  /\ inTime \in [Requests -> BOOLEAN]
  /\ old \in [Requests -> SUBSET Requests]
  /\ uncleaned \in [Requests -> SUBSET Requests]
  /\ answer \in [Requests -> Answers]

Init ==
  /\ userActive = [u \in Users |-> TRUE]
  /\ userLock = [u \in Users |-> NoRequest]
  /\ owner = [k \in CustomerKeys |-> NoUser]
  /\ status = [k \in CustomerKeys |-> "NONE"]
  /\ method = [r \in Requests |-> "NONE"]
  /\ toss = [r \in Requests |-> "NONE"]
  /\ lapsed = [k \in CustomerKeys |-> FALSE]
  /\ pc = [r \in Requests |-> "idle"]
  /\ caller = [r \in Requests |-> NoUser]
  /\ presented = [r \in Requests |-> NoKey]
  /\ inTime = [r \in Requests |-> FALSE]
  /\ old = [r \in Requests |-> {}]
  /\ uncleaned = [r \in Requests |-> {}]
  /\ answer = [r \in Requests |-> "none"]

-----------------------------------------------------------------------------
(* Helpers *)

Goto(r, from, to) == pc[r] = from /\ pc' = [pc EXCEPT ![r] = to]

Reply(r, a) == answer' = [answer EXCEPT ![r] = a]

(* mutant: the SELECT without FOR UPDATE *)
LockFreeNoForUpdate(u) == TRUE

(* SELECT ... FROM users WHERE status = 'ACTIVE' FOR UPDATE gets past any
   other transaction on the row only once that one has ended. *)
LockFree(u) == userLock[u] = NoRequest

(* mutant: the lock outlives the transaction *)
UnlockNever(r) == UNCHANGED userLock

Unlock(r) == userLock' = [userLock EXCEPT ![caller[r]] = NoRequest]

ActiveMethods(u) == {m \in Requests : caller[m] = u /\ method[m] = "ACTIVE"}

-----------------------------------------------------------------------------
(* start_registration: one transaction under the lock on the user. *)

(* mutant: sessions at work are expired as well *)
ExpireAtWork(u) ==
  [k \in CustomerKeys |->
     IF owner[k] = u /\ status[k] \in {"PENDING", "PROCESSING"} THEN "EXPIRED"
     ELSE status[k]]

ExpirePending(u) ==
  [k \in CustomerKeys |->
     IF owner[k] = u /\ status[k] = "PENDING" THEN "EXPIRED" ELSE status[k]]

StartRegistration(u, k) ==
  /\ userActive[u] /\ LockFree(u)
  /\ status[k] = "NONE"
  /\ owner' = [owner EXCEPT ![k] = u]
  /\ status' = [ExpirePending(u) EXCEPT ![k] = "PENDING"]
  /\ UNCHANGED <<userActive, userLock, method, toss, lapsed, pc, callVars,
                 old, uncleaned, answer>>

-----------------------------------------------------------------------------
(* complete_registration *)

(* The route has authenticated the caller; now is read before the lock on the
   user is requested, so inTime may be out of date when the claim runs. *)
Begin(r, u, k) ==
  /\ userActive[u]
  /\ status[k] # "NONE"
  /\ Goto(r, "idle", "claim")
  /\ caller' = [caller EXCEPT ![r] = u]
  /\ presented' = [presented EXCEPT ![r] = k]
  /\ inTime' = [inTime EXCEPT ![r] = ~lapsed[k]]
  /\ UNCHANGED <<dbVars, toss, lapsed, old, uncleaned, answer>>

(* mutants: the UPDATE without its test of status, without that of user_id *)
ClaimableAgain(r) == owner[presented[r]] = caller[r] /\ inTime[r]

ClaimableByAnyone(r) == status[presented[r]] = "PENDING" /\ inTime[r]

Claimable(r) ==
  /\ owner[presented[r]] = caller[r]
  /\ status[presented[r]] = "PENDING"
  /\ inTime[r]

(* mutant: a status outside ck_billing_registration_sessions_status *)
MarkProcessingTypo(r) == status' = [status EXCEPT ![presented[r]] = "CLAIMED"]

MarkProcessing(r) == status' = [status EXCEPT ![presented[r]] = "PROCESSING"]

(* _claim_registration_session commits. *)
Claim(r) ==
  /\ Goto(r, "claim", "issue")
  /\ LockFree(caller[r])
  /\ userActive[caller[r]]
  /\ Claimable(r)
  /\ MarkProcessing(r)
  /\ UNCHANGED <<userActive, userLock, owner, method, toss, lapsed, callVars,
                 old, uncleaned, answer>>

(* The user is gone, or the UPDATE ... RETURNING found no session. *)
ClaimRefused(r) ==
  /\ Goto(r, "claim", "done")
  /\ LockFree(caller[r])
  /\ \/ ~userActive[caller[r]] /\ Reply(r, "UserUnavailable")
     \/ userActive[caller[r]] /\ ~Claimable(r) /\ Reply(r, "ExpiredOrUsed")
  /\ UNCHANGED <<dbVars, toss, lapsed, callVars, old, uncleaned>>

(* The transaction raises; its commit may have taken effect all the same. *)
ClaimFails(r) ==
  /\ Goto(r, "claim", "done")
  /\ Reply(r, "Persistence")
  /\ \/ UNCHANGED status
     \/ /\ LockFree(caller[r]) /\ userActive[caller[r]]
        /\ Claimable(r) /\ MarkProcessing(r)
  /\ UNCHANGED <<userActive, userLock, owner, method, toss, lapsed, callVars,
                 old, uncleaned>>

(* issue_billing_key sends its POST. *)
SendIssue(r) ==
  /\ Goto(r, "issue", "waiting")
  /\ toss' = [toss EXCEPT ![r] = "REQUESTED"]
  /\ UNCHANGED <<dbVars, lapsed, callVars, old, uncleaned, answer>>

(* Toss acts on the POST, possibly after the client has given up on it. *)
TossIssues(r) ==
  /\ toss[r] = "REQUESTED"
  /\ toss' = [toss EXCEPT ![r] = "LIVE"]
  /\ UNCHANGED <<dbVars, lapsed, pc, callVars, old, uncleaned, answer>>

(* PROVIDER_ERRORS: invalid input or configuration before the POST, an error
   status, an unusable body, a timeout or a broken connection after it. *)
IssueFails(r) ==
  /\ \/ Goto(r, "issue", "markFailed")
     \/ Goto(r, "waiting", "markFailed")
  /\ Reply(r, "Provider")
  /\ UNCHANGED <<dbVars, toss, lapsed, callVars, old, uncleaned>>

(* The key arrives and is encrypted. *)
KeyIssued(r) ==
  /\ toss[r] = "LIVE"
  /\ Goto(r, "waiting", "save")
  /\ UNCHANGED <<dbVars, toss, lapsed, callVars, old, uncleaned, answer>>

(* ENCRYPTION_ERRORS *)
EncryptFails(r) ==
  /\ toss[r] = "LIVE"
  /\ Goto(r, "waiting", "compensate")
  /\ Reply(r, "Persistence")
  /\ UNCHANGED <<dbVars, toss, lapsed, callVars, old, uncleaned>>

(* mutant: the list is read after the new method has been added *)
ReplacedAfterInsert(r) == ActiveMethods(caller[r]) \cup {r}

Replaced(r) == ActiveMethods(caller[r])

(* The save transaction takes the lock, lists the active methods and
   deactivates them; nobody sees the deactivation before the commit. *)
SaveBegins(r) ==
  /\ Goto(r, "save", "saving")
  /\ LockFree(caller[r])
  /\ userActive[caller[r]]
  /\ userLock' = [userLock EXCEPT ![caller[r]] = r]
  /\ old' = [old EXCEPT ![r] = Replaced(r)]
  /\ UNCHANGED <<userActive, owner, status, method, toss, lapsed, callVars,
                 uncleaned, answer>>

(* The user has been deleted since the claim. *)
SaveRefused(r) ==
  /\ Goto(r, "save", "compensate")
  /\ LockFree(caller[r])
  /\ ~userActive[caller[r]]
  /\ Reply(r, "UserUnavailable")
  /\ UNCHANGED <<dbVars, toss, lapsed, callVars, old, uncleaned>>

(* The connection or the SELECT fails before the user has been locked. *)
SaveFails(r) ==
  /\ Goto(r, "save", "compensate")
  /\ Reply(r, "Persistence")
  /\ UNCHANGED <<dbVars, toss, lapsed, callVars, old, uncleaned>>

(* billing_methods.customer_key is UNIQUE; the session must still be ours. *)
Savable(r) ==
  /\ status[presented[r]] = "PROCESSING"
  /\ \A m \in Requests : presented[m] = presented[r] => method[m] \notin Rows

(* What the commit of the save transaction does to the database. *)
SaveEffect(r) ==
  /\ Savable(r)
  /\ method' = [m \in Requests |-> IF m = r THEN "ACTIVE"
                                   ELSE IF m \in old[r] THEN "INACTIVE"
                                   ELSE method[m]]
  /\ status' = [status EXCEPT ![presented[r]] = "COMPLETED"]
  /\ Unlock(r)
  /\ UNCHANGED <<userActive, owner>>

SaveCommits(r) ==
  /\ Goto(r, "saving", "cleanup")
  /\ SaveEffect(r)
  /\ UNCHANGED <<toss, lapsed, callVars, old, uncleaned, answer>>

(* commit() raises although the server has committed.  old keeps what was
   replaced, but no code looks at it any more. *)
SaveCommitLost(r) ==
  /\ Goto(r, "saving", "compensate")
  /\ SaveEffect(r)
  /\ Reply(r, "Persistence")
  /\ UNCHANGED <<toss, lapsed, callVars, old, uncleaned>>

(* A statement or the commit raises, and the transaction is rolled back. *)
SaveRollsBack(r) ==
  /\ Goto(r, "saving", "compensate")
  /\ Unlock(r)
  /\ old' = [old EXCEPT ![r] = {}]
  /\ Reply(r, "Persistence")
  /\ UNCHANGED <<userActive, owner, status, method, toss, lapsed, callVars,
                 uncleaned>>

(* delete_billing_key takes effect: Toss answers 200 for a key it knows. *)
DeleteBillingKey(m) ==
  toss[m] = "LIVE" /\ toss' = [toss EXCEPT ![m] = "DELETED"]

(* _raise_after_compensation: delete_billing_key on the new key. *)
Compensate(r) ==
  /\ Goto(r, "compensate", "markFailed")
  /\ DeleteBillingKey(r)
  /\ UNCHANGED <<dbVars, lapsed, callVars, old, uncleaned, answer>>

(* delete_billing_key raises; Toss may have deleted the key all the same. *)
CompensateFails(r) ==
  /\ Goto(r, "compensate", "markFailed")
  /\ DeleteBillingKey(r) \/ UNCHANGED toss
  /\ Reply(r, "Compensation")
  /\ UNCHANGED <<dbVars, lapsed, callVars, old, uncleaned>>

(* mutant: fail_registration_session without its test of status *)
FailSessionAlways(k) ==
  status[k] # "DELETED" /\ status' = [status EXCEPT ![k] = "FAILED"]

FailSession(k) ==
  status[k] = "PROCESSING" /\ status' = [status EXCEPT ![k] = "FAILED"]

(* _mark_registration_failed: PROCESSING becomes FAILED, any other status is
   left alone and every error is swallowed. *)
MarkFailed(r) ==
  /\ Goto(r, "markFailed", "done")
  /\ FailSession(presented[r]) \/ UNCHANGED status
  /\ UNCHANGED <<userActive, userLock, owner, method, toss, lapsed, callVars,
                 old, uncleaned, answer>>

(* mutant: a failed deletion is not reported *)
ReportCleanupSilently(r, m) == UNCHANGED uncleaned

ReportCleanup(r, m) == uncleaned' = [uncleaned EXCEPT ![r] = @ \cup {m}]

(* _cleanup_old_billing_keys, one iteration: the key is deleted, *)
CleanupDeletes(r, m) ==
  /\ pc[r] = "cleanup" /\ m \in old[r]
  /\ DeleteBillingKey(m)
  /\ old' = [old EXCEPT ![r] = @ \ {m}]
  /\ UNCHANGED <<dbVars, lapsed, pc, callVars, uncleaned, answer>>

(* or decrypting or deleting it raises, with or without effect at Toss. *)
CleanupFails(r, m) ==
  /\ pc[r] = "cleanup" /\ m \in old[r]
  /\ DeleteBillingKey(m) \/ UNCHANGED toss
  /\ old' = [old EXCEPT ![r] = @ \ {m}]
  /\ ReportCleanup(r, m)
  /\ UNCHANGED <<dbVars, lapsed, pc, callVars, answer>>

(* The call returns, with cleanup_required = (uncleaned[r] # {}). *)
Return(r) ==
  /\ Goto(r, "cleanup", "done")
  /\ old[r] = {}
  /\ Reply(r, "OK")
  /\ UNCHANGED <<dbVars, toss, lapsed, callVars, old, uncleaned>>

-----------------------------------------------------------------------------
(* The environment *)

(* The worker dies, or an error that no handler names escapes: an open
   transaction is rolled back and nothing resumes the call. *)
Crash(r) ==
  /\ pc[r] \in Working
  /\ pc' = [pc EXCEPT ![r] = "crashed"]
  /\ IF pc[r] = "saving"
     THEN Unlock(r) /\ old' = [old EXCEPT ![r] = {}]
     ELSE UNCHANGED <<userLock, old>>
  /\ UNCHANGED <<userActive, owner, status, method, toss, lapsed, callVars,
                 uncleaned, answer>>

(* AuthService.delete_account takes the same lock; the foreign keys cascade to
   sessions and methods.  Nothing is deleted at Toss. *)
DeleteAccount(u) ==
  /\ userActive[u] /\ LockFree(u)
  /\ userActive' = [userActive EXCEPT ![u] = FALSE]
  /\ status' = [k \in CustomerKeys |->
                  IF owner[k] = u THEN "DELETED" ELSE status[k]]
  /\ method' = [m \in Requests |->
                  IF caller[m] = u /\ method[m] \in Rows THEN "DELETED"
                  ELSE method[m]]
  /\ UNCHANGED <<userLock, owner, toss, lapsed, pc, callVars, old, uncleaned,
                 answer>>

(* 15 minutes pass; what the clock says matters to PENDING sessions only. *)
Lapse(k) ==
  /\ status[k] = "PENDING" /\ ~lapsed[k]
  /\ lapsed' = [lapsed EXCEPT ![k] = TRUE]
  /\ UNCHANGED <<dbVars, toss, pc, callVars, old, uncleaned, answer>>

-----------------------------------------------------------------------------
(* The next-state relation *)

Step(r) ==
  \/ Claim(r) \/ ClaimRefused(r) \/ SaveBegins(r) \/ SaveRefused(r)
  \/ SendIssue(r) \/ IssueFails(r) \/ KeyIssued(r) \/ EncryptFails(r)
  \/ SaveCommits(r) \/ SaveCommitLost(r) \/ SaveRollsBack(r)
  \/ Compensate(r) \/ CompensateFails(r) \/ MarkFailed(r)
  \/ \E m \in Requests : CleanupDeletes(r, m) \/ CleanupFails(r, m)
  \/ Return(r)

(* What may end a wait for the lock, but nothing says that it must: the engine
   has no lock_timeout. *)
Fault(r) == ClaimFails(r) \/ SaveFails(r)

(* No call is at work: nothing has to happen. *)
Quiescent ==
  /\ \A r \in Requests : pc[r] \notin Working
  /\ UNCHANGED vars

Next ==
  \/ \E r \in Requests : Step(r) \/ Fault(r) \/ Crash(r) \/ TossIssues(r)
  \/ \E r \in Requests, u \in Users, k \in CustomerKeys : Begin(r, u, k)
  \/ \E u \in Users, k \in CustomerKeys : StartRegistration(u, k)
  \/ \E u \in Users : DeleteAccount(u)
  \/ \E k \in Lapsing : Lapse(k)
  \/ Quiescent

Spec == Init /\ [][Next]_vars

(* As long as a call can go on, some call does: a worker that does not die
   keeps executing, the requests to Toss time out, and the database grants a
   lock that is free.  No call takes infinitely many steps, so that this is
   enough for each of them. *)
Fairness == WF_vars(\E r \in Requests : pc[r] \in Working /\ Step(r))

FairSpec == Spec /\ Fairness

-----------------------------------------------------------------------------
(* Properties *)

(* A user never has two active billing methods, however many completions of
   the user overlap (list, deactivate and insert in one transaction). *)
OneActiveMethod ==
  \A m1, m2 \in Requests :
    /\ method[m1] = "ACTIVE" /\ method[m2] = "ACTIVE"
    /\ caller[m1] = caller[m2]
    => m1 = m2

(* A user has at most one registration that can still be claimed: starting a
   registration expires those started before. *)
OnePendingSession ==
  \A k1, k2 \in CustomerKeys :
    /\ status[k1] = "PENDING" /\ status[k2] = "PENDING"
    /\ owner[k1] = owner[k2]
    => k1 = k2

(* A customer key makes Toss issue at most one billing key, and only to the
   user who started that registration, however often it is presented. *)
IssuedOncePerCustomerKey ==
  \A r \in Requests : toss[r] # "NONE" =>
    /\ owner[presented[r]] = caller[r]
    /\ \A s \in Requests :
         toss[s] # "NONE" /\ presented[s] = presented[r] => s = r

(* The active method can be charged: nobody deletes its billing key, neither
   the clean-up of another registration nor a compensation, except that of a
   registration which was told that its own commit had failed. *)
ActiveMethodChargeable ==
  \A m \in Requests :
    method[m] = "ACTIVE" /\ answer[m] \in {"none", "OK"} => toss[m] = "LIVE"

(* No billing key lives on at Toss unnoticed: it belongs to the active method
   or to a call at work, or some call is still to delete it or has reported
   that it could not, or a failure lies behind it that the code has no way to
   see through: a call that died, an unknown outcome of a request to Toss or
   of a commit, an account deleted since. *)
LiveKeyAccountedFor ==
  \A m \in Requests : toss[m] = "LIVE" =>
    \/ method[m] = "ACTIVE"
    \/ pc[m] \in Working
    \/ \E r \in Requests : m \in old[r] \cup uncleaned[r]
    \/ pc[m] = "crashed" \/ answer[m] \in {"Provider", "Compensation"}
    \/ method[m] = "DELETED"

(* A session is COMPLETED exactly when the billing method it was meant for is
   stored, for the same user and under the same customer key. *)
CompletedIffSaved ==
  \A k \in CustomerKeys :
    status[k] = "COMPLETED" <=>
      \E m \in Requests : /\ presented[m] = k /\ method[m] \in Rows
                          /\ caller[m] = owner[k]

(* What the caller was told agrees with the database: a success is stored, and
   an error that comes before the commit leaves no row behind. *)
AnswerAgreesWithRows ==
  \A r \in Requests :
    /\ answer[r] = "OK" => method[r] # "NONE"
    /\ answer[r] \in {"UserUnavailable", "ExpiredOrUsed", "Provider"}
         => method[r] = "NONE"

(* Sessions, methods and answers agree: the three above together. *)
SessionsAgree == OnePendingSession /\ CompletedIffSaved /\ AnswerAgreesWithRows

(* A session only moves forward: from PENDING to PROCESSING or EXPIRED, from
   PROCESSING to COMPLETED or FAILED, and nowhere from there. *)
Forward ==
  {<<"NONE", "PENDING">>, <<"PENDING", "PROCESSING">>, <<"PENDING", "EXPIRED">>,
   <<"PROCESSING", "COMPLETED">>, <<"PROCESSING", "FAILED">>}

StatusMovesForward ==
  [][\A k \in CustomerKeys :
       \/ status'[k] = status[k]
       \/ <<status[k], status'[k]>> \in Forward
       \/ status'[k] = "DELETED" /\ ~userActive'[owner[k]]]_vars

(* Card registration is a CardRegistry: the card of a user is the request that
   stored the active method, a customer key is redeemed when that request
   commits. *)
CardOf(u) ==
  IF ActiveMethods(u) = {} THEN NoRequest
  ELSE CHOOSE m \in Requests : m \in ActiveMethods(u)

RedeemerOf(k) ==
  IF \E m \in Requests : presented[m] = k /\ method[m] # "NONE"
  THEN CHOOSE m \in Requests : presented[m] = k /\ method[m] # "NONE"
  ELSE NoRequest

Registry == INSTANCE CardRegistry WITH
  open <- {u \in Users : userActive[u]},
  card <- [u \in Users |-> CardOf(u)],
  issuedTo <- owner,
  redeemedBy <- [k \in CustomerKeys |-> RedeemerOf(k)]

ImplementsRegistry == Registry!Spec

(* Every completion that was begun is answered unless its worker dies: no call
   waits for ever for the lock on the user. *)
EveryCallAnswered == <>[](\A r \in Requests : pc[r] \notin Working)
=============================================================================
