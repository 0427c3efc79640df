--------------------------- MODULE RefreshSessions ---------------------------
(***************************************************************************)
(* Refresh-token sessions of end users: login, refresh, logout and         *)
(* delete_account of app/services/auth_service.py, as concurrent           *)
(* transactions of PostgreSQL at READ COMMITTED, the engine's default.     *)
(*                                                                         *)
(* A login opens a token family; each refresh rotates the presented token  *)
(* and adds the next one to the family; presenting a token that has been   *)
(* rotated or revoked revokes whatever is still live in its family.        *)
(*                                                                         *)
(* The refresh transaction holds the row of its token FOR UPDATE; a        *)
(* revocation is one UPDATE, which works on the rows its snapshot shows,   *)
(* waits for those that are locked and looks at each again when it gets    *)
(* it.  Inserting a session takes FOR KEY SHARE on the user (foreign key), *)
(* deleting an account takes FOR UPDATE on it.                             *)
(*                                                                         *)
(* The first token of a family carries the name of the family, a token     *)
(* made by a refresh the name of that call.  Tokens that have expired are  *)
(* refused when they are decoded and never get here.                       *)
(***************************************************************************)
EXTENDS FiniteSets

CONSTANTS
  Users,
  Families,   (* logins *)
  Calls,      (* calls of refresh, logout and delete_account *)
  NoUser, NoToken, NoCall

Tokens == Families \cup Calls

ASSUME SessionConstants ==
  /\ Families \cap Calls = {}
  /\ NoUser \notin Users /\ NoToken \notin Tokens /\ NoCall \notin Calls

VARIABLES
  (* committed rows *)
  userActive,   (* the users row exists, status = 'ACTIVE'                  *)
  userOf,       (* refresh_token_sessions.user_id, by family                *)
  family,       (* refresh_token_sessions.token_family                      *)
  row,          (* revoked_at and revoke_reason: LIVE, why revoked, or GONE *)
  replacedBy,   (* refresh_token_sessions.replaced_by_jti                   *)
  (* locks *)
  rowLock,      (* the call that has locked a session row                   *)
  userLock,     (* the call that has the user FOR UPDATE                    *)
  userShare,    (* the calls that have the user FOR KEY SHARE               *)
  (* the calls *)
  pc, kind,
  token,        (* the token presented to refresh or logout                 *)
  account,      (* the user of delete_account                               *)
  seen,         (* the live rows in the snapshot of the revoking UPDATE     *)
  todo,         (* those it has still to visit                              *)
  revoked,      (* those it has updated, seen by nobody before the commit   *)
  answer

rows  == <<userActive, userOf, family, row, replacedBy>>
locks == <<rowLock, userLock, userShare>>
input == <<kind, token, account>>
work  == <<seen, todo, revoked>>
vars  == <<rows, locks, pc, input, work, answer>>

Kinds    == {"refresh", "logout", "delete"}
Reasons  == {"rotated", "reused", "logout"}
(* "Reused" is the InvalidCredentialsError raised after a revocation, "Invalid"
   any other one: the client cannot tell them apart, the properties do. *)
Answers  == {"OK", "Invalid", "Reused", "Error"}
Running  == {"select", "checkUser", "insert", "commit", "revoke", "revoking",
             "lockUser", "verify", "cascade"}

TypeOK ==
  /\ userActive \in [Users -> BOOLEAN]
  /\ userOf \in [Families -> Users \cup {NoUser}]
  /\ family \in [Tokens -> Families \cup {NoToken}]
  /\ row \in [Tokens -> {"NONE", "LIVE", "GONE"} \cup Reasons]
  /\ replacedBy \in [Tokens -> Tokens \cup {NoToken}]
  /\ rowLock \in [Tokens -> Calls \cup {NoCall}]
  /\ userLock \in [Users -> Calls \cup {NoCall}]
  /\ userShare \in [Users -> SUBSET Calls]
  /\ pc \in [Calls -> Running \cup {"idle", "done"}]
  /\ kind \in [Calls -> Kinds \cup {"none"}]
  /\ token \in [Calls -> Tokens \cup {NoToken}]
  /\ account \in [Calls -> Users \cup {NoUser}]
  /\ seen \in [Calls -> SUBSET Tokens]
  /\ todo \in [Calls -> SUBSET Tokens]
  /\ revoked \in [Calls -> SUBSET Tokens]
  /\ answer \in [Calls -> Answers \cup {"none"}]

Init ==
  /\ userActive = [u \in Users |-> TRUE]
  /\ userOf = [f \in Families |-> NoUser]
  /\ family = [t \in Tokens |-> NoToken]
  /\ row = [t \in Tokens |-> "NONE"]
  /\ replacedBy = [t \in Tokens |-> NoToken]
  /\ rowLock = [t \in Tokens |-> NoCall]
  /\ userLock = [u \in Users |-> NoCall]
  /\ userShare = [u \in Users |-> {}]
  /\ pc = [c \in Calls |-> "idle"]
  /\ kind = [c \in Calls |-> "none"]
  /\ token = [c \in Calls |-> NoToken]
  /\ account = [c \in Calls |-> NoUser]
  /\ seen = [c \in Calls |-> {}]
  /\ todo = [c \in Calls |-> {}]
  /\ revoked = [c \in Calls |-> {}]
  /\ answer = [c \in Calls |-> "none"]

-----------------------------------------------------------------------------
(* Helpers *)

Exists(t) == row[t] \notin {"NONE", "GONE"}

Owner(t) == userOf[family[t]]

Goto(c, from, to) == pc[c] = from /\ pc' = [pc EXCEPT ![c] = to]

Reply(c, a) == answer' = [answer EXCEPT ![c] = a]

(* mutant: the SELECT without FOR UPDATE *)
RowFreeNoForUpdate(c, t) == TRUE

RowFree(c, t) == rowLock[t] \in {NoCall, c}

UserFree(c, u) == userLock[u] \in {NoCall, c}

(* The end of a transaction releases everything the call has locked. *)
ReleaseAll(c) ==
  /\ rowLock' =
       [t \in Tokens |-> IF rowLock[t] = c THEN NoCall ELSE rowLock[t]]
  /\ userLock' =
       [u \in Users |-> IF userLock[u] = c THEN NoCall ELSE userLock[u]]
  /\ userShare' = [u \in Users |-> userShare[u] \ {c}]

(* The session is closed without a commit. *)
RollBack(c, from, a) ==
  /\ Goto(c, from, "done")
  /\ Reply(c, a)
  /\ ReleaseAll(c)
  /\ UNCHANGED <<rows, input, work>>

-----------------------------------------------------------------------------
(* login, google_login: the insert and the update of last_login_at wait for a
   deletion of the account, and fail once the account is gone. *)

Login(u, f) ==
  /\ row[f] = "NONE"
  /\ userActive[u] /\ userLock[u] = NoCall
  /\ userOf' = [userOf EXCEPT ![f] = u]
  /\ family' = [family EXCEPT ![f] = f]
  /\ row' = [row EXCEPT ![f] = "LIVE"]
  /\ UNCHANGED <<userActive, replacedBy, locks, pc, input, work, answer>>

-----------------------------------------------------------------------------
(* refresh and logout: SELECT ... WHERE token_hash = ... FOR UPDATE *)

Present(c, k, t) ==
  /\ k \in {"refresh", "logout"}
  /\ row[t] # "NONE"
  /\ Goto(c, "idle", "select")
  /\ kind' = [kind EXCEPT ![c] = k]
  /\ token' = [token EXCEPT ![c] = t]
  /\ UNCHANGED <<rows, locks, account, work, answer>>

(* mutant: a refresh does not look at revoked_at *)
SelectToIgnoringRevoked(c) ==
  IF kind[c] = "refresh" THEN "checkUser" ELSE "revoke"

(* The row is locked; a refresh goes on with a live one and takes a revoked one
   for a reuse, a logout revokes the family in either case. *)
SelectTo(c) ==
  IF kind[c] = "refresh" /\ row[token[c]] = "LIVE" THEN "checkUser"
  ELSE "revoke"

Select(c) ==
  /\ pc[c] = "select"
  /\ Exists(token[c]) /\ RowFree(c, token[c])
  /\ Goto(c, "select", SelectTo(c))
  /\ rowLock' = [rowLock EXCEPT ![token[c]] = c]
  /\ UNCHANGED <<rows, userLock, userShare, input, work, answer>>

SelectNothing(c) ==
  /\ pc[c] = "select"
  /\ ~Exists(token[c])
  /\ RollBack(c, "select", IF kind[c] = "refresh" THEN "Invalid" ELSE "OK")

-----------------------------------------------------------------------------
(* refresh of a live token *)

(* The user is read without a lock; the expiry of the row is left to chance. *)
CheckUser(c) ==
  /\ Goto(c, "checkUser", "insert")
  /\ userActive[Owner(token[c])]
  /\ UNCHANGED <<rows, locks, input, work, answer>>

CheckUserFails(c) == RollBack(c, "checkUser", "Invalid")

(* The flush inserts the next session: the foreign key locks the user. *)
InsertNext(c) ==
  LET u == Owner(token[c]) IN
  /\ Goto(c, "insert", "commit")
  /\ UserFree(c, u)
  /\ userShare' = [userShare EXCEPT ![u] = @ \cup {c}]
  /\ UNCHANGED <<rows, rowLock, userLock, input, work, answer>>

(* mutant: the next token opens a family of its own *)
NextFamilyNew(c) == CHOOSE f \in Families : f # family[token[c]]

NextFamily(c) == family[token[c]]

(* The commit rotates the token; if it raises although it took effect, the
   client never receives the next token. *)
CommitRefresh(c) ==
  LET t == token[c] IN
  /\ Goto(c, "commit", "done")
  /\ row' = [row EXCEPT ![t] = "rotated", ![c] = "LIVE"]
  /\ replacedBy' = [replacedBy EXCEPT ![t] = c]
  /\ family' = [family EXCEPT ![c] = NextFamily(c)]
  /\ \/ Reply(c, "OK")
     \/ Reply(c, "Error")
  /\ ReleaseAll(c)
  /\ UNCHANGED <<userActive, userOf, input, work>>

-----------------------------------------------------------------------------
(* _revoke_family and _revoke_all_user_sessions *)

(* mutant: only the presented token is revoked *)
RevocableItself(c) ==
  {t \in Tokens : row[t] = "LIVE" /\ kind[c] # "delete" /\ t = token[c]}

Revocable(c) ==
  {t \in Tokens :
     /\ row[t] = "LIVE"
     /\ \/ kind[c] = "delete" /\ Owner(t) = account[c]
        \/ kind[c] # "delete" /\ family[t] = family[token[c]]}

(* The UPDATE takes its snapshot: it will see nothing committed later, *)
RevokeBegins(c) ==
  /\ Goto(c, "revoke", "revoking")
  /\ seen' = [seen EXCEPT ![c] = Revocable(c)]
  /\ todo' = [todo EXCEPT ![c] = seen'[c]]
  /\ UNCHANGED <<rows, locks, input, revoked, answer>>

(* waits for each row it has seen, and updates it unless it has been revoked or
   deleted meanwhile. *)
RevokeRow(c, t) ==
  /\ pc[c] = "revoking" /\ t \in todo[c]
  /\ RowFree(c, t)
  /\ todo' = [todo EXCEPT ![c] = @ \ {t}]
  /\ IF row[t] = "LIVE"
     THEN /\ rowLock' = [rowLock EXCEPT ![t] = c]
          /\ revoked' = [revoked EXCEPT ![c] = @ \cup {t}]
     ELSE UNCHANGED <<rowLock, revoked>>
  /\ UNCHANGED <<rows, userLock, userShare, pc, input, seen, answer>>

(* mutant: revoke_reason is left out of the UPDATE *)
ReasonMissing(c) == "none"

Reason(c) == IF kind[c] = "refresh" THEN "reused" ELSE "logout"

CommitRevoke(c) ==
  /\ Goto(c, "revoking", "done")
  /\ kind[c] # "delete"
  /\ todo[c] = {}
  /\ row' = [t \in Tokens |-> IF t \in revoked[c] THEN Reason(c) ELSE row[t]]
  /\ \/ Reply(c, IF kind[c] = "refresh" THEN "Reused" ELSE "OK")
     \/ Reply(c, "Error")
  /\ ReleaseAll(c)
  /\ UNCHANGED <<userActive, userOf, family, replacedBy, input, work>>

-----------------------------------------------------------------------------
(* delete_account *)

RequestDelete(c, u) ==
  /\ userActive[u]
  /\ Goto(c, "idle", "lockUser")
  /\ kind' = [kind EXCEPT ![c] = "delete"]
  /\ account' = [account EXCEPT ![c] = u]
  /\ UNCHANGED <<rows, locks, token, work, answer>>

LockUser(c) ==
  LET u == account[c] IN
  /\ Goto(c, "lockUser", "verify")
  /\ UserFree(c, u) /\ userShare[u] = {}
  /\ userActive[u]
  /\ userLock' = [userLock EXCEPT ![u] = c]
  /\ UNCHANGED <<rows, rowLock, userShare, input, work, answer>>

LockUserNothing(c) ==
  /\ pc[c] = "lockUser"
  /\ ~userActive[account[c]]
  /\ RollBack(c, "lockUser", "Invalid")

(* Password or Google identity are checked with the lock on the user held. *)
Verified(c) ==
  /\ Goto(c, "verify", "revoke")
  /\ UNCHANGED <<rows, locks, input, work, answer>>

VerifyFails(c) == RollBack(c, "verify", "Invalid")

RevokedAll(c) ==
  /\ Goto(c, "revoking", "cascade")
  /\ kind[c] = "delete"
  /\ todo[c] = {}
  /\ UNCHANGED <<rows, locks, input, work, answer>>

(* The DELETE cascades to every session of the user and waits for their rows. *)
CommitDelete(c) ==
  LET u == account[c]
      mine == {t \in Tokens : Exists(t) /\ Owner(t) = u} IN
  /\ Goto(c, "cascade", "done")
  /\ \A t \in mine : RowFree(c, t)
  /\ userActive' = [userActive EXCEPT ![u] = FALSE]
  /\ row' = [t \in Tokens |-> IF t \in mine THEN "GONE" ELSE row[t]]
  /\ Reply(c, "OK") \/ Reply(c, "Error")
  /\ ReleaseAll(c)
  /\ UNCHANGED <<userOf, family, replacedBy, input, work>>

-----------------------------------------------------------------------------
(* Deadlock detection and failures *)

(* The calls that c waits for *)
Blockers(c) ==
  CASE pc[c] = "select" ->
         IF Exists(token[c]) THEN {rowLock[token[c]]} \ {NoCall, c} ELSE {}
    [] pc[c] = "insert" -> {userLock[Owner(token[c])]} \ {NoCall, c}
    [] pc[c] = "lockUser" ->
         ({userLock[account[c]]} \cup userShare[account[c]]) \ {NoCall, c}
    [] pc[c] = "revoking" ->
         IF \E t \in todo[c] : RowFree(c, t) THEN {}
         ELSE {rowLock[t] : t \in todo[c]}
    [] pc[c] = "cascade" ->
         {rowLock[t] :
            t \in {s \in Tokens : Exists(s) /\ Owner(s) = account[c]}}
           \ {NoCall, c}
    [] OTHER -> {}

(* mutant: nobody breaks a deadlock *)
DeadlockedNever(c) == FALSE

(* Calls that wait for each other in a ring *)
Deadlocked(c) ==
  \E ring \in SUBSET Calls :
    /\ c \in ring
    /\ \A d \in ring : /\ Blockers(d) \cap ring # {}
                       /\ \E e \in ring : d \in Blockers(e)

(* PostgreSQL aborts one transaction of the ring; the call ends in a 500. *)
DeadlockVictim(c) ==
  /\ pc[c] \in Running /\ Deadlocked(c)
  /\ RollBack(c, pc[c], "Error")

(* A statement or the commit fails, or the worker dies. *)
Fail(c) ==
  /\ pc[c] \in Running
  /\ RollBack(c, pc[c], "Error")

-----------------------------------------------------------------------------
(* The next-state relation *)

Step(c) ==
  \/ Select(c) \/ SelectNothing(c)
  \/ CheckUser(c) \/ CheckUserFails(c) \/ InsertNext(c) \/ CommitRefresh(c)
  \/ RevokeBegins(c) \/ (\E t \in Tokens : RevokeRow(c, t)) \/ CommitRevoke(c)
  \/ LockUser(c) \/ LockUserNothing(c) \/ Verified(c) \/ VerifyFails(c)
  \/ RevokedAll(c) \/ CommitDelete(c)

Quiescent ==
  /\ \A c \in Calls : pc[c] \notin Running
  /\ UNCHANGED vars

Next ==
  \/ \E u \in Users, f \in Families : Login(u, f)
  \/ \E c \in Calls, k \in Kinds, t \in Tokens : Present(c, k, t)
  \/ \E c \in Calls, u \in Users : RequestDelete(c, u)
  \/ \E c \in Calls : Step(c) \/ DeadlockVictim(c) \/ Fail(c)
  \/ Quiescent

Spec == Init /\ [][Next]_vars

(* As long as a call can go on, some call does, and a deadlock is detected.
   Weak fairness is enough, and for all of them together: no call takes
   infinitely many steps. *)
Fairness ==
  WF_vars(\E c \in Calls : pc[c] \in Running /\ (Step(c) \/ DeadlockVictim(c)))

FairSpec == Spec /\ Fairness

-----------------------------------------------------------------------------
(* Properties *)

(* A family has at most one live token, however many calls overlap. *)
OneLiveTokenPerFamily ==
  \A s, t \in Tokens :
    row[s] = "LIVE" /\ row[t] = "LIVE" /\ family[s] = family[t] => s = t

(* The rotations of a family form a chain: a rotated token names its successor,
   which belongs to the same family and replaces no other token; two refreshes
   with one token are never both answered with a new one. *)
RotationChain ==
  /\ \A t \in Tokens : row[t] = "rotated" =>
       /\ replacedBy[t] \in Calls
       /\ row[replacedBy[t]] # "NONE"
       /\ family[replacedBy[t]] = family[t]
  /\ \A s, t \in Tokens :
       replacedBy[s] = replacedBy[t] /\ replacedBy[s] # NoToken => s = t

(* A revocation after a reuse or by logout leaves its family alive only if a
   refresh rotated the live token while the UPDATE was waiting for its row. *)
RevocationMissesOnlyRotated ==
  \A c \in Calls :
    /\ pc[c] = "done"
    /\ answer[c] = "Reused" \/ (kind[c] = "logout" /\ answer[c] = "OK")
    /\ \E t \in Tokens : row[t] = "LIVE" /\ family[t] = family[token[c]]
    => \E s \in seen[c] : row[s] = "rotated"

(* A family without a live token never gets one again: no token is made from
   one that was revoked. *)
DeadFamilyStaysDead ==
  [][\A f \in Families :
       /\ row[f] # "NONE"
       /\ \A t \in Tokens : family[t] = f => row[t] # "LIVE"
       => \A t \in Tokens : family'[t] = f => row'[t] # "LIVE"]_vars

(* Every call ends, although refresh and delete_account lock the session row
   and the user in opposite orders. *)
EveryCallEnds == <>[](\A c \in Calls : pc[c] \notin Running)

(* What the integration guide says of a reuse: the token family is revoked. *)
ReuseRevokesFamily ==
  \A c \in Calls : pc[c] = "done" /\ answer[c] = "Reused" =>
    \A t \in Tokens : family[t] = family[token[c]] => row[t] # "LIVE"
=============================================================================
