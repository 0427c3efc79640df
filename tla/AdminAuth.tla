------------------------------ MODULE AdminAuth ------------------------------
(***************************************************************************)
(* Administrator authentication: login, verify_mfa, refresh and logout of  *)
(* app/services/admin_auth_service.py, as concurrent transactions on one   *)
(* account, which may be created meanwhile.                                *)
(*                                                                         *)
(* Each call reads the clock first, then takes the account's row FOR       *)
(* UPDATE (verify_mfa takes its challenge before), which may be long after,*)
(* and decides with the row it then loads and the clock it read then.      *)
(* A transaction also stamps its audit rows with the time of its start.    *)
(*                                                                         *)
(* A challenge, a token and a token family carry the name of the call that *)
(* made them; those named Earlier come from a login before modelled time.  *)
(* Nothing in the program clears is_active.  The days of a refresh token   *)
(* are far beyond the clock, so that its expiry is a choice: of the token  *)
(* when it is decoded (TokenRejected), or of its row when only that one is *)
(* over (RefreshExpired), since the row has its expiry from the clock that *)
(* its call read before it waited, and the token from the clock after it.  *)
(***************************************************************************)
EXTENDS Naturals, FiniteSets

CONSTANTS
  Addresses,         (* masked client addresses                             *)
  MaxCalls,          (* calls are numbered in the order they arrive         *)
  MaxAttempts,       (* ADMIN_LOGIN_MAX_ATTEMPTS                            *)
  MaxMfaAttempts,    (* ADMIN_MFA_MAX_ATTEMPTS                              *)
  LockTicks,         (* ADMIN_LOCK_MINUTES                                  *)
  ChallengeTicks,    (* ADMIN_MFA_CHALLENGE_MINUTES                         *)
  MaxClock,          (* bound of the clock                                  *)
  Earlier, Nobody, None

Calls  == 1 .. MaxCalls
Logins == Calls \cup {Earlier}

ASSUME AdminConstants ==
  /\ MaxCalls \in Nat /\ MaxClock \in Nat
  /\ MaxAttempts \in Nat \ {0} /\ MaxMfaAttempts \in Nat \ {0}
  /\ LockTicks \in Nat \ {0} /\ ChallengeTicks \in Nat \ {0}
  /\ Earlier \notin Calls /\ Nobody \notin Logins
  /\ None \notin Logins \cup {Nobody}

VARIABLES
  clock,
  (* committed rows *)
  account,      (* the row of admin_users, NoRow before it is created        *)
  failures,     (* admin_login_failed and admin_login_locked in the log      *)
  challenge,    (* admin_mfa_challenges                                      *)
  token,        (* admin_refresh_token_sessions, and the access token issued *)
                (* with each                                                 *)
  (* locks *)
  adminLock, challengeLock,
  (* the calls *)
  pc, request,
  now,          (* the clock when the call began                             *)
  loaded,       (* the rows of the account and the challenge it has loaded   *)
  result,
  issued        (* tokens that existed when a logout or a reuse was handled  *)

rows  == <<account, failures, challenge, token>>
locks == <<adminLock, challengeLock>>
vars  == <<clock, rows, locks, pc, request, now, loaded, result, issued>>

NoRow == [failed |-> 0, lockedUntil |-> 0, version |-> 0]
NoChallenge == [expires |-> 0, attempts |-> 0, state |-> "none"]
NewRow == [failed |-> 0, lockedUntil |-> 0, version |-> 1]
Nothing == [admin |-> NoRow, challenge |-> NoChallenge]
NoTokenRow == [family |-> None, version |-> 0, state |-> "none"]

Requests ==
  [kind: {"login"}, address: Addresses, right: BOOLEAN]
    \cup [kind: {"verify_mfa"}, challenge: Logins, right: BOOLEAN]
    \cup [kind: {"refresh"}, token: Logins]
    \cup [kind: {"logout"}]

Revoked == {"rotated", "reused", "logout", "invalid"}
(* The client cannot tell "unknown", "locked", "wrong" and "invalid" apart,
   the properties do. *)
Ended   == {"unknown", "locked", "wrong", "challenged", "invalid", "opened",
            "rotated", "reused", "left", "aborted"}

TypeOK ==
  /\ clock \in 0 .. MaxClock
  /\ account \in [failed: 0 .. MaxCalls + MaxAttempts,
                  lockedUntil: 0 .. MaxClock + LockTicks,
                  version: 0 .. MaxCalls + 1]
  /\ failures \subseteq [call: Logins, address: Addresses, at: 0 .. MaxClock]
  /\ challenge \in [Logins -> [expires: 0 .. MaxClock + ChallengeTicks,
                               attempts: 0 .. MaxMfaAttempts,
                               state: {"none", "open", "consumed"}]]
  /\ token \in [Logins -> [family: Logins \cup {None},
                           version: 0 .. MaxCalls + 1,
                           state: {"none", "live"} \cup Revoked]]
  /\ adminLock \in Calls \cup {Nobody}
  /\ challengeLock \in [Logins -> Calls \cup {Nobody}]
  /\ pc \in [Calls -> {"idle", "begun", "locking", "locked", "ended"}]
  /\ request \in [Calls -> Requests \cup {None}]
  /\ now \in [Calls -> 0 .. MaxClock]
  /\ result \in [Calls -> Ended \cup {"none"}]
  /\ issued \in [Calls -> SUBSET Logins]

(* No administrator yet, or one with a session, who has since opened a
   challenge and may have mistyped the password once. *)
Init ==
  /\ clock = 0
  /\ failures \in {{}} \cup
       {{[call |-> Earlier, address |-> a, at |-> 0]} : a \in Addresses}
  /\ account \in {NoRow, [NewRow EXCEPT !.failed = Cardinality(failures)]}
  /\ failures # {} => account # NoRow /\ MaxAttempts > 1
  /\ challenge = [l \in Logins |->
       IF l = Earlier /\ account # NoRow
         THEN [expires |-> ChallengeTicks, attempts |-> 0, state |-> "open"]
         ELSE NoChallenge]
  /\ token = [l \in Logins |->
       IF l = Earlier /\ account # NoRow
         THEN [family |-> Earlier, version |-> 1, state |-> "live"]
         ELSE NoTokenRow]
  /\ adminLock = Nobody
  /\ challengeLock = [l \in Logins |-> Nobody]
  /\ pc = [c \in Calls |-> "idle"]
  /\ request = [c \in Calls |-> None]
  /\ now = [c \in Calls |-> 0]
  /\ loaded = [c \in Calls |-> Nothing]
  /\ result = [c \in Calls |-> "none"]
  /\ issued = [c \in Calls |-> {}]

-----------------------------------------------------------------------------
(* Helpers *)

Kind(c) == request[c].kind

Locked(c, kind) == pc[c] = "locked" /\ Kind(c) = kind

Admin(c) == loaded[c].admin

Forget(c) ==
  /\ loaded' = [loaded EXCEPT ![c] = Nothing]
  /\ UNCHANGED <<clock, request, now>>

(* mutant: the transaction stays open *)
FinishWithoutCommit(c, r) ==
  /\ pc' = [pc EXCEPT ![c] = "ended"]
  /\ result' = [result EXCEPT ![c] = r]
  /\ Forget(c)
  /\ UNCHANGED locks

(* The end of a transaction: its locks and what it had loaded are gone, and
   the caller has an answer. *)
Finish(c, r) ==
  /\ pc' = [pc EXCEPT ![c] = "ended"]
  /\ result' = [result EXCEPT ![c] = r]
  /\ adminLock' = IF adminLock = c THEN Nobody ELSE adminLock
  /\ challengeLock' = [l \in Logins |->
       IF challengeLock[l] = c THEN Nobody ELSE challengeLock[l]]
  /\ Forget(c)

IsLocked(row, at) == row.lockedUntil > at

(* mutant: the lock of the account alone *)
RecentFailuresNever(c) == 0

RecentFailures(c) ==
  Cardinality({f \in failures : /\ f.address = request[c].address
                                /\ f.at + LockTicks >= now[c]})

LogFailure(c) ==
  failures' = failures \cup
    {[call |-> c, address |-> request[c].address, at |-> now[c]]}

AccessValid(t) ==
  /\ token[t].state # "none"
  /\ token[t].version = account.version

Issued == {t \in Logins : token[t].state # "none"}

-----------------------------------------------------------------------------
(* A request arrives.  Challenges and tokens are those handed out before. *)

Presentable(r) ==
  CASE r.kind = "verify_mfa" -> challenge[r.challenge].state # "none"
    [] r.kind = "refresh"    -> token[r.token].state # "none"
    [] r.kind = "logout"     -> Issued # {}
    [] OTHER                 -> TRUE

Begin(c) ==
  /\ pc[c] = "idle"
  /\ \A d \in Calls : d < c => pc[d] # "idle"
  /\ \E r \in {q \in Requests : Presentable(q)} :
       request' = [request EXCEPT ![c] = r]
  /\ pc' = [pc EXCEPT ![c] = "begun"]
  /\ now' = [now EXCEPT ![c] = clock]
  /\ UNCHANGED <<clock, rows, locks, loaded, result, issued>>

(* verify_mfa: the challenge FOR UPDATE *)
LockChallenge(c) ==
  /\ pc[c] = "begun" /\ Kind(c) = "verify_mfa"
  /\ LET h == request[c].challenge
     IN  /\ challengeLock[h] = Nobody
         /\ challengeLock' = [challengeLock EXCEPT ![h] = c]
         /\ loaded' = [loaded EXCEPT ![c].challenge = challenge[h]]
  /\ pc' = [pc EXCEPT ![c] = "locking"]
  /\ UNCHANGED <<clock, rows, adminLock, request, now, result,
                 issued>>

(* SELECT ... FOR UPDATE of the account; no row, no lock. *)
LockAdmin(c) ==
  /\ \/ pc[c] = "begun" /\ Kind(c) \in {"login", "refresh", "logout"}
     \/ pc[c] = "locking"
  /\ IF account # NoRow
       THEN /\ adminLock = Nobody
            /\ adminLock' = c
            /\ loaded' = [loaded EXCEPT ![c].admin = account]
       ELSE UNCHANGED <<adminLock, loaded>>
  /\ pc' = [pc EXCEPT ![c] = "locked"]
  /\ UNCHANGED <<clock, rows, challengeLock, request, now, result,
                 issued>>

-----------------------------------------------------------------------------
(* login *)

LoginUnknown(c) ==
  /\ Locked(c, "login") /\ Admin(c) = NoRow
  /\ LogFailure(c)
  /\ Finish(c, "unknown")
  /\ UNCHANGED <<account, challenge, token, issued>>

LoginLocked(c) ==
  /\ Locked(c, "login") /\ Admin(c) # NoRow /\ IsLocked(Admin(c), now[c])
  /\ LogFailure(c)
  /\ Finish(c, "locked")
  /\ UNCHANGED <<account, challenge, token, issued>>

(* The password is compared, and may be: the account exists, and is not
   locked. *)
Compared(c) ==
  Locked(c, "login") /\ Admin(c) # NoRow /\ ~IsLocked(Admin(c), now[c])

(* failed_login_count and locked_until after a wrong password *)
AfterFailure(c) ==
  LET failed == Admin(c).failed + 1
      lock == \/ failed >= MaxAttempts
              \/ RecentFailures(c) + 1 >= MaxAttempts
  IN  [account EXCEPT
        !.failed = failed,
        !.lockedUntil = IF lock THEN now[c] + LockTicks ELSE @]

LoginWrong(c) ==
  /\ Compared(c) /\ ~request[c].right
  /\ account' = AfterFailure(c)
  /\ LogFailure(c)
  /\ Finish(c, "wrong")
  /\ UNCHANGED <<challenge, token, issued>>

LoginRight(c) ==
  /\ Compared(c) /\ request[c].right
  /\ challenge' = [challenge EXCEPT ![c] =
       [expires |-> now[c] + ChallengeTicks, attempts |-> 0,
        state |-> "open"]]
  /\ Finish(c, "challenged")
  /\ UNCHANGED <<account, failures, token, issued>>

-----------------------------------------------------------------------------
(* verify_mfa *)

Usable(c) ==
  LET h == loaded[c].challenge
  IN  /\ h.state = "open"
      /\ h.expires > now[c]
      /\ h.attempts < MaxMfaAttempts
      /\ ~IsLocked(Admin(c), now[c])

MfaInvalid(c) ==
  /\ Locked(c, "verify_mfa") /\ ~Usable(c)
  /\ Finish(c, "invalid")
  /\ UNCHANGED <<rows, issued>>

MfaWrong(c) ==
  /\ Locked(c, "verify_mfa") /\ Usable(c) /\ ~request[c].right
  /\ challenge' = [challenge EXCEPT ![request[c].challenge].attempts =
                     loaded[c].challenge.attempts + 1]
  /\ Finish(c, "wrong")
  /\ UNCHANGED <<account, failures, token, issued>>

(* The session of a new family, and the end of the account's lock. *)
MfaRight(c) ==
  /\ Locked(c, "verify_mfa") /\ Usable(c) /\ request[c].right
  /\ challenge' = [challenge EXCEPT
       ![request[c].challenge].state = "consumed"]
  /\ account' = [account EXCEPT !.failed = 0, !.lockedUntil = 0]
  /\ token' = [token EXCEPT ![c] =
       [family |-> c, version |-> Admin(c).version, state |-> "live"]]
  /\ Finish(c, "opened")
  /\ UNCHANGED <<failures, issued>>

-----------------------------------------------------------------------------
(* refresh and logout *)

(* The token cannot be decoded, has expired or comes with the wrong CSRF
   value: an audit row, nothing else. *)
TokenRejected(c) ==
  /\ pc[c] = "begun" /\ Kind(c) \in {"refresh", "logout"}
  /\ Finish(c, "invalid")
  /\ UNCHANGED <<rows, issued>>

(* mutant: only the token that was presented *)
RevokeTheFirst(families, reason) ==
  [t \in Logins |->
    IF token[t].state = "live" /\ t \in families
      THEN [token[t] EXCEPT !.state = reason] ELSE token[t]]

(* _revoke_family, or with all of them the UPDATE of logout *)
Revoke(families, reason) ==
  [t \in Logins |->
    IF token[t].state = "live" /\ token[t].family \in families
      THEN [token[t] EXCEPT !.state = reason] ELSE token[t]]

(* mutant: the version stays *)
NextVersionSame(c) == account

(* increment_session_version *)
NextVersion(c) == [account EXCEPT !.version = Admin(c).version + 1]

RefreshReused(c) ==
  /\ Locked(c, "refresh")
  /\ token[request[c].token].state \in Revoked
  /\ token' = Revoke({token[request[c].token].family}, "reused")
  /\ account' = NextVersion(c)
  /\ issued' = [issued EXCEPT ![c] = Issued]
  /\ Finish(c, "reused")
  /\ UNCHANGED <<failures, challenge>>

(* mutant: the presented token is kept *)
RotatedToo(c) ==
  [token EXCEPT
    ![c] = [family |-> token[request[c].token].family,
            version |-> Admin(c).version, state |-> "live"]]

(* The presented token is spent, the next one joins its family. *)
Rotated(c) ==
  [token EXCEPT
    ![request[c].token].state = "rotated",
    ![c] = [family |-> token[request[c].token].family,
            version |-> Admin(c).version, state |-> "live"]]

RefreshRotates(c) ==
  /\ Locked(c, "refresh")
  /\ token[request[c].token].state = "live"
  /\ token' = Rotated(c)
  /\ Finish(c, "rotated")
  /\ UNCHANGED <<account, failures, challenge, issued>>

(* The row has expired and the token has not. *)
RefreshExpired(c) ==
  /\ Locked(c, "refresh")
  /\ token[request[c].token].state = "live"
  /\ token' = [token EXCEPT ![request[c].token].state = "invalid"]
  /\ Finish(c, "invalid")
  /\ UNCHANGED <<account, failures, challenge, issued>>

Logout(c) ==
  /\ Locked(c, "logout")
  /\ token' = Revoke(Logins, "logout")
  /\ account' = NextVersion(c)
  /\ issued' = [issued EXCEPT ![c] = Issued]
  /\ Finish(c, "left")
  /\ UNCHANGED <<failures, challenge>>

-----------------------------------------------------------------------------
(* Faults, time, and the arrival of the account: create_first_admin or
   create_admin, see Accounts. *)

AccountCreated ==
  /\ account = NoRow
  /\ account' = NewRow
  /\ UNCHANGED <<clock, failures, challenge, token, locks, pc, request, now,
                 loaded, result, issued>>

(* An exception or the end of the process before the commit.  An earlier one
   differs from a request that never came only in the waiting of others. *)
Abort(c) ==
  /\ pc[c] = "locked"
  /\ Finish(c, "aborted")
  /\ UNCHANGED <<rows, issued>>

Tick ==
  /\ clock < MaxClock
  /\ clock' = clock + 1
  /\ UNCHANGED <<rows, locks, pc, request, now, loaded, result, issued>>

Step(c) ==
  \/ LockChallenge(c) \/ LockAdmin(c)
  \/ LoginUnknown(c) \/ LoginLocked(c) \/ LoginWrong(c) \/ LoginRight(c)
  \/ MfaInvalid(c) \/ MfaWrong(c) \/ MfaRight(c)
  \/ TokenRejected(c)
  \/ RefreshReused(c) \/ RefreshRotates(c) \/ RefreshExpired(c)
  \/ Logout(c)

Next ==
  \/ Tick \/ AccountCreated
  \/ \E c \in Calls : Begin(c) \/ Step(c) \/ Abort(c)

Spec == Init /\ [][Next]_vars

(* A request in the program is carried on until it is answered; none need
   arrive, and the clock may stand. *)
FairSpec == Spec /\ \A c \in Calls : WF_vars(Step(c))

-----------------------------------------------------------------------------
(* Properties *)

(* A challenge opens one session at most, and takes MaxMfaAttempts wrong
   codes at most, whoever answers it at the same time. *)
ChallengeUsedOnce ==
  \A h \in Logins :
    LET Answers(r) == {c \in Calls : /\ pc[c] = "ended" /\ result[c] = r
                                     /\ Kind(c) = "verify_mfa"
                                     /\ request[c].challenge = h}
    IN  /\ Cardinality(Answers("opened")) <= 1
        /\ Cardinality(Answers("wrong")) <= MaxMfaAttempts

(* Guessing.  The wrong passwords from one address that begin within the time
   of a lock, and the completed logins that began after it *)
Guesses(a, t) ==
  {f \in failures : /\ f.call = Earlier \/ result[f.call] = "wrong"
                    /\ f.address = a
                    /\ f.at <= t /\ t < f.at + LockTicks}

Overtaking(t) == {c \in Calls : result[c] = "opened" /\ now[c] > t}

(* Of the requests of one client address that began within the time of a lock,
   at most MaxAttempts are told by a comparison that the password is wrong, in
   whatever order they get the account's row, and although a completed login
   clears the lock and the counter of the account; but a request that has
   waited for the row while a later one completed a login finds the lock gone:
   one more for each. *)
GuessesBounded ==
  \A a \in Addresses, t \in 0 .. MaxClock :
    Cardinality(Guesses(a, t)) <= MaxAttempts + Cardinality(Overtaking(t))

(* A family has one live token at most. *)
OneLiveTokenPerFamily ==
  \A t, u \in Logins :
    /\ token[t].state = "live" /\ token[u].state = "live"
    /\ token[t].family = token[u].family
    => t = u

(* The rows are consistent: the parts above together. *)
RowsConsistent == TypeOK /\ ChallengeUsedOnce /\ OneLiveTokenPerFamily

(* What existed at a logout is worth nothing after it: no refresh token of
   it is live, no access token accepted, whatever was under way. *)
LogoutEndsEverySession ==
  \A c \in Calls : result[c] = "left" =>
    \A t \in issued[c] : token[t].state # "live" /\ ~AccessValid(t)

(* The reuse of a token ends its family for good, even if it raced the
   rotation, and every access token there was. *)
ReuseEndsFamily ==
  \A c \in Calls : result[c] = "reused" =>
    /\ \A t \in Logins :
         token[t].family = token[request[c].token].family =>
           token[t].state # "live"
    /\ \A t \in issued[c] : ~AccessValid(t)

(* Every request that arrives is answered: nobody keeps the account's row or
   a challenge, and the locks are taken in one order. *)
EveryCallEnds == <>[](\A c \in Calls : pc[c] \in {"idle", "ended"})
=============================================================================
