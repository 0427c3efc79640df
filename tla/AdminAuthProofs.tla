---------------------------- MODULE AdminAuthProofs ----------------------------
(***************************************************************************)
(* What holds of AdminAuth for every number of calls, every limit of       *)
(* attempts and every length of a lock.                                    *)
(*                                                                         *)
(* The properties are not inductive.  IInv adds what a call has loaded     *)
(* while it holds the locks (LockInv), what a request names and what is    *)
(* not yet there before its call ends (CallInv), how the rows depend on    *)
(* each other (RowInv), how the counters follow the answers (CountInv,     *)
(* AnswerInv), that every token there was at a logout or a reuse is of an  *)
(* older version (IssuedInv), and that the account is locked past any      *)
(* window whose guesses are used up (GuessInv).                            *)
(***************************************************************************)
EXTENDS AdminAuth, FiniteSetTheorems, TLAPS

AdminRows == [failed: 0 .. MaxCalls + MaxAttempts,
              lockedUntil: 0 .. MaxClock + LockTicks,
              version: 0 .. MaxCalls + 1]

ChallengeRows == [expires: 0 .. MaxClock + ChallengeTicks,
                  attempts: 0 .. MaxMfaAttempts,
                  state: {"none", "open", "consumed"}]

(* What a request names exists, and what a call makes does not exist before
   the call ends. *)
CallInv ==
  \A c \in Calls :
    /\ pc[c] # "idle" =>
         /\ request[c] \in Requests
         /\ Kind(c) = "verify_mfa" =>
              challenge[request[c].challenge].state # "none"
         /\ Kind(c) = "refresh" => token[request[c].token].state # "none"
         /\ Kind(c) = "logout" => account # NoRow
    /\ pc[c] = "locking" => Kind(c) = "verify_mfa"
    /\ pc[c] # "ended" => /\ result[c] = "none" /\ issued[c] = {}
                          /\ challenge[c] = NoChallenge
                          /\ token[c] = NoTokenRow
    /\ result[c] = "opened" => Kind(c) = "verify_mfa"
    /\ result[c] = "reused" => Kind(c) = "refresh"

(* What a call has loaded is what is stored, as long as it holds the lock. *)
LockInv ==
  /\ loaded \in [Calls -> [admin: AdminRows, challenge: ChallengeRows]]
  /\ \A c \in Calls :
       /\ pc[c] # "locked" => Admin(c) = NoRow
       /\ pc[c] = "locked" /\ Admin(c) = NoRow => Kind(c) = "login"
       /\ pc[c] = "locked" /\ Admin(c) # NoRow =>
            adminLock = c /\ Admin(c) = account
       /\ pc[c] \in {"locking", "locked"} /\ Kind(c) = "verify_mfa" =>
            /\ challengeLock[request[c].challenge] = c
            /\ loaded[c].challenge = challenge[request[c].challenge]

(* Challenges and tokens are of an account, tokens of a family that was
   founded and of no later version than the account. *)
RowInv ==
  /\ account = NoRow <=> account.version = 0
  /\ \A h \in Logins : challenge[h].state # "none" => account # NoRow
  /\ \A t \in Logins : token[t].state # "none" =>
       /\ token[t].version \in 1 .. account.version
       /\ token[t].family \in Logins
       /\ token[token[t].family].state # "none"

(* The counters of the account *)
Answered(kinds) == {c \in Calls : result[c] \in kinds}

CountInv ==
  /\ account.failed <= Cardinality(Answered({"wrong"})) + 1
  /\ account.version <= Cardinality(Answered({"left", "reused"})) + 1

(* The answers to one challenge *)
MfaAnswers(h, r) ==
  {c \in Calls : /\ pc[c] = "ended" /\ result[c] = r
                 /\ Kind(c) = "verify_mfa" /\ request[c].challenge = h}

AnswerInv ==
  \A h \in Logins :
    /\ \A c, d \in MfaAnswers(h, "opened") : c = d
    /\ MfaAnswers(h, "opened") # {} => challenge[h].state = "consumed"
    /\ Cardinality(MfaAnswers(h, "wrong")) <= challenge[h].attempts

(* The tokens there were at a logout or a reuse *)
IssuedInv ==
  \A c \in Calls : \A t \in issued[c] :
    /\ token[t].state # "none"
    /\ token[t].version < account.version
    /\ result[c] = "left" => token[t].state # "live"

(* An account whose guesses in a window are used up is locked past it. *)
Allowed(t) == MaxAttempts + Cardinality(Overtaking(t))

GuessInv ==
  /\ IsFiniteSet(failures)
  /\ \A f \in failures : f.call \in Calls => pc[f.call] = "ended"
  /\ \A a \in Addresses, t \in 0 .. MaxClock :
       Cardinality(Guesses(a, t)) >= Allowed(t) => account.lockedUntil > t

(* The inductive invariant *)
IInv ==
  /\ TypeOK /\ CallInv /\ LockInv /\ RowInv /\ CountInv /\ AnswerInv
  /\ OneLiveTokenPerFamily /\ IssuedInv /\ ReuseEndsFamily
  /\ GuessInv /\ GuessesBounded

-----------------------------------------------------------------------------
(* The steps *)

Act(c) == Begin(c) \/ Step(c) \/ Abort(c)

LEMMA NextSplit ==
  ASSUME [Next]_vars
  PROVE  Tick \/ AccountCreated \/ (\E c \in Calls : Act(c)) \/ UNCHANGED vars
  BY DEF Next, Act

(* What a request brings with it *)
LEMMA Arguments ==
  ASSUME NEW r \in Requests
  PROVE  /\ r.kind \in {"login", "verify_mfa", "refresh", "logout"}
         /\ r.kind = "login" => r.address \in Addresses
         /\ r.kind = "verify_mfa" => r.challenge \in Logins
         /\ r.kind = "refresh" => r.token \in Logins
  BY DEF Requests

(* Names of calls are not those of the model values. *)
LEMMA Names ==
  /\ MaxCalls \in Nat /\ Calls \subseteq Nat \ {0} /\ Calls \subseteq Logins
  /\ Earlier \in Logins \ Calls /\ Nobody \notin Logins /\ None \notin Logins
  BY AdminConstants DEF Calls, Logins

LEMMA CallsFinite ==
  IsFiniteSet(Calls) /\ Cardinality(Calls) = MaxCalls
  <1>1. MaxCalls \in Nat  BY AdminConstants
  <1> QED  BY <1>1, FS_Interval DEF Calls

(* A step is a step of one call: the others stay where they are. *)
LEMMA OthersStay ==
  ASSUME TypeOK, LockInv, NEW c \in Calls, Act(c), NEW d \in Calls, d # c
  PROVE  /\ pc'[d] = pc[d] /\ request'[d] = request[d]
         /\ now'[d] = now[d] /\ loaded'[d] = loaded[d]
         /\ result'[d] = result[d] /\ issued'[d] = issued[d]
  BY DEF TypeOK, LockInv, Act, Step, Begin, LockChallenge, LockAdmin,
     LoginUnknown, LoginLocked, LoginWrong, LoginRight, MfaInvalid, MfaWrong,
     MfaRight, TokenRejected, RefreshReused, RefreshRotates, RefreshExpired,
     Logout, Abort, Finish, Forget

(* Beyond its arrival a call keeps its request and the time it read, and it
   ends once. *)
LEMMA Onward ==
  ASSUME TypeOK, CallInv, NEW c \in Calls, Act(c)
  PROVE  /\ pc[c] # "ended" /\ pc'[c] # "idle" /\ result[c] = "none"
         /\ issued[c] = {}
         /\ ~Begin(c) => /\ pc[c] # "idle" /\ request'[c] = request[c]
                         /\ now'[c] = now[c] /\ request[c] \in Requests
         /\ Begin(c) => request'[c] \in Requests
  BY DEF TypeOK, CallInv, Act, Step, Begin, LockChallenge, LockAdmin,
     LoginUnknown, LoginLocked, LoginWrong, LoginRight, MfaInvalid, MfaWrong,
     MfaRight, TokenRejected, RefreshReused, RefreshRotates, RefreshExpired,
     Logout, Abort, Finish, Forget, Compared, Locked

(* A call that has its locks has loaded what is stored. *)
LEMMA Holds ==
  ASSUME TypeOK, CallInv, LockInv, RowInv, NEW c \in Calls, pc[c] = "locked"
  PROVE  /\ request[c] \in Requests
         /\ Kind(c) # "login" \/ Admin(c) # NoRow =>
              adminLock = c /\ Admin(c) = account /\ account # NoRow
         /\ Kind(c) = "verify_mfa" =>
              /\ request[c].challenge \in Logins
              /\ challenge[request[c].challenge].state # "none"
              /\ challengeLock[request[c].challenge] = c
              /\ loaded[c].challenge = challenge[request[c].challenge]
         /\ Kind(c) = "refresh" =>
              /\ request[c].token \in Logins
              /\ token[request[c].token].state # "none"
  BY Arguments DEF CallInv, LockInv, Kind

-----------------------------------------------------------------------------
(* The counters follow the answers. *)

LEMMA AnsweredGrows ==
  ASSUME TypeOK, CallInv, LockInv, NEW c \in Calls, Act(c),
         NEW K, "none" \notin K
  PROVE  /\ Cardinality(Answered(K)) \in Nat
         /\ Cardinality(Answered(K)') \in Nat
         /\ Cardinality(Answered(K)') <= MaxCalls
         /\ Cardinality(Answered(K)) <= Cardinality(Answered(K)')
         /\ result'[c] \in K =>
              Cardinality(Answered(K)') = Cardinality(Answered(K)) + 1
<1>1. Answered(K) \subseteq Calls /\ Answered(K)' \subseteq Calls
  BY DEF Answered
<1>2. /\ IsFiniteSet(Answered(K)) /\ IsFiniteSet(Answered(K)')
      /\ Cardinality(Answered(K)') <= MaxCalls
  BY <1>1, CallsFinite, FS_Subset
<1>3. Cardinality(Answered(K)) \in Nat /\ Cardinality(Answered(K)') \in Nat
  BY <1>2, FS_CardinalityType
<1>4. c \notin Answered(K) /\ Answered(K) \subseteq Answered(K)'
  BY Onward, OthersStay DEF Answered
<1>5. Cardinality(Answered(K)) <= Cardinality(Answered(K)')
  BY <1>2, <1>4, FS_Subset
<1>6. ASSUME result'[c] \in K
      PROVE  Cardinality(Answered(K)') = Cardinality(Answered(K)) + 1
  <2>1. Answered(K)' = Answered(K) \cup {c}
    BY <1>6, OthersStay DEF Answered
  <2> QED  BY <2>1, <1>2, <1>4, FS_AddElement
<1> QED  BY <1>2, <1>3, <1>5, <1>6

(* What a step does to the account *)
LEMMA AccountStep ==
  ASSUME TypeOK, CallInv, LockInv, RowInv, NEW c \in Calls, Act(c)
  PROVE  \/ account' = account
         \/ /\ LoginWrong(c) /\ result'[c] = "wrong"
            /\ account' = AfterFailure(c)
            /\ account # NoRow /\ Admin(c) = account
            /\ account'.failed = account.failed + 1
            /\ account'.version = account.version
            /\ account'.lockedUntil \in {account.lockedUntil,
                                         now[c] + LockTicks}
         \/ /\ MfaRight(c) /\ account # NoRow
            /\ account' = [account EXCEPT !.failed = 0, !.lockedUntil = 0]
         \/ /\ RefreshReused(c) \/ Logout(c)
            /\ result'[c] \in {"left", "reused"} /\ account # NoRow
            /\ account' = [account EXCEPT !.version = account.version + 1]
<1>1. CASE LoginWrong(c)
  <2>1. account # NoRow /\ Admin(c) = account
    BY <1>1, Holds DEF LoginWrong, Compared, Locked
  <2>2. account' = AfterFailure(c) /\ result'[c] = "wrong"
    BY <1>1 DEF LoginWrong, Finish, TypeOK
  <2>3. /\ account'.failed = account.failed + 1
        /\ account'.version = account.version
        /\ account'.lockedUntil \in {account.lockedUntil, now[c] + LockTicks}
    BY <2>1, <2>2 DEF AfterFailure, TypeOK
  <2> QED  BY <1>1, <2>1, <2>2, <2>3
<1>2. CASE MfaRight(c)
  <2>1. pc[c] = "locked" /\ Kind(c) # "login"  BY <1>2 DEF MfaRight, Locked
  <2> QED  BY <1>2, <2>1, Holds DEF MfaRight
<1>3. CASE RefreshReused(c) \/ Logout(c)
  <2>1. pc[c] = "locked" /\ Kind(c) # "login"
    BY <1>3 DEF RefreshReused, Logout, Locked
  <2>2. Admin(c) = account /\ account # NoRow  BY <2>1, Holds
  <2>3. result'[c] \in {"left", "reused"}
    BY <1>3 DEF RefreshReused, Logout, Finish, TypeOK
  <2> QED  BY <1>3, <2>2, <2>3 DEF RefreshReused, Logout, NextVersion
<1>4. CASE ~LoginWrong(c) /\ ~MfaRight(c) /\ ~RefreshReused(c) /\ ~Logout(c)
  BY <1>4 DEF Act, Step, Begin, LockChallenge, LockAdmin,
     LoginUnknown, LoginLocked, LoginRight, MfaInvalid, MfaWrong,
     TokenRejected, RefreshRotates, RefreshExpired, Abort, rows
<1> QED  BY <1>1, <1>2, <1>3, <1>4

LEMMA CountStep ==
  ASSUME TypeOK, CallInv, LockInv, RowInv, CountInv, NEW c \in Calls, Act(c)
  PROVE  /\ CountInv'
         /\ account'.failed <= MaxCalls + 1 /\ account'.version <= MaxCalls + 1
<1>0. account.failed \in Nat /\ account.version \in Nat /\ MaxCalls \in Nat
  BY AdminConstants DEF TypeOK
<1>1. \/ account'.failed = account.failed /\ account'.version = account.version
      \/ /\ result'[c] = "wrong"
         /\ account'.failed = account.failed + 1
         /\ account'.version = account.version
      \/ account'.failed = 0 /\ account'.version = account.version
      \/ /\ result'[c] \in {"left", "reused"}
         /\ account'.failed = account.failed
         /\ account'.version = account.version + 1
  BY AccountStep DEF TypeOK
<1>2. /\ Cardinality(Answered({"wrong"})) \in Nat
      /\ Cardinality(Answered({"wrong"})') \in 0 .. MaxCalls
      /\ Cardinality(Answered({"wrong"})) <= Cardinality(Answered({"wrong"})')
      /\ result'[c] = "wrong" => Cardinality(Answered({"wrong"})') =
           Cardinality(Answered({"wrong"})) + 1
  <2>1. "none" \notin {"wrong"}  OBVIOUS
  <2> QED  BY <1>0, <2>1, AnsweredGrows
<1>3. /\ Cardinality(Answered({"left", "reused"})) \in Nat
      /\ Cardinality(Answered({"left", "reused"})') \in 0 .. MaxCalls
      /\ Cardinality(Answered({"left", "reused"})) <=
           Cardinality(Answered({"left", "reused"})')
      /\ result'[c] \in {"left", "reused"} =>
           Cardinality(Answered({"left", "reused"})') =
           Cardinality(Answered({"left", "reused"})) + 1
  <2>1. "none" \notin {"left", "reused"}  OBVIOUS
  <2> QED  BY <1>0, <2>1, AnsweredGrows
<1>4. CountInv'
  BY <1>0, <1>1, <1>2, <1>3 DEF CountInv
<1> QED  BY <1>0, <1>1, <1>2, <1>3, <1>4 DEF CountInv

-----------------------------------------------------------------------------
(* Types *)

(* A step begins a call, takes a lock for it or ends it. *)
LEMMA Kinds ==
  ASSUME NEW c \in Calls, Act(c)
  PROVE  \/ Begin(c) \/ LockChallenge(c) \/ LockAdmin(c)
         \/ \E r \in Ended : Finish(c, r)
  BY DEF Act, Step, LoginUnknown, LoginLocked, LoginWrong, LoginRight,
     MfaInvalid, MfaWrong, MfaRight, TokenRejected, RefreshReused,
     RefreshRotates, RefreshExpired, Logout, Abort, Ended

(* What a step does to the locks and to what is loaded *)
LEMMA LoadedStep ==
  ASSUME TypeOK, CallInv, LockInv, NEW c \in Calls, Act(c)
  PROVE  /\ loaded' \in [Calls -> [admin: AdminRows, challenge: ChallengeRows]]
         /\ adminLock' \in Calls \cup {Nobody}
         /\ challengeLock' \in [Logins -> Calls \cup {Nobody}]
<1>1. NoRow \in AdminRows /\ NoChallenge \in ChallengeRows
  BY AdminConstants DEF AdminRows, ChallengeRows, NoRow, NoChallenge
<1>2. account \in AdminRows /\ challenge \in [Logins -> ChallengeRows]
  BY DEF TypeOK, AdminRows, ChallengeRows
<1>3. Nothing \in [admin: AdminRows, challenge: ChallengeRows]
  BY <1>1 DEF Nothing
<1>4. CASE LockChallenge(c)
  <2>1. request[c].challenge \in Logins
    BY <1>4, Onward, Arguments DEF LockChallenge, CallInv, Kind
  <2> QED  BY <1>2, <1>4, <2>1, SMTT(30) DEF LockChallenge, LockInv, TypeOK
<1>5. CASE LockAdmin(c)
  BY <1>2, <1>5, SMTT(30) DEF LockAdmin, LockInv, TypeOK
<1>6. CASE Begin(c)
  BY <1>6 DEF Begin, LockInv, TypeOK, locks
<1>7. CASE \E r \in Ended : Finish(c, r)
  BY <1>3, <1>7 DEF Finish, Forget, LockInv, TypeOK
<1> QED  BY <1>4, <1>5, <1>6, <1>7, Kinds

LEMMA RevokeType ==
  ASSUME TypeOK, NEW F, NEW r \in Revoked
  PROVE  Revoke(F, r) \in [Logins -> [family: Logins \cup {None},
                                     version: 0 .. MaxCalls + 1,
                                     state: {"none", "live"} \cup Revoked]]
  BY DEF TypeOK, Revoke

LEMMA TypeStep ==
  ASSUME TypeOK, CallInv, LockInv, RowInv, CountInv, NEW c \in Calls, Act(c)
  PROVE  TypeOK'
<1>0. /\ c \in Logins /\ MaxCalls \in Nat /\ MaxClock \in Nat
      /\ LockTicks \in Nat /\ ChallengeTicks \in Nat /\ MaxMfaAttempts \in Nat
      /\ MaxAttempts \in Nat \ {0} /\ now[c] \in 0 .. MaxClock
      /\ clock \in 0 .. MaxClock
  BY Names, AdminConstants DEF TypeOK
<1>1. account' \in [failed: 0 .. MaxCalls + MaxAttempts,
                    lockedUntil: 0 .. MaxClock + LockTicks,
                    version: 0 .. MaxCalls + 1]
  <2>1. account'.failed <= MaxCalls + 1 /\ account'.version <= MaxCalls + 1
    BY CountStep
  <2>2. CASE account' = account
    BY <2>2 DEF TypeOK
  <2>3. CASE LoginWrong(c) /\ Admin(c) = account /\ account' = AfterFailure(c)
    <3>1. PICK until \in {account.lockedUntil, now[c] + LockTicks} :
            account' = [account EXCEPT !.failed = account.failed + 1,
                                       !.lockedUntil = until]
      BY <2>3 DEF AfterFailure
    <3>2. until \in 0 .. MaxClock + LockTicks
      BY <1>0, <3>1 DEF TypeOK
    <3>3. account'.failed = account.failed + 1 /\ account.failed \in Nat
      BY <3>1 DEF TypeOK
    <3>4. account.failed + 1 \in 0 .. MaxCalls + MaxAttempts
      BY <1>0, <2>1, <3>3
    <3>5. account \in [failed: 0 .. MaxCalls + MaxAttempts,
                      lockedUntil: 0 .. MaxClock + LockTicks,
                      version: 0 .. MaxCalls + 1]
      BY DEF TypeOK
    <3>6. account' = [failed |-> account.failed + 1, lockedUntil |-> until,
                      version |-> account.version]
      BY <3>1, <3>5
    <3> QED  BY <3>2, <3>4, <3>5, <3>6
  <2>4. CASE account' = [account EXCEPT !.failed = 0, !.lockedUntil = 0]
    <3>1. account' = [failed |-> 0, lockedUntil |-> 0,
                      version |-> account.version]
      BY <2>4 DEF TypeOK
    <3> QED  BY <1>0, <3>1 DEF TypeOK
  <2>5. CASE account' = [account EXCEPT !.version = account.version + 1]
    BY <1>0, <2>1, <2>5 DEF TypeOK
  <2> QED  BY AccountStep, <2>2, <2>3, <2>4, <2>5
<1>2. failures' \subseteq [call: Logins, address: Addresses, at: 0 .. MaxClock]
  <2>1. CASE failures' = failures
    BY <2>1 DEF TypeOK
  <2>2. CASE LoginUnknown(c) \/ LoginLocked(c) \/ LoginWrong(c)
    <3>1. Locked(c, "login") /\ LogFailure(c)
      BY <2>2 DEF LoginUnknown, LoginLocked, LoginWrong, Compared
    <3>2. request[c].address \in Addresses
      BY <3>1, Arguments DEF CallInv, Locked, Kind
    <3> QED  BY <1>0, <3>1, <3>2 DEF LogFailure, TypeOK
  <2> QED
    BY <2>1, <2>2 DEF Act, Step, Begin, LockChallenge, LockAdmin, LoginRight,
       MfaInvalid, MfaWrong, MfaRight, TokenRejected, RefreshReused,
       RefreshRotates, RefreshExpired, Logout, Abort, rows
<1>3. challenge' \in [Logins -> [expires: 0 .. MaxClock + ChallengeTicks,
                                 attempts: 0 .. MaxMfaAttempts,
                                 state: {"none", "open", "consumed"}]]
  <2>1. CASE challenge' = challenge
    BY <2>1 DEF TypeOK
  <2>2. CASE LoginRight(c)
    BY <1>0, <2>2 DEF LoginRight, TypeOK
  <2>3. CASE MfaWrong(c)
    <3>1. /\ request[c].challenge \in Logins
          /\ loaded[c].challenge = challenge[request[c].challenge]
      BY <2>3, Holds DEF MfaWrong, Locked
    <3> DEFINE n == loaded[c].challenge.attempts + 1
               h == request[c].challenge
    <3>2. loaded[c].challenge.attempts < MaxMfaAttempts
      BY <2>3 DEF MfaWrong, Usable
    <3>3. loaded[c].challenge.attempts \in Nat
      BY <3>1 DEF TypeOK
    <3>4. n \in 0 .. MaxMfaAttempts
      BY <1>0, <3>2, <3>3
    <3>5. challenge' = [challenge EXCEPT ![h].attempts = n]
      BY <2>3 DEF MfaWrong
    <3> HIDE DEF n, h
    <3>6. h \in Logins  BY <3>1 DEF h
    <3>7. challenge \in [Logins -> ChallengeRows]
      BY DEF TypeOK, ChallengeRows
    <3>8. [challenge[h] EXCEPT !.attempts = n] \in ChallengeRows
      BY <3>4, <3>6, <3>7 DEF ChallengeRows
    <3>9. challenge' = [challenge EXCEPT
                          ![h] = [challenge[h] EXCEPT !.attempts = n]]
      BY <3>5
    <3>10. challenge' \in [Logins -> ChallengeRows]
      BY <3>6, <3>7, <3>8, <3>9
    <3> QED  BY <3>10 DEF ChallengeRows
  <2>4. CASE MfaRight(c)
    <3> DEFINE h == request[c].challenge
               used == [challenge[h] EXCEPT !.state = "consumed"]
    <3>1. h \in Logins /\ challenge \in [Logins -> ChallengeRows]
      BY <2>4, Holds DEF MfaRight, Locked, TypeOK, ChallengeRows
    <3>2. used \in ChallengeRows
      BY <3>1 DEF ChallengeRows
    <3>3. challenge' = [challenge EXCEPT ![h] = used]
      BY <2>4 DEF MfaRight
    <3> HIDE DEF h, used
    <3>4. challenge' \in [Logins -> ChallengeRows]
      BY <3>1, <3>2, <3>3
    <3> QED  BY <3>4 DEF ChallengeRows
  <2> QED
    BY <2>1, <2>2, <2>3, <2>4 DEF Act, Step, Begin, LockChallenge, LockAdmin,
       LoginUnknown, LoginLocked, LoginWrong, MfaInvalid, TokenRejected,
       RefreshReused, RefreshRotates, RefreshExpired, Logout, Abort, rows
<1>4. token' \in [Logins -> [family: Logins \cup {None},
                             version: 0 .. MaxCalls + 1,
                             state: {"none", "live"} \cup Revoked]]
  <2>1. CASE token' = token
    BY <2>1 DEF TypeOK
  <2>2. CASE MfaRight(c)
    <3>1. Admin(c) = account
      BY <2>2, Holds DEF MfaRight, Locked
    <3> QED  BY <1>0, <2>2, <3>1 DEF MfaRight, TypeOK
  <2>3. CASE RefreshRotates(c)
    <3>1. Admin(c) = account /\ request[c].token \in Logins
      BY <2>3, Holds DEF RefreshRotates, Locked
    <3> DEFINE t == request[c].token
               new == [family |-> token[t].family, version |-> account.version,
                       state |-> "live"]
    <3>2. token' = [token EXCEPT ![t].state = "rotated", ![c] = new]
      BY <2>3, <3>1 DEF RefreshRotates, Rotated
    <3>3. new \in [family: Logins \cup {None}, version: 0 .. MaxCalls + 1,
                   state: {"none", "live"} \cup Revoked]
      BY <3>1 DEF TypeOK
    <3> HIDE DEF t, new
    <3>4. t \in Logins  BY <3>1 DEF t
    <3> DEFINE Row == [family: Logins \cup {None}, version: 0 .. MaxCalls + 1,
                       state: {"none", "live"} \cup Revoked]
    <3>5. token \in [Logins -> Row] /\ token[t] \in Row
      BY <3>4 DEF TypeOK
    <3>6. [token[t] EXCEPT !.state = "rotated"] \in Row
      BY <3>5 DEF Revoked
    <3>7. token' = [l \in Logins |->
            IF l = c THEN new
            ELSE IF l = t THEN [token[t] EXCEPT !.state = "rotated"]
            ELSE token[l]]
      BY <1>0, <3>2, <3>4, <3>5
    <3> HIDE DEF Row
    <3>8. token' \in [Logins -> Row]
      BY <3>3, <3>5, <3>6, <3>7 DEF Row
    <3> QED  BY <3>8 DEF Row
  <2>4. CASE RefreshReused(c) \/ Logout(c)
    BY <2>4, RevokeType DEF RefreshReused, Logout, Revoked
  <2>5. CASE RefreshExpired(c)
    <3> DEFINE Row == [family: Logins \cup {None}, version: 0 .. MaxCalls + 1,
                       state: {"none", "live"} \cup Revoked]
               t == request[c].token
               spent == [token[t] EXCEPT !.state = "invalid"]
    <3>1. t \in Logins /\ token \in [Logins -> Row]
      BY <2>5, Holds DEF RefreshExpired, Locked, TypeOK
    <3>2. spent \in Row
      BY <3>1 DEF Revoked
    <3>3. token' = [token EXCEPT ![t] = spent]
      BY <2>5 DEF RefreshExpired
    <3> HIDE DEF Row, t, spent
    <3>4. token' \in [Logins -> Row]
      BY <3>1, <3>2, <3>3
    <3> QED  BY <3>4 DEF Row
  <2> QED
    BY <2>1, <2>2, <2>3, <2>4, <2>5 DEF Act, Step, Begin, LockChallenge,
       LockAdmin, LoginUnknown, LoginLocked, LoginWrong, LoginRight, MfaInvalid,
       MfaWrong, TokenRejected, Abort, rows
<1>5. /\ clock' \in 0 .. MaxClock
      /\ pc' \in [Calls -> {"idle", "begun", "locking", "locked", "ended"}]
      /\ now' \in [Calls -> 0 .. MaxClock]
      /\ result' \in [Calls -> Ended \cup {"none"}]
  <2>1. CASE Begin(c)
    BY <2>1, <1>0 DEF TypeOK, Begin
  <2>2. CASE LockChallenge(c) \/ LockAdmin(c)
    BY <2>2, <1>0 DEF TypeOK, LockChallenge, LockAdmin
  <2>3. CASE \E r \in Ended : Finish(c, r)
    BY <2>3, <1>0 DEF TypeOK, Finish, Forget
  <2> QED  BY <2>1, <2>2, <2>3, Kinds
<1>6. request' \in [Calls -> Requests \cup {None}]
  BY DEF TypeOK, Act, Step, Begin, LockChallenge, LockAdmin,
     LoginUnknown, LoginLocked, LoginWrong, LoginRight, MfaInvalid, MfaWrong,
     MfaRight, TokenRejected, RefreshReused, RefreshRotates, RefreshExpired,
     Logout, Abort, Finish, Forget
<1>7. issued' \in [Calls -> SUBSET Logins]
  <2>1. CASE issued' = issued
    BY <2>1 DEF TypeOK
  <2>2. CASE issued' = [issued EXCEPT ![c] = Issued]
    BY <2>2 DEF TypeOK, Issued
  <2> QED
    BY <2>1, <2>2 DEF Act, Step, Begin, LockChallenge, LockAdmin,
       LoginUnknown, LoginLocked, LoginWrong, LoginRight, MfaInvalid, MfaWrong,
       MfaRight, TokenRejected, RefreshReused, RefreshRotates, RefreshExpired,
       Logout, Abort
<1> QED
  BY <1>1, <1>2, <1>3, <1>4, <1>5, <1>6, <1>7, LoadedStep DEF TypeOK

-----------------------------------------------------------------------------
(* What a step does to challenges and tokens: it makes at most those of its
   own name, and changes of the others only what it has locked. *)

LEMMA ChallengeStep ==
  ASSUME TypeOK, CallInv, LockInv, RowInv, NEW c \in Calls, Act(c)
  PROVE  \A l \in Logins :
           /\ challenge[l].state # "none" => challenge'[l].state # "none"
           /\ challenge'[l].state # "none" => account # NoRow
           /\ l # c /\ challenge'[l] # challenge[l] =>
                /\ pc[c] = "locked" /\ Kind(c) = "verify_mfa"
                /\ request[c].challenge = l
           /\ l = c /\ challenge'[l] # challenge[l] => LoginRight(c)
<1>1. CASE LoginRight(c)
  <2>1. account # NoRow
    BY <1>1, Holds DEF LoginRight, Compared, Locked
  <2>2. challenge' = [challenge EXCEPT ![c] =
          [expires |-> now[c] + ChallengeTicks, attempts |-> 0,
           state |-> "open"]]
    BY <1>1 DEF LoginRight
  <2> QED  BY <1>1, <2>1, <2>2 DEF TypeOK
<1>2. CASE MfaWrong(c) \/ MfaRight(c)
  <2> DEFINE h == request[c].challenge
  <2>1. /\ pc[c] = "locked" /\ Kind(c) = "verify_mfa" /\ account # NoRow
        /\ h \in Logins /\ challenge[h].state # "none"
    BY <1>2, Holds DEF MfaWrong, MfaRight, Locked
  <2>2. h # c
    BY <2>1 DEF CallInv, NoChallenge
  <2>3. \/ challenge' = [challenge EXCEPT ![h].attempts =
                           loaded[c].challenge.attempts + 1]
        \/ challenge' = [challenge EXCEPT ![h].state = "consumed"]
    BY <1>2 DEF MfaWrong, MfaRight
  <2>4. challenge \in [Logins -> [expires: 0 .. MaxClock + ChallengeTicks,
                                  attempts: 0 .. MaxMfaAttempts,
                                  state: {"none", "open", "consumed"}]]
    BY DEF TypeOK
  <2>5. \A l \in Logins : l # h => challenge'[l] = challenge[l]
    BY <2>3, <2>4
  <2>6. challenge'[h].state # "none"
    BY <2>1, <2>3, <2>4
  <2> QED  BY <2>1, <2>2, <2>5, <2>6
<1>3. CASE ~LoginRight(c) /\ ~MfaWrong(c) /\ ~MfaRight(c)
  <2>1. challenge' = challenge
    BY <1>3 DEF Act, Step, Begin, LockChallenge, LockAdmin, LoginUnknown,
       LoginLocked, LoginWrong, MfaInvalid, TokenRejected, RefreshReused,
       RefreshRotates, RefreshExpired, Logout, Abort, rows
  <2> QED  BY <2>1 DEF RowInv
<1> QED  BY <1>1, <1>2, <1>3

LEMMA RevokeStep ==
  ASSUME TypeOK, NEW F, NEW r \in Revoked, token' = Revoke(F, r)
  PROVE  \A l \in Logins :
           /\ token'[l].family = token[l].family
           /\ token'[l].version = token[l].version
           /\ token[l].state # "none" => token'[l].state # "none"
           /\ token'[l].state = "live" =>
                token[l].state = "live" /\ token[l].family \notin F
           /\ token[l].state = "none" => token'[l] = token[l]
<1> SUFFICES ASSUME NEW l \in Logins
             PROVE  /\ token'[l].family = token[l].family
                    /\ token'[l].version = token[l].version
                    /\ token[l].state # "none" => token'[l].state # "none"
                    /\ token'[l].state = "live" =>
                         token[l].state = "live" /\ token[l].family \notin F
                    /\ token[l].state = "none" => token'[l] = token[l]
  OBVIOUS
<1>1. token'[l] = IF token[l].state = "live" /\ token[l].family \in F
                   THEN [token[l] EXCEPT !.state = r] ELSE token[l]
  BY DEF Revoke
<1> QED  BY <1>1 DEF TypeOK, Revoked

LEMMA TokenStep ==
  ASSUME TypeOK, CallInv, LockInv, RowInv, NEW c \in Calls, Act(c)
  PROVE  /\ \A l \in Logins : token[l].state # "none" =>
              /\ token'[l].state # "none"
              /\ token'[l].family = token[l].family
              /\ token'[l].version = token[l].version
              /\ token'[l].state = "live" => token[l].state = "live"
         /\ \A l \in Logins \ {c} : token[l].state = "none" =>
              token'[l] = token[l]
         /\ \/ token'[c] = token[c]
            \/ /\ MfaRight(c) \/ RefreshRotates(c)
               /\ account' # NoRow /\ token'[c].version = account.version
               /\ account'.version = account.version /\ token'[c].state = "live"
               /\ MfaRight(c) => token'[c].family = c
               /\ RefreshRotates(c) =>
                    /\ request[c].token \in Logins \ {c}
                    /\ token[request[c].token].state = "live"
                    /\ token'[request[c].token].state = "rotated"
                    /\ token'[c].family = token[request[c].token].family
<1>0. c \in Logins /\ token[c].state = "none"
  <2>1. pc[c] # "ended"
    BY Onward
  <2>2. token[c] = NoTokenRow
    BY <2>1 DEF CallInv
  <2> QED  BY <2>2, Names DEF NoTokenRow
<1>1. CASE MfaRight(c)
  <2>1. Admin(c) = account /\ account # NoRow
    BY <1>1, Holds DEF MfaRight, Locked
  <2>2. /\ token' = [token EXCEPT ![c] =
             [family |-> c, version |-> account.version, state |-> "live"]]
        /\ account' = [account EXCEPT !.failed = 0, !.lockedUntil = 0]
        /\ account'.version = account.version
    BY <1>1, <2>1 DEF MfaRight, TypeOK
  <2>3. account' # NoRow
    BY <2>1, <2>2 DEF RowInv, NoRow
  <2>4. ~RefreshRotates(c)
    BY <1>1 DEF MfaRight, RefreshRotates, Locked
  <2> QED  BY <1>0, <1>1, <2>1, <2>2, <2>3, <2>4 DEF TypeOK
<1>2. CASE RefreshRotates(c)
  <2> DEFINE t == request[c].token
             new == [family |-> token[t].family, version |-> account.version,
                     state |-> "live"]
  <2>1. /\ Admin(c) = account /\ account # NoRow /\ t \in Logins
        /\ token[t].state = "live" /\ account' = account
    BY <1>2, Holds DEF RefreshRotates, Locked
  <2>2. t # c
    BY <1>0, <2>1
  <2>3. token' = [token EXCEPT ![t].state = "rotated", ![c] = new]
    BY <1>2, <2>1 DEF RefreshRotates, Rotated
  <2>4. /\ token'[c] = new
        /\ token'[t] = [token[t] EXCEPT !.state = "rotated"]
        /\ \A l \in Logins \ {t, c} : token'[l] = token[l]
    BY <1>0, <2>1, <2>2, <2>3 DEF TypeOK
  <2>5. /\ token'[t].state = "rotated" /\ token'[t].family = token[t].family
        /\ token'[t].version = token[t].version
    BY <2>1, <2>4 DEF TypeOK
  <2>6. ~MfaRight(c)
    BY <1>2 DEF MfaRight, RefreshRotates, Locked
  <2>7. \A l \in Logins : token[l].state # "none" =>
          /\ token'[l].state # "none"
          /\ token'[l].family = token[l].family
          /\ token'[l].version = token[l].version
          /\ token'[l].state = "live" => token[l].state = "live"
    BY <1>0, <2>1, <2>4, <2>5
  <2>8. \A l \in Logins \ {c} : token[l].state = "none" => token'[l] = token[l]
    BY <2>1, <2>4
  <2> QED  BY <1>2, <2>1, <2>2, <2>4, <2>5, <2>6, <2>7, <2>8
<1>3. CASE RefreshReused(c) \/ Logout(c)
  <2>1. CASE RefreshReused(c)
    BY <1>0, <2>1, RevokeStep DEF RefreshReused, Revoked
  <2>2. CASE Logout(c)
    BY <1>0, <2>2, RevokeStep DEF Logout, Revoked
  <2> QED  BY <1>3, <2>1, <2>2
<1>4. CASE RefreshExpired(c)
  <2> DEFINE t == request[c].token
  <2>1. t \in Logins /\ token[t].state = "live"
    BY <1>4, Holds DEF RefreshExpired, Locked
  <2>2. token' = [token EXCEPT ![t].state = "invalid"]
    BY <1>4 DEF RefreshExpired
  <2>3. /\ token'[t].state = "invalid" /\ token'[t].family = token[t].family
        /\ token'[t].version = token[t].version
        /\ \A l \in Logins \ {t} : token'[l] = token[l]
    BY <2>1, <2>2 DEF TypeOK
  <2> HIDE DEF t
  <2> QED  BY <1>0, <2>1, <2>3
<1>5. CASE token' = token
  BY <1>5
<1> QED
  BY <1>1, <1>2, <1>3, <1>4, <1>5 DEF Act, Step, Begin, LockChallenge,
     LockAdmin, LoginUnknown, LoginLocked, LoginWrong, LoginRight, MfaInvalid,
     MfaWrong, TokenRejected, Abort, rows

LEMMA AccountStays ==
  ASSUME TypeOK, CallInv, LockInv, RowInv, NEW c \in Calls, Act(c)
  PROVE  /\ account = NoRow <=> account' = NoRow
         /\ account' = NoRow <=> account'.version = 0
         /\ account'.version >= account.version
         /\ account.version \in Nat /\ account'.version \in Nat
<1>1. \/ account' = account
      \/ /\ account # NoRow
         /\ account'.version \in {account.version, account.version + 1}
  BY AccountStep DEF TypeOK
<1>2. account.version \in Nat
  BY DEF TypeOK
<1> QED  BY <1>1, <1>2 DEF RowInv, NoRow

-----------------------------------------------------------------------------
(* What requests name, and what calls have loaded *)

LEMMA CallStep ==
  ASSUME TypeOK, CallInv, LockInv, RowInv, NEW c \in Calls, Act(c)
  PROVE  CallInv'
<1>1. ASSUME NEW d \in Calls, d # c
      PROVE  /\ pc'[d] # "idle" =>
                  /\ request'[d] \in Requests
                  /\ Kind(d)' = "verify_mfa" =>
                       challenge'[request'[d].challenge].state # "none"
                  /\ Kind(d)' = "refresh" =>
                       token'[request'[d].token].state # "none"
                  /\ Kind(d)' = "logout" => account' # NoRow
             /\ pc'[d] = "locking" => Kind(d)' = "verify_mfa"
             /\ pc'[d] # "ended" =>
                  /\ result'[d] = "none" /\ issued'[d] = {}
                  /\ challenge'[d] = NoChallenge /\ token'[d] = NoTokenRow
             /\ result'[d] = "opened" => Kind(d)' = "verify_mfa"
             /\ result'[d] = "reused" => Kind(d)' = "refresh"
  <2>1. /\ pc'[d] = pc[d] /\ request'[d] = request[d]
        /\ result'[d] = result[d] /\ issued'[d] = issued[d] /\ d \in Logins
        /\ Kind(d)' = Kind(d)
    BY <1>1, OthersStay, Names DEF Kind
  <2>2. pc[d] # "idle" =>
          /\ request[d] \in Requests
          /\ Kind(d) = "verify_mfa" =>
               challenge'[request[d].challenge].state # "none"
          /\ Kind(d) = "refresh" => token'[request[d].token].state # "none"
          /\ Kind(d) = "logout" => account' # NoRow
    BY Arguments, ChallengeStep, TokenStep, AccountStays DEF CallInv, Kind
  <2>3. pc[d] # "ended" =>
          challenge'[d] = NoChallenge /\ token'[d] = NoTokenRow
    <3>1. ASSUME pc[d] # "ended"
          PROVE  challenge[d] = NoChallenge /\ token[d] = NoTokenRow
      BY <3>1 DEF CallInv
    <3>2. ASSUME challenge'[d] # challenge[d]
          PROVE  challenge[d].state # "none"
      BY <1>1, <2>1, <3>2, ChallengeStep, Holds
    <3> QED  BY <1>1, <2>1, <3>1, <3>2, TokenStep DEF NoChallenge, NoTokenRow
  <2> QED  BY <2>1, <2>2, <2>3 DEF CallInv
<1>2. /\ pc'[c] # "idle" /\ request'[c] \in Requests
      /\ Kind(c)' = "verify_mfa" =>
           challenge'[request'[c].challenge].state # "none"
      /\ Kind(c)' = "refresh" => token'[request'[c].token].state # "none"
      /\ Kind(c)' = "logout" => account' # NoRow
  <2>1. pc'[c] # "idle" /\ request'[c] \in Requests
    BY Onward
  <2>2. CASE Begin(c)
    <3>1. Presentable(request'[c])
      BY <2>2 DEF Begin, TypeOK
    <3>2. UNCHANGED <<challenge, token, account>>
      BY <2>2 DEF Begin, rows
    <3>3. /\ request'[c].kind = "verify_mfa" =>
               challenge[request'[c].challenge].state # "none"
          /\ request'[c].kind = "refresh" =>
               token[request'[c].token].state # "none"
          /\ request'[c].kind = "logout" => account # NoRow
      BY <3>1 DEF Presentable, Issued, RowInv
    <3> QED  BY <2>1, <3>2, <3>3 DEF Kind
  <2>3. CASE ~Begin(c)
    <3>1. request'[c] = request[c] /\ pc[c] # "idle"
      BY <2>3, Onward
    <3> QED
      BY <2>1, <3>1, Arguments, ChallengeStep, TokenStep, AccountStays
         DEF CallInv, Kind
  <2> QED  BY <2>2, <2>3
<1>3. pc'[c] = "locking" => Kind(c)' = "verify_mfa"
  <2>1. CASE LockChallenge(c)
    BY <2>1 DEF LockChallenge, Kind
  <2>2. CASE ~LockChallenge(c)
    BY <2>2, Kinds DEF TypeOK, Begin, LockAdmin, Finish
  <2> QED  BY <2>1, <2>2
<1>4. pc'[c] # "ended" =>
        /\ result'[c] = "none" /\ issued'[c] = {}
        /\ challenge'[c] = NoChallenge /\ token'[c] = NoTokenRow
  <2>1. ASSUME pc'[c] # "ended"
        PROVE  Begin(c) \/ LockChallenge(c) \/ LockAdmin(c)
    BY <2>1, Kinds DEF TypeOK, Finish
  <2> QED
    BY <2>1, Onward DEF CallInv, Begin, LockChallenge, LockAdmin, rows
<1>5. result'[c] = "opened" => Kind(c)' = "verify_mfa"
  <2>1. ASSUME result'[c] = "opened"
        PROVE  Locked(c, "verify_mfa") /\ request'[c] = request[c]
    BY <2>1, Onward, ZenonT(60) DEF TypeOK, CallInv, Act, Step, Begin,
       LockChallenge, LockAdmin, LoginUnknown, LoginLocked, LoginWrong,
       LoginRight, MfaInvalid, MfaWrong, MfaRight, TokenRejected, RefreshReused,
       RefreshRotates, RefreshExpired, Logout, Abort, Finish, Forget
  <2> QED  BY <2>1 DEF Locked, Kind
<1>6. result'[c] = "reused" => Kind(c)' = "refresh"
  <2>1. ASSUME result'[c] = "reused"
        PROVE  Locked(c, "refresh") /\ request'[c] = request[c]
    BY <2>1, Onward, ZenonT(60) DEF TypeOK, CallInv, Act, Step, Begin,
       LockChallenge, LockAdmin, LoginUnknown, LoginLocked, LoginWrong,
       LoginRight, MfaInvalid, MfaWrong, MfaRight, TokenRejected, RefreshReused,
       RefreshRotates, RefreshExpired, Logout, Abort, Finish, Forget
  <2> QED  BY <2>1 DEF Locked, Kind
<1> QED  BY <1>1, <1>2, <1>3, <1>4, <1>5, <1>6 DEF CallInv, Kind

(* A call keeps its locks while another steps. *)
LEMMA LocksKept ==
  ASSUME TypeOK, CallInv, LockInv, NEW c \in Calls, Act(c),
         NEW d \in Calls, d # c
  PROVE  /\ adminLock = d => adminLock' = d
         /\ \A h \in Logins : challengeLock[h] = d => challengeLock'[h] = d
<1>0. d # Nobody
  BY Names
<1>1. CASE Begin(c)
  BY <1>1 DEF Begin, locks
<1>2. CASE LockChallenge(c)
  BY <1>0, <1>2 DEF LockChallenge, TypeOK
<1>3. CASE LockAdmin(c)
  BY <1>0, <1>3 DEF LockAdmin
<1>4. CASE \E r \in Ended : Finish(c, r)
  BY <1>4 DEF Finish
<1> QED  BY <1>1, <1>2, <1>3, <1>4, Kinds

(* Whoever changes the account has its lock. *)
LEMMA AccountLocked ==
  ASSUME TypeOK, CallInv, LockInv, RowInv, NEW c \in Calls, Act(c),
         account' # account
  PROVE  adminLock = c
<1>1. pc[c] = "locked" /\ (Kind(c) # "login" \/ Admin(c) # NoRow)
  BY AccountStep DEF LoginWrong, MfaRight, RefreshReused, Logout, Compared,
     Locked
<1> QED  BY <1>1, Holds

LEMMA LockStep ==
  ASSUME TypeOK, CallInv, LockInv, RowInv, NEW c \in Calls, Act(c)
  PROVE  LockInv'
<1>0. loaded' \in [Calls -> [admin: AdminRows, challenge: ChallengeRows]]
  BY LoadedStep
<1>1. ASSUME NEW d \in Calls, d # c
      PROVE  /\ pc'[d] # "locked" => Admin(d)' = NoRow
             /\ pc'[d] = "locked" /\ Admin(d)' = NoRow => Kind(d)' = "login"
             /\ pc'[d] = "locked" /\ Admin(d)' # NoRow =>
                  adminLock' = d /\ Admin(d)' = account'
             /\ pc'[d] \in {"locking", "locked"} /\ Kind(d)' = "verify_mfa" =>
                  /\ challengeLock'[request'[d].challenge] = d
                  /\ loaded'[d].challenge = challenge'[request'[d].challenge]
  <2>1. /\ pc'[d] = pc[d] /\ request'[d] = request[d]
        /\ loaded'[d] = loaded[d] /\ Kind(d)' = Kind(d) /\ Admin(d)' = Admin(d)
    BY <1>1, OthersStay DEF Kind, Admin
  <2>2. pc[d] = "locked" /\ Admin(d) # NoRow =>
          adminLock' = d /\ Admin(d) = account'
    BY <1>1, LocksKept, AccountLocked DEF LockInv
  <2>3. ASSUME pc[d] \in {"locking", "locked"}, Kind(d) = "verify_mfa"
        PROVE  /\ challengeLock'[request[d].challenge] = d
               /\ loaded[d].challenge = challenge'[request[d].challenge]
    <3> DEFINE h == request[d].challenge
    <3>1. /\ h \in Logins /\ challenge[h].state # "none"
          /\ challengeLock[h] = d /\ loaded[d].challenge = challenge[h]
      BY <2>3, Arguments DEF CallInv, LockInv, Kind
    <3>2. h # c
      BY <3>1, Onward DEF CallInv, NoChallenge
    <3>3. challenge'[h] = challenge[h]
      BY <1>1, <3>1, <3>2, ChallengeStep, Holds
    <3> QED  BY <1>1, <3>1, <3>3, LocksKept
  <2> QED  BY <2>1, <2>2, <2>3 DEF LockInv
<1>2. /\ pc'[c] # "locked" => Admin(c)' = NoRow
      /\ pc'[c] = "locked" /\ Admin(c)' = NoRow => Kind(c)' = "login"
      /\ pc'[c] = "locked" /\ Admin(c)' # NoRow =>
           adminLock' = c /\ Admin(c)' = account'
      /\ pc'[c] \in {"locking", "locked"} /\ Kind(c)' = "verify_mfa" =>
           /\ challengeLock'[request'[c].challenge] = c
           /\ loaded'[c].challenge = challenge'[request'[c].challenge]
  <2>1. CASE Begin(c)
    <3>1. pc'[c] = "begun" /\ Admin(c)' = NoRow
      BY <2>1 DEF Begin, LockInv, TypeOK, Admin
    <3> QED  BY <3>1
  <2>2. CASE LockChallenge(c)
    <3>1. /\ pc'[c] = "locking" /\ Kind(c)' = "verify_mfa"
          /\ request'[c] = request[c]
      BY <2>2 DEF LockChallenge, TypeOK, Kind
    <3>2. Admin(c)' = NoRow
      <4>1. loaded' = [loaded EXCEPT ![c].challenge =
                         challenge[request[c].challenge]]
        BY <2>2 DEF LockChallenge
      <4>2. Admin(c) = NoRow
        BY <2>2 DEF LockChallenge, LockInv
      <4> QED  BY <4>1, <4>2 DEF LockInv, Admin
    <3>3. request[c].challenge \in Logins
      BY <2>2, Arguments DEF LockChallenge, CallInv, Kind
    <3>4. /\ challengeLock'[request[c].challenge] = c
          /\ loaded'[c].challenge = challenge'[request[c].challenge]
      BY <2>2, <3>3 DEF LockChallenge, LockInv, TypeOK, rows
    <3> QED  BY <3>1, <3>2, <3>4
  <2>3. CASE LockAdmin(c)
    <3>1. /\ pc'[c] = "locked" /\ Kind(c)' = Kind(c) /\ pc[c] # "idle"
          /\ request'[c] = request[c] /\ pc[c] \in {"begun", "locking"}
          /\ UNCHANGED <<challengeLock, challenge, account>>
      BY <2>3 DEF LockAdmin, TypeOK, Kind, rows
    <3>2. account = NoRow => Kind(c) = "login"
      <4>1. request[c] \in Requests
        BY <3>1 DEF CallInv
      <4> QED  BY <3>1, <4>1, Arguments DEF CallInv, RowInv, Kind
    <3>3. Admin(c)' = account
      <4>1. Admin(c) = NoRow
        BY <3>1 DEF LockInv
      <4> QED  BY <2>3, <4>1 DEF LockAdmin, LockInv, Admin
    <3>4. account # NoRow => adminLock' = c
      BY <2>3 DEF LockAdmin
    <3>5. loaded'[c].challenge = loaded[c].challenge
      BY <2>3 DEF LockAdmin, LockInv
    <3>6. Kind(c) = "verify_mfa" =>
            /\ challengeLock[request[c].challenge] = c
            /\ loaded[c].challenge = challenge[request[c].challenge]
      BY <2>3, <3>1 DEF LockAdmin, LockInv
    <3> QED  BY <3>1, <3>2, <3>3, <3>4, <3>5, <3>6
  <2>4. CASE \E r \in Ended : Finish(c, r)
    BY <2>4 DEF Finish, Forget, TypeOK, LockInv, Admin, Nothing
  <2> QED  BY <2>1, <2>2, <2>3, <2>4, Kinds
<1> QED  BY <1>0, <1>1, <1>2 DEF LockInv, Admin, Kind

-----------------------------------------------------------------------------
(* The rows *)

LEMMA RowStep ==
  ASSUME TypeOK, CallInv, LockInv, RowInv, NEW c \in Calls, Act(c)
  PROVE  RowInv'
<1>1. account' = NoRow <=> account'.version = 0
  BY AccountStays
<1>2. \A h \in Logins : challenge'[h].state # "none" => account' # NoRow
  BY ChallengeStep, AccountStays
<1>3. ASSUME NEW t \in Logins, token'[t].state # "none"
      PROVE  /\ token'[t].version \in 1 .. account'.version
             /\ token'[t].family \in Logins
             /\ token'[token'[t].family].state # "none"
  <2>0. account.version \in Nat /\ account'.version \in Nat
    BY AccountStays
  <2>1. CASE token[t].state # "none"
    <3>1. /\ token'[t].family = token[t].family
          /\ token'[t].version = token[t].version
      BY <2>1, TokenStep
    <3>2. /\ token[t].version \in 1 .. account.version
          /\ token[t].family \in Logins
          /\ token[token[t].family].state # "none"
      BY <2>1 DEF RowInv
    <3>3. token'[token[t].family].state # "none"
      BY <3>2, TokenStep
    <3> QED  BY <2>0, <3>1, <3>2, <3>3, AccountStays
  <2>2. CASE token[t].state = "none"
    <3>1. t = c
      BY <1>3, <2>2, TokenStep
    <3>2. /\ MfaRight(c) \/ RefreshRotates(c)
          /\ account' # NoRow /\ token'[c].version = account.version
          /\ account'.version = account.version
          /\ MfaRight(c) => token'[c].family = c
          /\ RefreshRotates(c) =>
               /\ request[c].token \in Logins
               /\ token[request[c].token].state = "live"
               /\ token'[c].family = token[request[c].token].family
      BY <1>3, <2>2, <3>1, TokenStep
    <3>3. token'[c].version \in 1 .. account'.version
      BY <2>0, <3>2, <1>1
    <3>4. CASE MfaRight(c)
      BY <1>3, <3>1, <3>2, <3>3, <3>4
    <3>5. CASE RefreshRotates(c)
      <4>1. /\ token[request[c].token].family \in Logins
            /\ token[token[request[c].token].family].state # "none"
        BY <3>2, <3>5 DEF RowInv
      <4> QED  BY <3>1, <3>2, <3>3, <3>5, <4>1, TokenStep
    <3> QED  BY <3>2, <3>4, <3>5
  <2> QED  BY <2>1, <2>2
<1> QED  BY <1>1, <1>2, <1>3 DEF RowInv

(* A family has one live token at most: a step that adds one to a family
   spends the one it had. *)
LEMMA LiveStep ==
  ASSUME TypeOK, CallInv, LockInv, RowInv, OneLiveTokenPerFamily,
         NEW c \in Calls, Act(c)
  PROVE  OneLiveTokenPerFamily'
<1> SUFFICES ASSUME NEW t \in Logins, NEW u \in Logins, t # u,
                    token'[t].state = "live", token'[u].state = "live",
                    token'[t].family = token'[u].family, u # c
             PROVE  FALSE
  BY DEF OneLiveTokenPerFamily
<1>1. /\ token[u].state = "live" /\ token[u].family = token'[u].family
      /\ token[token[u].family].state # "none"
  <2>1. token[u].state # "none"
    BY TokenStep
  <2> QED  BY <2>1, TokenStep DEF RowInv
<1>2. CASE token[t].state # "none"
  BY <1>1, <1>2, TokenStep DEF OneLiveTokenPerFamily
<1>3. CASE token[t].state = "none"
  <2>1. t = c
    BY <1>3, TokenStep
  <2>2. CASE MfaRight(c)
    BY <1>1, <1>3, <2>1, <2>2, TokenStep
  <2>3. CASE RefreshRotates(c)
    BY <1>1, <1>3, <2>1, <2>3, TokenStep DEF OneLiveTokenPerFamily
  <2> QED  BY <1>3, <2>1, <2>2, <2>3, TokenStep
<1> QED  BY <1>2, <1>3

(* Of the tokens that existed at a logout or a reuse, the version has passed. *)
LEMMA IssuedStep ==
  ASSUME TypeOK, CallInv, LockInv, RowInv, IssuedInv, NEW c \in Calls, Act(c)
  PROVE  IssuedInv'
<1>1. ASSUME NEW d \in Calls, d # c, NEW t \in issued'[d]
      PROVE  /\ token'[t].state # "none"
             /\ token'[t].version < account'.version
             /\ result'[d] = "left" => token'[t].state # "live"
  <2>1. issued'[d] = issued[d] /\ result'[d] = result[d] /\ t \in Logins
    BY <1>1, OthersStay DEF TypeOK
  <2>2. /\ token[t].state # "none" /\ token[t].version < account.version
        /\ result[d] = "left" => token[t].state # "live"
    BY <1>1, <2>1 DEF IssuedInv
  <2>3. token[t].version \in Nat
    BY <2>1 DEF TypeOK
  <2> QED  BY <2>1, <2>2, <2>3, TokenStep, AccountStays
<1>2. ASSUME NEW t \in issued'[c]
      PROVE  /\ token'[t].state # "none"
             /\ token'[t].version < account'.version
             /\ result'[c] = "left" => token'[t].state # "live"
  <2>1. CASE RefreshReused(c) \/ Logout(c)
    <3>1. /\ issued'[c] = Issued
          /\ account'.version = account.version + 1
      <4>1. Admin(c) = account
        BY <2>1, Holds DEF RefreshReused, Logout, Locked
      <4> QED  BY <2>1, <4>1 DEF RefreshReused, Logout, NextVersion, TypeOK
    <3>2. t \in Logins /\ token[t].state # "none"
      BY <1>2, <3>1 DEF Issued
    <3>3. token[t].version \in 1 .. account.version /\ account.version \in Nat
      BY <3>2 DEF RowInv, TypeOK
    <3>4. /\ token'[t].state # "none"
          /\ token'[t].version < account'.version
      BY <3>1, <3>2, <3>3, TokenStep
    <3>5. result'[c] = "left" => token'[t].state # "live"
      <4>1. CASE RefreshReused(c)
        BY <4>1 DEF RefreshReused, Finish, TypeOK
      <4>2. CASE Logout(c)
        <5>1. token' = Revoke(Logins, "logout")
          BY <4>2 DEF Logout
        <5>2. token'[t].state = "live" => token[t].family \notin Logins
          BY <3>2, <5>1, RevokeStep DEF Revoked
        <5> QED  BY <3>2, <5>2 DEF RowInv
      <4> QED  BY <2>1, <4>1, <4>2
    <3> QED  BY <3>4, <3>5
  <2>2. CASE ~RefreshReused(c) /\ ~Logout(c)
    <3>1. issued' = issued
      BY <2>2 DEF Act, Step, Begin, LockChallenge, LockAdmin, LoginUnknown,
         LoginLocked, LoginWrong, LoginRight, MfaInvalid, MfaWrong, MfaRight,
         TokenRejected, RefreshRotates, RefreshExpired, Abort
    <3> QED  BY <1>2, <3>1, Onward
  <2> QED  BY <2>1, <2>2
<1> QED  BY <1>1, <1>2 DEF IssuedInv

(* A family that was reused has no live token, and none joins it. *)
LEMMA ReuseStep ==
  ASSUME TypeOK, CallInv, LockInv, RowInv, IssuedInv, ReuseEndsFamily,
         NEW c \in Calls, Act(c)
  PROVE  ReuseEndsFamily'
<1>1. ASSUME NEW d \in Calls, result'[d] = "reused", NEW t \in issued'[d]
      PROVE  ~AccessValid(t)'
  <2>1. IssuedInv'
    BY IssuedStep
  <2>2. token'[t].version < account'.version
    BY <1>1, <2>1 DEF IssuedInv
  <2>3. account'.version \in Nat
    BY AccountStays
  <2> QED  BY <2>2, <2>3 DEF AccessValid
<1>2. ASSUME NEW d \in Calls, result'[d] = "reused", NEW t \in Logins,
             token'[t].family = token'[request'[d].token].family,
             token'[t].state = "live"
      PROVE  FALSE
  <2>1. CASE d # c
    <3> DEFINE u == request[d].token
    <3>1. result[d] = "reused" /\ request'[d] = request[d]
      BY <1>2, <2>1, OthersStay
    <3>2. u \in Logins /\ token[u].state # "none"
      BY <3>1, Arguments DEF CallInv, Kind
    <3>3. token'[t].family = token[u].family
      BY <1>2, <3>1, <3>2, TokenStep
    <3>4. CASE token[t].state # "none"
      BY <1>2, <3>1, <3>3, <3>4, TokenStep DEF ReuseEndsFamily
    <3>5. CASE token[t].state = "none"
      <4>1. t = c
        BY <1>2, <3>5, TokenStep
      <4>2. CASE MfaRight(c)
        <5>1. token[u].family = c
          BY <1>2, <3>3, <3>5, <4>1, <4>2, TokenStep
        <5> QED  BY <3>2, <3>5, <4>1, <5>1 DEF RowInv
      <4>3. CASE RefreshRotates(c)
        <5>1. /\ request[c].token \in Logins
              /\ token[request[c].token].state = "live"
              /\ token[request[c].token].family = token[u].family
          BY <1>2, <3>3, <3>5, <4>1, <4>3, TokenStep
        <5> QED  BY <3>1, <5>1 DEF ReuseEndsFamily
      <4> QED  BY <1>2, <3>5, <4>1, <4>2, <4>3, TokenStep
    <3> QED  BY <3>4, <3>5
  <2>2. CASE d = c
    <3>1. RefreshReused(c)
      BY <1>2, <2>2, Onward, ZenonT(60) DEF TypeOK, Act, Step, Begin,
         LockChallenge, LockAdmin, LoginUnknown, LoginLocked, LoginWrong,
         LoginRight, MfaInvalid, MfaWrong, MfaRight, TokenRejected,
         RefreshRotates, RefreshExpired, Logout, Abort, Finish
    <3> DEFINE u == request[c].token
    <3>2. /\ token' = Revoke({token[u].family}, "reused")
          /\ request'[c] = request[c] /\ u \in Logins
      BY <3>1, Holds DEF RefreshReused, Finish, Forget, Locked
    <3>3. /\ token'[t].family = token[t].family
          /\ token'[u].family = token[u].family
          /\ token[t].family # token[u].family
      BY <1>2, <3>2, RevokeStep DEF Revoked
    <3> QED  BY <1>2, <2>2, <3>2, <3>3
  <2> QED  BY <2>1, <2>2
<1> QED  BY <1>1, <1>2 DEF ReuseEndsFamily

-----------------------------------------------------------------------------
(* Challenges: one opened session, and no more wrong codes than are counted *)

LEMMA AnswersFinite ==
  ASSUME NEW h, NEW r
  PROVE  /\ IsFiniteSet(MfaAnswers(h, r)) /\ IsFiniteSet(MfaAnswers(h, r)')
         /\ Cardinality(MfaAnswers(h, r)) \in Nat
         /\ Cardinality(MfaAnswers(h, r)') \in Nat
<1>1. MfaAnswers(h, r) \subseteq Calls /\ MfaAnswers(h, r)' \subseteq Calls
  BY DEF MfaAnswers
<1>2. IsFiniteSet(MfaAnswers(h, r)) /\ IsFiniteSet(MfaAnswers(h, r)')
  BY <1>1, CallsFinite, FS_Subset
<1> QED  BY <1>2, FS_CardinalityType

(* A step adds its own call at most, if it answers that challenge so. *)
LEMMA AnswersGrow ==
  ASSUME TypeOK, CallInv, LockInv, NEW c \in Calls, Act(c), NEW h, NEW r
  PROVE  /\ \/ MfaAnswers(h, r)' = MfaAnswers(h, r)
            \/ MfaAnswers(h, r)' = MfaAnswers(h, r) \cup {c}
         /\ ~(/\ result'[c] = r /\ Kind(c)' = "verify_mfa"
              /\ request'[c].challenge = h) =>
              MfaAnswers(h, r)' = MfaAnswers(h, r)
<1>1. MfaAnswers(h, r) \subseteq MfaAnswers(h, r)'
  BY Onward, OthersStay DEF MfaAnswers, Kind
<1>2. MfaAnswers(h, r)' \subseteq MfaAnswers(h, r) \cup {c}
  BY OthersStay DEF MfaAnswers, Kind
<1>3. c \in MfaAnswers(h, r)' =>
        /\ result'[c] = r /\ Kind(c)' = "verify_mfa"
        /\ request'[c].challenge = h
  BY DEF MfaAnswers, Kind
<1> QED  BY <1>1, <1>2, <1>3

LEMMA AnswerStep ==
  ASSUME TypeOK, CallInv, LockInv, RowInv, AnswerInv, NEW c \in Calls, Act(c)
  PROVE  AnswerInv'
<1> SUFFICES ASSUME NEW h \in Logins
             PROVE  /\ \A d, e \in MfaAnswers(h, "opened")' : d = e
                    /\ MfaAnswers(h, "opened")' # {} =>
                         challenge'[h].state = "consumed"
                    /\ Cardinality(MfaAnswers(h, "wrong")') <=
                         challenge'[h].attempts
  BY DEF AnswerInv
<1>0. /\ challenge[h] \in ChallengeRows
      /\ challenge[h].attempts \in Nat
      /\ \A d, e \in MfaAnswers(h, "opened") : d = e
      /\ MfaAnswers(h, "opened") # {} => challenge[h].state = "consumed"
      /\ Cardinality(MfaAnswers(h, "wrong")) <= challenge[h].attempts
  BY DEF AnswerInv, TypeOK, ChallengeRows
<1>1. CASE MfaWrong(c) /\ request[c].challenge = h
  <2>1. /\ loaded[c].challenge = challenge[h] /\ challenge[h].state = "open"
        /\ challenge' = [challenge EXCEPT ![h].attempts =
                           loaded[c].challenge.attempts + 1]
        /\ result'[c] = "wrong"
    BY <1>1, Holds DEF MfaWrong, Locked, Usable, Finish, TypeOK
  <2>2. challenge'[h].attempts = challenge[h].attempts + 1
    BY <2>1 DEF TypeOK
  <2>3. MfaAnswers(h, "opened")' = {}
    BY <1>0, <2>1, AnswersGrow
  <2>4. Cardinality(MfaAnswers(h, "wrong")') <=
          Cardinality(MfaAnswers(h, "wrong")) + 1
    <3>1. \/ MfaAnswers(h, "wrong")' = MfaAnswers(h, "wrong")
          \/ MfaAnswers(h, "wrong")' = MfaAnswers(h, "wrong") \cup {c}
      BY AnswersGrow
    <3> QED  BY <3>1, AnswersFinite, FS_AddElement
  <2> QED  BY <1>0, <2>2, <2>3, <2>4, AnswersFinite
<1>2. CASE MfaRight(c) /\ request[c].challenge = h
  <2>1. /\ loaded[c].challenge = challenge[h] /\ challenge[h].state = "open"
        /\ challenge' = [challenge EXCEPT ![h].state = "consumed"]
        /\ result'[c] = "opened"
    BY <1>2, Holds DEF MfaRight, Locked, Usable, Finish, TypeOK
  <2>2. /\ challenge'[h].attempts = challenge[h].attempts
        /\ challenge'[h].state = "consumed"
    BY <2>1 DEF TypeOK
  <2>3. MfaAnswers(h, "opened")' \subseteq {c}
    BY <1>0, <2>1, AnswersGrow
  <2>4. MfaAnswers(h, "wrong")' = MfaAnswers(h, "wrong")
    <3>1. result'[c] # "wrong"
      BY <2>1
    <3> QED  BY <3>1, AnswersGrow
  <2> QED  BY <1>0, <2>2, <2>3, <2>4
<1>3. CASE ~((MfaWrong(c) \/ MfaRight(c)) /\ request[c].challenge = h)
  <2>1. ASSUME NEW r \in {"opened", "wrong"}
        PROVE  MfaAnswers(h, r)' = MfaAnswers(h, r)
    <3>1. ASSUME result'[c] = r, Kind(c)' = "verify_mfa"
          PROVE  (MfaWrong(c) \/ MfaRight(c)) /\ request'[c] = request[c]
      <4>1. pc'[c] = "ended" /\ ~Begin(c)
        BY <3>1, Onward, Kinds DEF Begin, LockChallenge, LockAdmin, Finish,
           TypeOK
      <4>2. Kind(c) = "verify_mfa" /\ request'[c] = request[c]
        BY <3>1, <4>1, Onward DEF Kind
      <4>3. /\ ~LoginUnknown(c) /\ ~LoginLocked(c)
            /\ ~LoginWrong(c) /\ ~LoginRight(c)
        BY <4>2 DEF LoginUnknown, LoginLocked, LoginWrong, LoginRight,
           Compared, Locked
      <4>4. ~LockChallenge(c) /\ ~LockAdmin(c)
        BY <4>1 DEF LockChallenge, LockAdmin, TypeOK
      <4>5. /\ ~MfaInvalid(c) /\ ~TokenRejected(c) /\ ~RefreshReused(c)
            /\ ~RefreshRotates(c) /\ ~RefreshExpired(c)
            /\ ~Logout(c) /\ ~Abort(c)
        BY <3>1 DEF MfaInvalid, TokenRejected, RefreshReused, RefreshRotates,
           RefreshExpired, Logout, Abort, Finish, TypeOK
      <4> QED  BY <4>1, <4>2, <4>3, <4>4, <4>5 DEF Act, Step
    <3> QED  BY <1>3, <3>1, AnswersGrow
  <2>2. \/ challenge'[h] = challenge[h]
        \/ /\ LoginRight(c) /\ h = c /\ challenge[h] = NoChallenge
           /\ challenge'[h].attempts = 0
    <3>1. CASE LoginRight(c)
      BY <3>1, Onward DEF LoginRight, TypeOK, CallInv
    <3>2. CASE MfaWrong(c) \/ MfaRight(c)
      BY <1>3, <3>2 DEF MfaWrong, MfaRight, TypeOK
    <3>3. CASE ~LoginRight(c) /\ ~MfaWrong(c) /\ ~MfaRight(c)
      BY <3>3 DEF Act, Step, Begin, LockChallenge, LockAdmin, LoginUnknown,
         LoginLocked, LoginWrong, MfaInvalid, TokenRejected, RefreshReused,
         RefreshRotates, RefreshExpired, Logout, Abort, rows
    <3> QED  BY <3>1, <3>2, <3>3
  <2> QED  BY <1>0, <2>1, <2>2 DEF NoChallenge
<1> QED  BY <1>1, <1>2, <1>3

(* The property of the rows, from the answers *)
LEMMA AnswersBounded ==
  ASSUME TypeOK, AnswerInv
  PROVE  ChallengeUsedOnce
<1> SUFFICES ASSUME NEW h \in Logins
             PROVE  /\ Cardinality(MfaAnswers(h, "opened")) <= 1
                    /\ Cardinality(MfaAnswers(h, "wrong")) <= MaxMfaAttempts
  BY DEF ChallengeUsedOnce, MfaAnswers
<1>1. Cardinality(MfaAnswers(h, "opened")) <= 1
  <2>1. CASE MfaAnswers(h, "opened") = {}
    BY <2>1, FS_EmptySet
  <2>2. CASE MfaAnswers(h, "opened") # {}
    <3>1. PICK c \in MfaAnswers(h, "opened") : TRUE
      BY <2>2
    <3>2. MfaAnswers(h, "opened") = {c}
      BY <3>1 DEF AnswerInv
    <3> QED  BY <3>2, FS_Singleton
  <2> QED  BY <2>1, <2>2
<1>2. challenge[h].attempts \in 0 .. MaxMfaAttempts /\ MaxMfaAttempts \in Nat
  BY AdminConstants DEF TypeOK
<1> QED  BY <1>1, <1>2, AnswersFinite DEF AnswerInv

-----------------------------------------------------------------------------
(* Guesses *)

LEMMA GuessCounts ==
  ASSUME GuessInv, NEW a, NEW t
  PROVE  /\ IsFiniteSet(Guesses(a, t)) /\ Cardinality(Guesses(a, t)) \in Nat
         /\ IsFiniteSet(Overtaking(t)) /\ Cardinality(Overtaking(t)) \in Nat
<1>1. Guesses(a, t) \subseteq failures /\ Overtaking(t) \subseteq Calls
  BY DEF Guesses, Overtaking
<1>2. IsFiniteSet(Guesses(a, t)) /\ IsFiniteSet(Overtaking(t))
  BY <1>1, CallsFinite, FS_Subset DEF GuessInv
<1> QED  BY <1>2, FS_CardinalityType

(* A call logs a failure of its own. *)
LEMMA FailuresStep ==
  ASSUME TypeOK, CallInv, LockInv, GuessInv, NEW c \in Calls, Act(c)
  PROVE  /\ IsFiniteSet(failures')
         /\ \A f \in failures' : f.call \in Calls => pc'[f.call] = "ended"
         /\ \A f \in failures : f.call # c
         /\ ~LoginWrong(c) =>
              \A f \in failures' \ failures : f.call = c /\ result'[c] # "wrong"
<1>1. \A f \in failures :
        f.call # c /\ (f.call \in Calls => pc'[f.call] = "ended")
  BY Onward, OthersStay DEF GuessInv
<1>2. CASE LoginUnknown(c) \/ LoginLocked(c) \/ LoginWrong(c)
  <2> DEFINE new == [call |-> c, address |-> request[c].address, at |-> now[c]]
  <2>1. failures' = failures \cup {new} /\ pc'[c] = "ended"
    BY <1>2 DEF LoginUnknown, LoginLocked, LoginWrong, LogFailure, Finish,
       TypeOK
  <2>2. ~LoginWrong(c) => result'[c] # "wrong"
    BY <1>2 DEF LoginUnknown, LoginLocked, Finish, TypeOK
  <2>3. IsFiniteSet(failures')
    BY <2>1, FS_AddElement DEF GuessInv
  <2>4. new.call = c
    OBVIOUS
  <2> HIDE DEF new
  <2> QED  BY <1>1, <2>1, <2>2, <2>3, <2>4
<1>3. CASE failures' = failures
  BY <1>1, <1>3 DEF GuessInv
<1> QED
  BY <1>2, <1>3 DEF Act, Step, Begin, LockChallenge, LockAdmin, LoginRight,
     MfaInvalid, MfaWrong, MfaRight, TokenRejected, RefreshReused,
     RefreshRotates, RefreshExpired, Logout, Abort, rows

LEMMA GuessesGrow ==
  ASSUME TypeOK, CallInv, LockInv, GuessInv, NEW c \in Calls, Act(c),
         NEW a, NEW t
  PROVE  \/ Guesses(a, t)' = Guesses(a, t)
         \/ /\ LoginWrong(c) /\ a = request[c].address
            /\ now[c] <= t /\ t < now[c] + LockTicks
            /\ Cardinality(Guesses(a, t)') = Cardinality(Guesses(a, t)) + 1
<1>1. \A f \in failures : result'[f.call] = result[f.call] \/ f.call = Earlier
  BY FailuresStep, OthersStay DEF TypeOK, Logins
<1>2. CASE ~LoginWrong(c)
  <2>1. failures \subseteq failures'
    BY DEF Act, Step, Begin, LockChallenge, LockAdmin, LoginUnknown,
       LoginLocked, LoginWrong, LoginRight, MfaInvalid, MfaWrong, MfaRight,
       TokenRejected, RefreshReused, RefreshRotates, RefreshExpired, Logout,
       Abort, LogFailure,
       rows
  <2>2. \A f \in failures' \ failures :
          f.call # Earlier /\ result'[f.call] # "wrong"
    BY <1>2, FailuresStep, Names
  <2> QED  BY <1>1, <2>1, <2>2 DEF Guesses
<1>3. CASE LoginWrong(c)
  <2> DEFINE new == [call |-> c, address |-> request[c].address, at |-> now[c]]
  <2>1. failures' = failures \cup {new}
    BY <1>3 DEF LoginWrong, LogFailure
  <2>2. new.call = c /\ new.address = request[c].address /\ new.at = now[c]
    OBVIOUS
  <2> HIDE DEF new
  <2>3. new \notin failures
    BY <2>2, FailuresStep
  <2>4. \/ Guesses(a, t)' = Guesses(a, t)
        \/ /\ Guesses(a, t)' = Guesses(a, t) \cup {new}
           /\ new.address = a /\ new.at <= t /\ t < new.at + LockTicks
    BY <1>1, <2>1 DEF Guesses
  <2>5. Cardinality(Guesses(a, t) \cup {new}) = Cardinality(Guesses(a, t)) + 1
    <3>1. new \notin Guesses(a, t)
      BY <2>3 DEF Guesses
    <3>2. IsFiniteSet(Guesses(a, t))
      BY GuessCounts
    <3> QED  BY <3>1, <3>2, FS_AddElement
  <2> QED  BY <1>3, <2>2, <2>4, <2>5
<1> QED  BY <1>2, <1>3

LEMMA OvertakingGrows ==
  ASSUME TypeOK, CallInv, LockInv, NEW c \in Calls, Act(c),
         NEW t
  PROVE  /\ Cardinality(Overtaking(t)) \in Nat
         /\ Cardinality(Overtaking(t)') \in Nat
         /\ Cardinality(Overtaking(t)') >= Cardinality(Overtaking(t))
         /\ result'[c] = "opened" /\ now[c] > t /\ ~Begin(c) =>
              Cardinality(Overtaking(t)') = Cardinality(Overtaking(t)) + 1
<1>1. Overtaking(t) \subseteq Calls /\ Overtaking(t)' \subseteq Calls
  BY DEF Overtaking
<1>2. IsFiniteSet(Overtaking(t)) /\ IsFiniteSet(Overtaking(t)')
  BY <1>1, CallsFinite, FS_Subset
<1>3. c \notin Overtaking(t) /\ Overtaking(t) \subseteq Overtaking(t)'
  BY Onward, OthersStay DEF Overtaking
<1>4. ASSUME result'[c] = "opened", now[c] > t, ~Begin(c)
      PROVE  Overtaking(t)' = Overtaking(t) \cup {c}
  BY <1>4, Onward, OthersStay DEF Overtaking
<1>5. /\ Cardinality(Overtaking(t)) \in Nat
      /\ Cardinality(Overtaking(t)') \in Nat
      /\ Cardinality(Overtaking(t)) <= Cardinality(Overtaking(t)')
  BY <1>2, <1>3, FS_CardinalityType, FS_Subset
<1>6. Cardinality(Overtaking(t) \cup {c}) = Cardinality(Overtaking(t)) + 1
  BY <1>2, <1>3, FS_AddElement
<1> QED  BY <1>4, <1>5, <1>6

(* The guesses of a window are among the failures a later one counts. *)
LEMMA WindowCounted ==
  ASSUME TypeOK, GuessInv, NEW c \in Calls, NEW t \in Nat,
         now[c] <= t
  PROVE  /\ RecentFailures(c) \in Nat
         /\ Cardinality(Guesses(request[c].address, t)) <= RecentFailures(c)
<1> DEFINE Recent == {f \in failures : /\ f.address = request[c].address
                                       /\ f.at + LockTicks >= now[c]}
<1>1. Guesses(request[c].address, t) \subseteq Recent
  BY AdminConstants DEF Guesses, TypeOK
<1>2. IsFiniteSet(Recent)
  BY FS_Subset DEF GuessInv
<1>3. RecentFailures(c) = Cardinality(Recent)
  BY DEF RecentFailures
<1> HIDE DEF Recent
<1> QED  BY <1>1, <1>2, <1>3, FS_Subset, FS_CardinalityType

LEMMA GuessStep ==
  ASSUME TypeOK, CallInv, LockInv, RowInv, GuessInv, GuessesBounded,
         NEW c \in Calls, Act(c)
  PROVE  GuessInv' /\ GuessesBounded'
<1> SUFFICES ASSUME NEW a \in Addresses, NEW t \in 0 .. MaxClock
             PROVE  /\ Cardinality(Guesses(a, t)') <= Allowed(t)'
                    /\ Cardinality(Guesses(a, t)') >= Allowed(t)' =>
                         account'.lockedUntil > t
  BY FailuresStep DEF GuessInv, GuessesBounded, Allowed
<1> DEFINE G == Cardinality(Guesses(a, t))
           G1 == Cardinality(Guesses(a, t)')
           O == Cardinality(Overtaking(t))
           O1 == Cardinality(Overtaking(t)')
           L == account.lockedUntil
           L1 == account'.lockedUntil
<1>0. /\ G \in Nat /\ O \in Nat /\ O1 \in Nat /\ O1 >= O
      /\ MaxAttempts \in Nat \ {0} /\ LockTicks \in Nat \ {0}
      /\ now[c] \in Nat /\ t \in Nat
      /\ L \in Nat
  BY GuessCounts, OvertakingGrows, AdminConstants DEF TypeOK
<1>1. /\ G <= MaxAttempts + O
      /\ G >= MaxAttempts + O => L > t
  BY DEF GuessInv, GuessesBounded, Allowed
<1>2. G1 = G \/ /\ LoginWrong(c) /\ a = request[c].address
                /\ now[c] <= t /\ t < now[c] + LockTicks
                /\ G1 = G + 1
  BY GuessesGrow
<1> SUFFICES /\ G1 <= MaxAttempts + O1
             /\ G1 >= MaxAttempts + O1 => L1 > t
  BY DEF Allowed
<1> HIDE DEF G, G1, O, O1, L, L1
<1>3. CASE LoginWrong(c)
  <2>1. /\ Admin(c) = account /\ account' = AfterFailure(c)
        /\ L1 \in {L, now[c] + LockTicks}
        /\ L <= now[c]
    <3>1. pc[c] = "locked" /\ Admin(c) # NoRow /\ ~IsLocked(Admin(c), now[c])
      BY <1>3 DEF LoginWrong, Compared, Locked
    <3>2. Admin(c) = account /\ account' = AfterFailure(c)
      BY <1>3, <3>1, Holds DEF LoginWrong
    <3>3. L1 \in {L, now[c] + LockTicks}
      BY <3>2 DEF AfterFailure, TypeOK, L, L1
    <3> QED  BY <1>0, <3>1, <3>2, <3>3 DEF IsLocked, L
  <2>2. CASE G1 = G
    BY <1>0, <1>1, <2>1, <2>2
  <2>3. CASE G1 # G
    <3>1. /\ a = request[c].address /\ now[c] <= t /\ t < now[c] + LockTicks
          /\ G1 = G + 1
      BY <1>2, <2>3
    <3>2. G < MaxAttempts + O
      BY <1>0, <1>1, <2>1, <3>1
    <3>3. /\ RecentFailures(c) \in Nat
          /\ G <= RecentFailures(c)
      BY <1>0, <3>1, WindowCounted DEF G
    <3>4. ASSUME G1 >= MaxAttempts + O1
          PROVE  L1 > t
      <4>1. RecentFailures(c) + 1 >= MaxAttempts
        BY <1>0, <3>1, <3>3, <3>4
      <4>2. L1 = now[c] + LockTicks
        BY <2>1, <4>1 DEF AfterFailure, TypeOK, L1
      <4> QED  BY <1>0, <3>1, <4>2
    <3> QED  BY <1>0, <3>1, <3>2, <3>4
  <2> QED  BY <2>2, <2>3
<1>4. CASE MfaRight(c)
  <2>1. G1 = G
    BY <1>2, <1>4 DEF MfaRight, LoginWrong, Compared, Locked
  <2>2. L <= now[c]
    <3>1. Admin(c) = account /\ ~IsLocked(Admin(c), now[c])
      BY <1>4, Holds DEF MfaRight, Locked, Usable
    <3> QED  BY <1>0, <3>1 DEF IsLocked, L
  <2>3. now[c] > t => O1 = O + 1
    <3>1. result'[c] = "opened" /\ ~Begin(c)
      BY <1>4 DEF MfaRight, Locked, Begin, Finish, TypeOK
    <3> QED  BY <3>1, OvertakingGrows DEF O, O1
  <2> QED  BY <1>0, <1>1, <2>1, <2>2, <2>3
<1>5. CASE ~LoginWrong(c) /\ ~MfaRight(c)
  <2>1. L1 = L
    BY <1>5, AccountStep DEF TypeOK, L, L1
  <2>2. G1 = G
    BY <1>2, <1>5
  <2> QED  BY <1>0, <1>1, <2>1, <2>2
<1> QED  BY <1>3, <1>4, <1>5

-----------------------------------------------------------------------------
(* The invariant *)

LEMMA InitFailures ==
  ASSUME Init
  PROVE  /\ IsFiniteSet(failures) /\ Cardinality(failures) \in {0, 1}
         /\ failures # {} => MaxAttempts > 1
         /\ \A f \in failures : f.call = Earlier
         /\ failures \subseteq [call: {Earlier}, address: Addresses, at: {0}]
<1>1. \/ failures = {}
      \/ \E a \in Addresses :
           failures = {[call |-> Earlier, address |-> a, at |-> 0]}
  <2>1. failures \in {{}} \cup
          {{[call |-> Earlier, address |-> a, at |-> 0]} : a \in Addresses}
    BY DEF Init
  <2> QED  BY <2>1, Zenon
<1>2. IsFiniteSet(failures) /\ Cardinality(failures) \in {0, 1}
  <2>1. CASE failures = {}
    BY <2>1, FS_EmptySet
  <2>2. CASE \E f : failures = {f}
    BY <2>2, FS_Singleton
  <2> QED  BY <1>1, <2>1, <2>2
<1>3. failures # {} => MaxAttempts > 1
  BY DEF Init
<1> QED  BY <1>1, <1>2, <1>3

LEMMA InitInv == Init => IInv
<1> SUFFICES ASSUME Init PROVE IInv
  OBVIOUS
<1>0. /\ MaxCalls \in Nat /\ MaxClock \in Nat /\ LockTicks \in Nat
      /\ ChallengeTicks \in Nat /\ MaxMfaAttempts \in Nat
      /\ MaxAttempts \in Nat \ {0}
  BY AdminConstants
<1>1. /\ account \in AdminRows /\ account.version \in {0, 1}
      /\ account.failed \in {0, 1}
      /\ account = NoRow <=> account.version = 0
  <2>1. account = NoRow \/ account =
          [failed |-> Cardinality(failures), lockedUntil |-> 0, version |-> 1]
    BY DEF Init, NewRow
  <2> QED  BY <1>0, <2>1, InitFailures DEF AdminRows, NoRow
<1>2. TypeOK
  <2>1. failures \subseteq [call: Logins, address: Addresses, at: 0 .. MaxClock]
    BY <1>0, InitFailures, Names
  <2>2. challenge \in [Logins -> [expires: 0 .. MaxClock + ChallengeTicks,
                                  attempts: 0 .. MaxMfaAttempts,
                                  state: {"none", "open", "consumed"}]]
    BY <1>0 DEF Init, NoChallenge
  <2>3. token \in [Logins -> [family: Logins \cup {None},
                              version: 0 .. MaxCalls + 1,
                              state: {"none", "live"} \cup Revoked]]
    BY <1>0, Names DEF Init, NoTokenRow
  <2>4. /\ clock \in 0 .. MaxClock /\ adminLock \in Calls \cup {Nobody}
        /\ challengeLock \in [Logins -> Calls \cup {Nobody}]
        /\ pc \in [Calls -> {"idle", "begun", "locking", "locked", "ended"}]
        /\ request \in [Calls -> Requests \cup {None}]
        /\ now \in [Calls -> 0 .. MaxClock]
        /\ result \in [Calls -> Ended \cup {"none"}]
        /\ issued \in [Calls -> SUBSET Logins]
    BY <1>0 DEF Init
  <2> QED  BY <1>1, <2>1, <2>2, <2>3, <2>4 DEF TypeOK, AdminRows
<1>3. CallInv
  BY Names DEF Init, CallInv
<1>4. LockInv
  <2>1. Nothing \in [admin: AdminRows, challenge: ChallengeRows]
    BY <1>0 DEF Nothing, NoRow, NoChallenge, AdminRows, ChallengeRows
  <2> QED  BY <2>1 DEF Init, LockInv, Admin, Nothing
<1>5. RowInv
  <2>1. account # NoRow => account.version = 1
    BY <1>1
  <2> QED  BY <1>1, <2>1, Names DEF Init, RowInv, NoChallenge, NoTokenRow
<1>6. CountInv
  <2>1. Answered({"wrong"}) = {} /\ Answered({"left", "reused"}) = {}
    BY DEF Init, Answered
  <2> QED  BY <1>1, <2>1, FS_EmptySet DEF CountInv
<1>7. AnswerInv
  <2>1. \A h \in Logins :
          MfaAnswers(h, "opened") = {} /\ MfaAnswers(h, "wrong") = {}
    BY DEF Init, MfaAnswers
  <2>2. \A h \in Logins : challenge[h].attempts \in Nat
    BY <1>2 DEF TypeOK
  <2> QED  BY <2>1, <2>2, FS_EmptySet DEF AnswerInv
<1>8. OneLiveTokenPerFamily /\ IssuedInv /\ ReuseEndsFamily
  BY DEF Init, OneLiveTokenPerFamily, IssuedInv, ReuseEndsFamily, NoTokenRow
<1>9. GuessInv /\ GuessesBounded
  <2>1. ASSUME NEW a \in Addresses, NEW t \in 0 .. MaxClock
        PROVE  Cardinality(Guesses(a, t)) < Allowed(t)
    <3>1. /\ Guesses(a, t) \subseteq failures /\ Overtaking(t) = {}
      BY DEF Init, Guesses, Overtaking
    <3>2. Allowed(t) = MaxAttempts
      BY <1>0, <3>1, FS_EmptySet DEF Allowed
    <3>3. /\ Cardinality(Guesses(a, t)) <= Cardinality(failures)
          /\ Cardinality(Guesses(a, t)) \in Nat
      BY <3>1, InitFailures, FS_Subset, FS_CardinalityType
    <3>4. failures = {} => Cardinality(Guesses(a, t)) = 0
      BY <3>1, FS_EmptySet
    <3> QED  BY <1>0, <3>2, <3>3, <3>4, InitFailures
  <2>2. \A a \in Addresses, t \in 0 .. MaxClock :
          Allowed(t) \in Nat /\ Cardinality(Guesses(a, t)) \in Nat
    <3> SUFFICES ASSUME NEW a \in Addresses, NEW t \in 0 .. MaxClock
                 PROVE  Allowed(t) \in Nat /\ Cardinality(Guesses(a, t)) \in Nat
      OBVIOUS
    <3>1. Guesses(a, t) \subseteq failures /\ Overtaking(t) = {}
      BY DEF Init, Guesses, Overtaking
    <3> QED
      BY <1>0, <3>1, InitFailures, FS_Subset, FS_CardinalityType, FS_EmptySet
         DEF Allowed
  <2> QED
    BY <2>1, <2>2, InitFailures, Names DEF GuessInv, GuessesBounded, Allowed
<1> QED
  BY <1>2, <1>3, <1>4, <1>5, <1>6, <1>7, <1>8, <1>9 DEF IInv

(* Time, the arrival of the account and a stutter *)
LEMMA OtherStep ==
  ASSUME IInv, Tick \/ AccountCreated \/ UNCHANGED vars
  PROVE  IInv'
<1> USE DEF IInv
<1>1. CASE Tick \/ UNCHANGED vars
  <2>1. /\ UNCHANGED <<rows, locks, pc, request, now, loaded, result, issued>>
        /\ clock' \in 0 .. MaxClock
    BY <1>1, AdminConstants DEF Tick, TypeOK, vars
  <2>2. TypeOK'
    BY <2>1 DEF rows, locks, TypeOK
  <2>3. CallInv' /\ LockInv' /\ RowInv' /\ CountInv'
    BY <2>1 DEF rows, locks, CallInv, LockInv, RowInv, CountInv, Answered,
       Kind, Admin
  <2>4. AnswerInv' /\ OneLiveTokenPerFamily' /\ IssuedInv' /\ ReuseEndsFamily'
    BY <2>1 DEF rows, AnswerInv, OneLiveTokenPerFamily, IssuedInv,
       ReuseEndsFamily, MfaAnswers, AccessValid, Kind
  <2>5. GuessInv' /\ GuessesBounded'
    BY <2>1 DEF rows, GuessInv, GuessesBounded, Guesses, Overtaking, Allowed
  <2> QED  BY <2>2, <2>3, <2>4, <2>5
<1>2. CASE AccountCreated
  <2>1. /\ UNCHANGED <<clock, failures, challenge, token, locks, pc, request,
                       now, loaded, result, issued>>
        /\ account = NoRow /\ account' = NewRow
    BY <1>2 DEF AccountCreated
  <2>2. /\ account' # NoRow /\ account'.version = 1 /\ account'.failed = 0
        /\ account'.lockedUntil = 0 /\ account.version = 0 /\ account.failed = 0
        /\ account.lockedUntil = 0 /\ account' \in AdminRows
    BY <2>1, AdminConstants DEF NoRow, NewRow, AdminRows
  <2>3. TypeOK'
    BY <2>1, <2>2 DEF locks, TypeOK, AdminRows
  <2>4. CallInv' /\ LockInv'
    BY <2>1, <2>2 DEF locks, CallInv, LockInv, Kind, Admin
  <2>5. RowInv'
    BY <2>1, <2>2 DEF RowInv
  <2>6. CountInv'
    <3>1. /\ Answered({"wrong"})' = Answered({"wrong"})
          /\ Answered({"left", "reused"})' = Answered({"left", "reused"})
      BY <2>1 DEF Answered
    <3>2. /\ Cardinality(Answered({"wrong"})) \in Nat
          /\ Cardinality(Answered({"left", "reused"})) \in Nat
      <4>1. /\ Answered({"wrong"}) \subseteq Calls
            /\ Answered({"left", "reused"}) \subseteq Calls
        BY DEF Answered
      <4> QED  BY <4>1, CallsFinite, FS_Subset, FS_CardinalityType
    <3> QED  BY <2>2, <3>1, <3>2 DEF CountInv
  <2>7. AnswerInv' /\ OneLiveTokenPerFamily'
    BY <2>1 DEF AnswerInv, OneLiveTokenPerFamily, MfaAnswers, Kind
  <2>8. \A c \in Calls : issued[c] = {}
    <3> SUFFICES ASSUME NEW c \in Calls, NEW t \in issued[c]
                 PROVE  FALSE
      OBVIOUS
    <3>1. token[t].version < 0 /\ t \in Logins
      BY <2>2 DEF IssuedInv, TypeOK
    <3> QED  BY <3>1 DEF TypeOK
  <2>9. IssuedInv' /\ ReuseEndsFamily'
    BY <2>1, <2>8 DEF IssuedInv, ReuseEndsFamily, AccessValid
  <2>10. GuessInv' /\ GuessesBounded'
    BY <2>1, <2>2 DEF GuessInv, GuessesBounded, Guesses, Overtaking, Allowed
  <2> QED  BY <2>3, <2>4, <2>5, <2>6, <2>7, <2>9, <2>10
<1> QED  BY <1>1, <1>2

LEMMA StepInv == IInv /\ [Next]_vars => IInv'
<1> SUFFICES ASSUME IInv, [Next]_vars PROVE IInv'
  OBVIOUS
<1>1. CASE Tick \/ AccountCreated \/ UNCHANGED vars
  BY <1>1, OtherStep
<1>2. ASSUME NEW c \in Calls, Act(c)
      PROVE  IInv'
  <2>1. TypeOK'
    BY <1>2, TypeStep DEF IInv
  <2>2. CallInv' /\ LockInv' /\ RowInv'
    BY <1>2, CallStep, LockStep, RowStep DEF IInv
  <2>3. CountInv'
    BY <1>2, CountStep DEF IInv
  <2>4. AnswerInv'
    BY <1>2, AnswerStep DEF IInv
  <2>5. OneLiveTokenPerFamily' /\ IssuedInv' /\ ReuseEndsFamily'
    BY <1>2, LiveStep, IssuedStep, ReuseStep DEF IInv
  <2>6. GuessInv' /\ GuessesBounded'
    BY <1>2, GuessStep DEF IInv
  <2> QED  BY <2>1, <2>2, <2>3, <2>4, <2>5, <2>6 DEF IInv
<1> QED  BY <1>1, <1>2, NextSplit

(* In every reachable state of every instance *)
THEOREM Invariance == Spec => []IInv
  BY InitInv, StepInv, PTL DEF Spec

-----------------------------------------------------------------------------
(* The properties *)

(* The rows have their types, a challenge opens one session and counts the
   wrong codes, and no family has two live tokens: login, verify_mfa and
   refresh, however they interleave. *)
THEOREM RowsConsistentHolds == Spec => []RowsConsistent
<1>1. IInv => RowsConsistent
  BY AnswersBounded DEF IInv, RowsConsistent
<1> QED  BY <1>1, Invariance, PTL

(* A client address has MaxAttempts guesses in the time of a lock, and one
   more for each completed login that overtakes a waiting one: login and the
   rows it counts. *)
THEOREM GuessesBoundedHolds == Spec => []GuessesBounded
<1>1. IInv => GuessesBounded
  BY DEF IInv
<1> QED  BY <1>1, Invariance, PTL

(* What existed at a logout is worth nothing after it: the UPDATE of logout
   and increment_session_version against logins, refreshes and reuses. *)
THEOREM LogoutEndsEverySessionHolds == Spec => []LogoutEndsEverySession
<1>1. IInv => LogoutEndsEverySession
  <2> SUFFICES ASSUME IInv, NEW c \in Calls, result[c] = "left",
                      NEW t \in issued[c]
               PROVE  token[t].state # "live" /\ ~AccessValid(t)
    BY DEF LogoutEndsEverySession
  <2>1. token[t].version < account.version /\ token[t].state # "live"
    BY DEF IInv, IssuedInv
  <2>2. account.version \in Nat
    BY DEF IInv, TypeOK
  <2> QED  BY <2>1, <2>2 DEF AccessValid
<1> QED  BY <1>1, Invariance, PTL

(* The reuse of a token ends its family for good: _revoke_family against the
   rotation of the same token. *)
THEOREM ReuseEndsFamilyHolds == Spec => []ReuseEndsFamily
<1>1. IInv => ReuseEndsFamily
  BY DEF IInv
<1> QED  BY <1>1, Invariance, PTL

=============================================================================
