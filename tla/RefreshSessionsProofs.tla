------------------------ MODULE RefreshSessionsProofs ------------------------
(***************************************************************************)
(* What holds of RefreshSessions for every number of users, logins and     *)
(* concurrent calls.                                                       *)
(*                                                                         *)
(* The inductive invariant IInv says, beyond the types, how far a call has *)
(* come (CallInv), which family a row is in (FamilyInv), that a call which *)
(* is about to change a row has it locked and has found it live (LockInv), *)
(* what replaced_by_jti points to (ChainInv), that a deleted account       *)
(* leaves no family half alive (GoneInv), and what a revocation may still  *)
(* miss while it runs (RevokeInv).                                         *)
(***************************************************************************)
EXTENDS RefreshSessions, TLAPS

(* The steps of a call before its UPDATE takes a snapshot *)
Early == {"idle", "select", "lockUser", "verify", "revoke"}

(* A call that has begun has its arguments; the row named after a refresh does
   not exist before that refresh commits. *)
CallInv ==
  \A c \in Calls :
    /\ pc[c] # "idle" =>
         \/ kind[c] = "delete" /\ account[c] \in Users
         \/ /\ kind[c] \in {"refresh", "logout"}
            /\ token[c] \in Tokens /\ row[token[c]] # "NONE"
    /\ pc[c] \in {"lockUser", "verify", "cascade"} => kind[c] = "delete"
    /\ pc[c] = "select" => kind[c] # "delete"
    /\ pc[c] \in {"checkUser", "insert", "commit"} => kind[c] = "refresh"
    /\ pc[c] # "done" => row[c] = "NONE" /\ answer[c] = "none"
    /\ answer[c] = "Reused" => kind[c] = "refresh"

(* A row that exists is in a family that exists and has a user. *)
FamilyInv ==
  \A t \in Tokens : row[t] # "NONE" =>
    /\ family[t] \in Families
    /\ row[family[t]] # "NONE"
    /\ userOf[family[t]] \in Users

(* A refresh has the live row it is about to rotate locked, and a revocation
   every row it has updated. *)
LockedBy(c) ==
  /\ pc[c] \in {"checkUser", "insert", "commit"} =>
       rowLock[token[c]] = c /\ row[token[c]] = "LIVE"
  /\ pc[c] \in Early => revoked[c] = {}
  /\ pc[c] # "done" =>
       \A t \in revoked[c] : rowLock[t] = c /\ row[t] = "LIVE"

LockInv == \A c \in Calls : LockedBy(c)

(* RotationChain, with what it rests on: a row that is replaced names a refresh
   that has committed, and stays in the family of its replacement. *)
ChainInv ==
  \A t \in Tokens :
    /\ row[t] = "NONE" => replacedBy[t] = NoToken
    /\ row[t] = "rotated" => replacedBy[t] # NoToken
    /\ replacedBy[t] # NoToken =>
         /\ replacedBy[t] \in Calls
         /\ row[replacedBy[t]] # "NONE"
         /\ family[replacedBy[t]] = family[t]
         /\ \A s \in Tokens : replacedBy[s] = replacedBy[t] => s = t

(* The cascade takes a family as a whole. *)
GoneInv ==
  \A s, t \in Tokens : row[s] = "GONE" /\ row[t] = "LIVE" =>
    family[s] # family[t]

(* The snapshot of a revocation holds rows of one family, and whatever is live
   in that family is still to be visited, has been updated, or came into being
   when a row of the snapshot was rotated. *)
SnapshotOf(c) ==
  /\ pc[c] \in Early => seen[c] = {} /\ todo[c] = {}
  /\ todo[c] \subseteq seen[c] /\ revoked[c] \subseteq seen[c]
  /\ kind[c] # "delete" => \A s \in seen[c] :
       row[s] # "NONE" /\ family[s] = family[token[c]]

RotatedUnder(c) == \E s \in seen[c] : row[s] = "rotated"

MayMiss(c) ==
  pc[c] = "revoking" /\ kind[c] # "delete" /\ ~RotatedUnder(c) =>
    \A t \in Tokens : row[t] = "LIVE" /\ family[t] = family[token[c]] =>
      t \in todo[c] \cup revoked[c]

RevokeInv == \A c \in Calls : SnapshotOf(c) /\ MayMiss(c)

(* RevocationMissesOnlyRotated, said of one call *)
Revoked(c) ==
  /\ pc[c] = "done"
  /\ answer[c] = "Reused" \/ (kind[c] = "logout" /\ answer[c] = "OK")

Missed(c) ==
  Revoked(c) /\ ~RotatedUnder(c) => \A t \in Tokens :
    ~(row[t] = "LIVE" /\ family[t] = family[token[c]])

(* The property is that of all calls, now and in the next state. *)
LEMMA MissedIff ==
  RevocationMissesOnlyRotated <=> \A c \in Calls : Missed(c)
  BY DEF RevocationMissesOnlyRotated, Missed, Revoked, RotatedUnder

LEMMA MissedNext ==
  ASSUME \A c \in Calls : Missed(c)'
  PROVE  RevocationMissesOnlyRotated'
  BY DEF RevocationMissesOnlyRotated, Missed, Revoked, RotatedUnder

(* The inductive invariant *)
IInv ==
  /\ TypeOK /\ CallInv /\ FamilyInv /\ LockInv
  /\ OneLiveTokenPerFamily /\ ChainInv
  /\ GoneInv /\ RevokeInv /\ RevocationMissesOnlyRotated

-----------------------------------------------------------------------------
(* The steps, sorted by what they do to the rows *)

(* A transaction of c that ends without a commit *)
Abort(c) ==
  \E from \in Running, a \in {"Invalid", "Error"} : RollBack(c, from, a)

(* A step of c that leaves the rows alone *)
Quiet(c) ==
  \/ \E k \in Kinds, t \in Tokens : Present(c, k, t)
  \/ \E u \in Users : RequestDelete(c, u)
  \/ Select(c) \/ SelectNothing(c) \/ CheckUser(c) \/ InsertNext(c)
  \/ RevokeBegins(c) \/ (\E t \in Tokens : RevokeRow(c, t))
  \/ LockUser(c) \/ Verified(c) \/ RevokedAll(c) \/ Abort(c)

Commit(c) == CommitRefresh(c) \/ CommitRevoke(c) \/ CommitDelete(c)

(* A step of Next is a login, a commit, a step that leaves the rows alone, or
   no step at all. *)
LEMMA NextSplit ==
  ASSUME [Next]_vars
  PROVE  \/ \E u \in Users, f \in Families : Login(u, f)
         \/ \E c \in Calls : Quiet(c) \/ Commit(c)
         \/ UNCHANGED vars
<1>1. ASSUME NEW c \in Calls,
             \/ CheckUserFails(c) \/ LockUserNothing(c) \/ VerifyFails(c)
             \/ DeadlockVictim(c) \/ Fail(c)
      PROVE  Abort(c)
  BY <1>1 DEF Abort, CheckUserFails, LockUserNothing, VerifyFails,
              DeadlockVictim, Fail, Running
<1> QED
  BY <1>1 DEF Next, Step, Quiet, Commit, Quiescent

LEMMA QuietRows ==
  ASSUME NEW c \in Calls, Quiet(c)
  PROVE  UNCHANGED rows
  BY DEF Quiet, Present, RequestDelete, Select, SelectNothing, CheckUser,
         InsertNext, RevokeBegins, RevokeRow, LockUser, Verified, RevokedAll,
         Abort, RollBack, rows

LEMMA InitInv == Init => IInv
  BY SessionConstants
     DEF Init, IInv, TypeOK, CallInv, FamilyInv, LockInv, ChainInv, GoneInv,
         RevokeInv, SnapshotOf, MayMiss, RotatedUnder, LockedBy,
         OneLiveTokenPerFamily, RevocationMissesOnlyRotated, Tokens,
         Running, Kinds, Reasons, Answers, Early

LEMMA UnchangedVars ==
  ASSUME UNCHANGED vars, IInv
  PROVE  IInv'
  BY DEF vars, rows, locks, input, work, IInv, TypeOK, CallInv, FamilyInv,
         LockInv, LockedBy, ChainInv, GoneInv, RevokeInv, SnapshotOf, MayMiss,
         RotatedUnder, OneLiveTokenPerFamily, RevocationMissesOnlyRotated

-----------------------------------------------------------------------------
(* Steps that leave the rows alone *)

LEMMA QuietType ==
  ASSUME TypeOK, CallInv, NEW c \in Calls, Quiet(c)
  PROVE  TypeOK'
<1>0. pc[c] # "idle" => /\ kind[c] = "delete" => account[c] \in Users
                        /\ kind[c] # "delete" => token[c] \in Tokens
  BY DEF CallInv
<1> USE <1>0, SessionConstants DEF TypeOK, Goto, Reply, rows, locks, input,
        work, Running, Kinds, Answers
<1>1. ASSUME NEW k \in Kinds, NEW t \in Tokens, Present(c, k, t)
      PROVE  TypeOK'
  BY <1>1 DEF Present
<1>2. ASSUME NEW u \in Users, RequestDelete(c, u)
      PROVE  TypeOK'
  BY <1>2 DEF RequestDelete
<1>3. CASE Select(c)
  BY <1>3 DEF Select, SelectTo, CallInv
<1>4. CASE CheckUser(c) \/ Verified(c) \/ RevokedAll(c)
  BY <1>4 DEF CheckUser, Verified, RevokedAll
<1>5. CASE InsertNext(c)
  BY <1>5, ZenonT(60) DEF InsertNext
<1>6. CASE RevokeBegins(c)
  BY <1>6 DEF RevokeBegins, Revocable
<1>7. ASSUME NEW t \in Tokens, RevokeRow(c, t)
      PROVE  TypeOK'
  BY <1>7 DEF RevokeRow
<1>8. CASE LockUser(c)
  BY <1>8 DEF LockUser, CallInv
<1>9. CASE SelectNothing(c) \/ Abort(c)
  BY <1>9, SMTT(30) DEF SelectNothing, Abort, RollBack, ReleaseAll
<1> QED
  BY <1>1, <1>2, <1>3, <1>4, <1>5, <1>6, <1>7, <1>8, <1>9 DEF Quiet

LEMMA QuietCall ==
  ASSUME TypeOK, CallInv, NEW c \in Calls, Quiet(c)
  PROVE  CallInv'
<1>0. UNCHANGED row
  BY QuietRows DEF rows
<1> USE <1>0 DEF TypeOK, CallInv, Goto, Reply, input
<1>1. ASSUME NEW k \in Kinds, NEW t \in Tokens, Present(c, k, t)
      PROVE  CallInv'
  BY <1>1 DEF Present
<1>2. ASSUME NEW u \in Users, RequestDelete(c, u)
      PROVE  CallInv'
  BY <1>2 DEF RequestDelete
<1>3. CASE Select(c) \/ CheckUser(c) \/ InsertNext(c)
  BY <1>3 DEF Select, SelectTo, CheckUser, InsertNext
<1>4. CASE RevokeBegins(c)
  BY <1>4 DEF RevokeBegins
<1>5. ASSUME NEW t \in Tokens, RevokeRow(c, t)
      PROVE  CallInv'
  BY <1>5 DEF RevokeRow
<1>6. CASE LockUser(c) \/ Verified(c) \/ RevokedAll(c)
  BY <1>6 DEF LockUser, Verified, RevokedAll
<1>7. CASE SelectNothing(c) \/ Abort(c)
  BY <1>7 DEF SelectNothing, Abort, RollBack, Running
<1> QED
  BY <1>1, <1>2, <1>3, <1>4, <1>5, <1>6, <1>7 DEF Quiet

(* A lock is taken only when it is free, and a call gives up only its own. *)
LEMMA QuietLock ==
  ASSUME TypeOK, CallInv, LockInv, NEW c \in Calls, Quiet(c)
  PROVE  LockInv'
<1>0. UNCHANGED row
  BY QuietRows DEF rows
<1> USE <1>0, SessionConstants DEF TypeOK, CallInv, LockInv, LockedBy, Goto,
        Early, locks, input, work
<1>1. ASSUME NEW k \in Kinds, NEW t \in Tokens, Present(c, k, t)
      PROVE  LockInv'
  BY <1>1 DEF Present
<1>2. ASSUME NEW u \in Users, RequestDelete(c, u)
      PROVE  LockInv'
  BY <1>2 DEF RequestDelete
<1>3. CASE Select(c)
  BY <1>3 DEF Select, SelectTo, RowFree
<1>4. CASE CheckUser(c) \/ InsertNext(c)
  BY <1>4 DEF CheckUser, InsertNext
<1>5. CASE RevokeBegins(c)
  BY <1>5 DEF RevokeBegins
<1>6. ASSUME NEW t \in Tokens, RevokeRow(c, t)
      PROVE  LockInv'
  BY <1>6 DEF RevokeRow, RowFree
<1>7. CASE LockUser(c) \/ Verified(c) \/ RevokedAll(c)
  BY <1>7 DEF LockUser, Verified, RevokedAll
<1>8. CASE SelectNothing(c) \/ Abort(c)
  BY <1>8 DEF SelectNothing, Abort, RollBack, ReleaseAll
<1> QED
  BY <1>1, <1>2, <1>3, <1>4, <1>5, <1>6, <1>7, <1>8 DEF Quiet

LEMMA QuietRevoke ==
  ASSUME TypeOK, CallInv, LockInv, RevokeInv, NEW c \in Calls, Quiet(c)
  PROVE  RevokeInv'
<1>0. UNCHANGED <<row, family>>
  BY QuietRows DEF rows
<1> USE <1>0 DEF TypeOK, CallInv, LockInv, LockedBy, RevokeInv, SnapshotOf,
        MayMiss, RotatedUnder, Goto, Early, input, work
<1>1. ASSUME NEW k \in Kinds, NEW t \in Tokens, Present(c, k, t)
      PROVE  RevokeInv'
  BY <1>1 DEF Present
<1>2. ASSUME NEW u \in Users, RequestDelete(c, u)
      PROVE  RevokeInv'
  BY <1>2 DEF RequestDelete
<1>3. CASE Select(c) \/ CheckUser(c) \/ InsertNext(c)
  BY <1>3 DEF Select, SelectTo, CheckUser, InsertNext
<1>4. CASE RevokeBegins(c)
  BY <1>4 DEF RevokeBegins, Revocable
<1>5. ASSUME NEW t \in Tokens, RevokeRow(c, t)
      PROVE  RevokeInv'
  BY <1>5 DEF RevokeRow
<1>6. CASE LockUser(c) \/ Verified(c) \/ RevokedAll(c)
  BY <1>6 DEF LockUser, Verified, RevokedAll
<1>7. CASE SelectNothing(c) \/ Abort(c)
  BY <1>7 DEF SelectNothing, Abort, RollBack, Running
<1> QED
  BY <1>1, <1>2, <1>3, <1>4, <1>5, <1>6, <1>7, SMTT(30) DEF Quiet

(* A call that gives up answers Error or Invalid; a logout whose token is gone
   has nothing left to revoke. *)
LEMMA QuietMisses ==
  ASSUME TypeOK, CallInv, GoneInv, RevocationMissesOnlyRotated,
         NEW c \in Calls, Quiet(c)
  PROVE  RevocationMissesOnlyRotated'
<1>0. UNCHANGED <<row, family>>
  BY QuietRows DEF rows
<1> USE <1>0 DEF TypeOK, CallInv, RevocationMissesOnlyRotated, Goto, Reply,
        input, work
<1>1. CASE SelectNothing(c)
  BY <1>1 DEF SelectNothing, RollBack, GoneInv, Exists
<1>2. CASE Abort(c)
  BY <1>2 DEF Abort, RollBack
<1>3. ASSUME NEW k \in Kinds, NEW t \in Tokens, Present(c, k, t)
      PROVE  RevocationMissesOnlyRotated'
  BY <1>3 DEF Present
<1>4. ASSUME NEW u \in Users, RequestDelete(c, u)
      PROVE  RevocationMissesOnlyRotated'
  BY <1>4 DEF RequestDelete
<1>5. CASE Select(c) \/ CheckUser(c) \/ InsertNext(c)
  BY <1>5 DEF Select, SelectTo, CheckUser, InsertNext
<1>6. CASE RevokeBegins(c)
  BY <1>6 DEF RevokeBegins
<1>7. ASSUME NEW t \in Tokens, RevokeRow(c, t)
      PROVE  RevocationMissesOnlyRotated'
  BY <1>7 DEF RevokeRow
<1>8. CASE LockUser(c) \/ Verified(c) \/ RevokedAll(c)
  BY <1>8 DEF LockUser, Verified, RevokedAll
<1> QED
  BY <1>1, <1>2, <1>3, <1>4, <1>5, <1>6, <1>7, <1>8 DEF Quiet

LEMMA QuietInv ==
  ASSUME IInv, NEW c \in Calls, Quiet(c)
  PROVE  IInv'
<1>1. FamilyInv' /\ OneLiveTokenPerFamily' /\ ChainInv' /\ GoneInv'
  BY QuietRows DEF rows, IInv, FamilyInv, OneLiveTokenPerFamily, ChainInv,
                   GoneInv
<1> QED
  BY <1>1, QuietType, QuietCall, QuietLock, QuietRevoke, QuietMisses DEF IInv

-----------------------------------------------------------------------------
(* Steps that change the rows *)

(* A login opens a family in which there is nothing yet. *)
LEMMA LoginInv ==
  ASSUME TypeOK, CallInv, FamilyInv, LockInv, OneLiveTokenPerFamily, ChainInv,
         GoneInv, RevokeInv, RevocationMissesOnlyRotated,
         NEW u \in Users, NEW f \in Families, Login(u, f)
  PROVE  IInv'
<1> USE SessionConstants DEF TypeOK, Login, Tokens, locks, input, work
<1>1. TypeOK'
  OBVIOUS
<1>2. CallInv'
  BY DEF CallInv
<1>3. FamilyInv' /\ GoneInv'
  BY DEF FamilyInv, GoneInv
<1>4. ASSUME NEW d \in Calls PROVE LockedBy(d)'
  BY DEF CallInv, LockInv, LockedBy
<1>5. OneLiveTokenPerFamily'
  BY DEF OneLiveTokenPerFamily, FamilyInv
<1>6. ChainInv'
  BY DEF ChainInv
<1>7. ASSUME NEW d \in Calls PROVE SnapshotOf(d)' /\ MayMiss(d)' /\ Missed(d)'
  <2>1. SnapshotOf(d)'
    BY DEF RevokeInv, SnapshotOf, CallInv, Early
  <2>2. RotatedUnder(d) => RotatedUnder(d)'
    BY DEF RotatedUnder
  <2>3. kind[d] # "delete" /\ pc[d] # "idle" =>
          /\ token[d] \in Tokens /\ row[token[d]] # "NONE"
          /\ family[token[d]] # f
    BY DEF CallInv, FamilyInv
  <2>4. MayMiss(d)'
    BY <2>2, <2>3 DEF RevokeInv, MayMiss
  <2>5. Missed(d)'
    BY <2>2, <2>3, MissedIff DEF Missed, Revoked, CallInv
  <2> QED
    BY <2>1, <2>4, <2>5
<1>8. RevocationMissesOnlyRotated'
  BY <1>7, MissedNext
<1> QED
  BY <1>1, <1>2, <1>3, <1>4, <1>5, <1>6, <1>7, <1>8
     DEF IInv, LockInv, RevokeInv

(* A refresh replaces the live row it has locked, and the new row is the only
   live one of the family. *)
LEMMA CommitRefreshInv ==
  ASSUME TypeOK, CallInv, FamilyInv, LockInv, OneLiveTokenPerFamily, ChainInv,
         GoneInv, RevokeInv, RevocationMissesOnlyRotated,
         NEW c \in Calls, CommitRefresh(c)
  PROVE  IInv'
<1> DEFINE t == token[c]
<1>1. /\ t \in Tokens /\ row[t] = "LIVE" /\ rowLock[t] = c
      /\ row[c] = "NONE" /\ c \in Tokens /\ t # c
      /\ family[t] \in Families /\ kind[c] = "refresh"
  BY DEF CommitRefresh, Goto, CallInv, LockInv, LockedBy, FamilyInv,
         Tokens
<1> USE <1>1, SessionConstants
        DEF TypeOK, CommitRefresh, NextFamily, Goto, Reply, ReleaseAll,
            input, work
<1>2. TypeOK'
  BY DEF Reasons, Answers
<1>3. CallInv'
  BY DEF CallInv, Tokens
<1>4. FamilyInv'
  BY DEF FamilyInv, Tokens
<1>5. ASSUME NEW d \in Calls PROVE LockedBy(d)'
  BY DEF LockInv, LockedBy, CallInv, Early, Tokens
<1>6. OneLiveTokenPerFamily'
  BY DEF OneLiveTokenPerFamily
<1>7. ChainInv'
  BY DEF ChainInv, Tokens
<1>8. GoneInv'
  BY DEF GoneInv
<1>9. ASSUME NEW d \in Calls PROVE SnapshotOf(d)' /\ MayMiss(d)'
  <2>1. SnapshotOf(d)'
    BY DEF RevokeInv, SnapshotOf, CallInv, Early, Tokens
  <2>2. MayMiss(d)'
    <3> SUFFICES ASSUME d # c, pc[d] = "revoking", kind[d] # "delete",
                        ~RotatedUnder(d)', NEW x \in Tokens,
                        row'[x] = "LIVE", family'[x] = family'[token[d]]
                 PROVE  x \in todo[d] \cup revoked[d]
      BY DEF MayMiss
    <3>1. token[d] \in Tokens /\ row[token[d]] # "NONE" /\ SnapshotOf(d)
      BY DEF CallInv, RevokeInv
    <3>2. family'[token[d]] = family[token[d]]
      BY <3>1
    <3>3. t \notin seen[d]
      BY DEF RotatedUnder
    <3>4. ~RotatedUnder(d)
      BY <3>1 DEF RotatedUnder, SnapshotOf
    <3>5. t \notin todo[d] \cup revoked[d]
      BY <3>1, <3>3 DEF SnapshotOf
    <3>6. family[t] # family[token[d]]
      BY <3>4, <3>5 DEF RevokeInv, MayMiss
    <3> QED
      BY <3>2, <3>4, <3>6 DEF RevokeInv, MayMiss
  <2> QED
    BY <2>1, <2>2
<1>10. ASSUME NEW d \in Calls PROVE Missed(d)'
  <2> SUFFICES ASSUME d # c, Revoked(d), ~RotatedUnder(d)', NEW x \in Tokens,
                      row'[x] = "LIVE", family'[x] = family'[token[d]]
               PROVE  FALSE
    BY DEF Missed, Revoked
  <2>1. /\ token[d] \in Tokens /\ row[token[d]] # "NONE" /\ SnapshotOf(d)
        /\ Missed(d)
    BY MissedIff DEF CallInv, RevokeInv, Revoked
  <2>2. family'[token[d]] = family[token[d]]
    BY <2>1
  <2>3. ~RotatedUnder(d)
    BY <2>1 DEF RotatedUnder, SnapshotOf
  <2>4. family[t] # family[token[d]]
    BY <2>1, <2>3 DEF Missed
  <2> QED
    BY <2>1, <2>2, <2>3, <2>4 DEF Missed
<1>11. RevocationMissesOnlyRotated'
  BY <1>10, MissedNext
<1> QED
  BY <1>2, <1>3, <1>4, <1>5, <1>6, <1>7, <1>8, <1>9, <1>11
     DEF IInv, LockInv, RevokeInv

(* A revocation turns live rows that it has locked into revoked ones. *)
LEMMA CommitRevokeInv ==
  ASSUME TypeOK, CallInv, FamilyInv, LockInv, OneLiveTokenPerFamily, ChainInv,
         GoneInv, RevokeInv, RevocationMissesOnlyRotated,
         NEW c \in Calls, CommitRevoke(c)
  PROVE  IInv'
<1>1. \A t \in revoked[c] : row[t] = "LIVE" /\ rowLock[t] = c
  BY DEF CommitRevoke, Goto, LockInv, LockedBy
<1> USE <1>1, SessionConstants
        DEF TypeOK, CommitRevoke, Reason, Goto, Reply, ReleaseAll,
            input, work
<1>2. TypeOK'
  BY DEF Reasons, Answers
<1>3. CallInv'
  BY DEF CallInv, Tokens
<1>4. FamilyInv'
  BY DEF FamilyInv, Tokens
<1>5. ASSUME NEW d \in Calls PROVE LockedBy(d)'
  BY DEF LockInv, LockedBy, CallInv, Early, Tokens
<1>6. OneLiveTokenPerFamily'
  BY DEF OneLiveTokenPerFamily
<1>7. ChainInv'
  BY DEF ChainInv, Tokens
<1>8. GoneInv'
  BY DEF GoneInv
<1>9. ASSUME NEW d \in Calls PROVE SnapshotOf(d)' /\ MayMiss(d)'
  <2>1. SnapshotOf(d)'
    BY DEF RevokeInv, SnapshotOf, CallInv, Early, Tokens
  <2>2. MayMiss(d)'
    <3> SUFFICES ASSUME d # c, pc[d] = "revoking", kind[d] # "delete",
                        ~RotatedUnder(d)', NEW x \in Tokens,
                        row'[x] = "LIVE", family[x] = family[token[d]]
                 PROVE  x \in todo[d] \cup revoked[d]
      BY DEF MayMiss
    <3>1. ~RotatedUnder(d)
      BY DEF RotatedUnder
    <3> QED
      BY <3>1 DEF RevokeInv, MayMiss
  <2> QED
    BY <2>1, <2>2
<1>10. ASSUME NEW d \in Calls PROVE Missed(d)'
  <2> SUFFICES ASSUME Revoked(d)', ~RotatedUnder(d)', NEW x \in Tokens,
                      row'[x] = "LIVE", family[x] = family[token[d]]
               PROVE  FALSE
    BY DEF Missed
  <2>1. row[x] = "LIVE" /\ x \notin revoked[c] /\ ~RotatedUnder(d)
    BY DEF RotatedUnder
  <2>2. CASE d = c
    BY <2>1, <2>2 DEF RevokeInv, MayMiss
  <2>3. CASE d # c
    BY <2>1, <2>3, MissedIff DEF Missed, Revoked
  <2> QED
    BY <2>2, <2>3
<1>11. RevocationMissesOnlyRotated'
  BY <1>10, MissedNext
<1> QED
  BY <1>2, <1>3, <1>4, <1>5, <1>6, <1>7, <1>8, <1>9, <1>11
     DEF IInv, LockInv, RevokeInv

(* The cascade takes every row of the user, and locks none that another call
   has locked. *)
LEMMA CommitDeleteInv ==
  ASSUME TypeOK, CallInv, FamilyInv, LockInv, OneLiveTokenPerFamily, ChainInv,
         GoneInv, RevokeInv, RevocationMissesOnlyRotated,
         NEW c \in Calls, CommitDelete(c)
  PROVE  IInv'
<1>1. account[c] \in Users /\ kind[c] = "delete"
  BY DEF CommitDelete, Goto, CallInv
<1> USE <1>1, SessionConstants
        DEF TypeOK, CommitDelete, Exists, Owner, RowFree, Goto, Reply,
            ReleaseAll, input, work
<1>2. TypeOK'
  BY DEF Answers
<1>3. CallInv'
  BY DEF CallInv, Tokens
<1>4. FamilyInv'
  BY DEF FamilyInv, Tokens
<1>5. ASSUME NEW d \in Calls PROVE LockedBy(d)'
  BY DEF LockInv, LockedBy, CallInv, Early, Tokens
<1>6. OneLiveTokenPerFamily'
  BY DEF OneLiveTokenPerFamily
<1>7. ChainInv'
  BY DEF ChainInv, Tokens
<1>8. GoneInv'
  BY DEF GoneInv
<1>9. ASSUME NEW d \in Calls PROVE SnapshotOf(d)' /\ MayMiss(d)'
  <2>1. SnapshotOf(d)'
    BY DEF RevokeInv, SnapshotOf, CallInv, Early, Tokens
  <2>2. MayMiss(d)'
    <3> SUFFICES ASSUME d # c, pc[d] = "revoking", kind[d] # "delete",
                        ~RotatedUnder(d)', NEW x \in Tokens,
                        row'[x] = "LIVE", family[x] = family[token[d]]
                 PROVE  x \in todo[d] \cup revoked[d]
      BY DEF MayMiss
    <3>1. row[x] = "LIVE" /\ userOf[family[x]] # account[c] /\ SnapshotOf(d)
      BY DEF RevokeInv
    <3>2. ~RotatedUnder(d)
      BY <3>1 DEF RotatedUnder, SnapshotOf
    <3> QED
      BY <3>1, <3>2 DEF RevokeInv, MayMiss
  <2> QED
    BY <2>1, <2>2
<1>10. ASSUME NEW d \in Calls PROVE Missed(d)'
  <2> SUFFICES ASSUME d # c, Revoked(d), ~RotatedUnder(d)', NEW x \in Tokens,
                      row'[x] = "LIVE", family[x] = family[token[d]]
               PROVE  FALSE
    BY DEF Missed, Revoked
  <2>1. /\ row[x] = "LIVE" /\ userOf[family[x]] # account[c]
        /\ SnapshotOf(d) /\ kind[d] # "delete"
    BY DEF RevokeInv, CallInv, Revoked
  <2>2. ~RotatedUnder(d)
    BY <2>1 DEF RotatedUnder, SnapshotOf
  <2> QED
    BY <2>1, <2>2, MissedIff DEF Missed
<1>11. RevocationMissesOnlyRotated'
  BY <1>10, MissedNext
<1> QED
  BY <1>2, <1>3, <1>4, <1>5, <1>6, <1>7, <1>8, <1>9, <1>11
     DEF IInv, LockInv, RevokeInv

-----------------------------------------------------------------------------
(* The theorems *)

(* Every step keeps the invariant. *)
LEMMA StepInv == IInv /\ [Next]_vars => IInv'
<1> SUFFICES ASSUME IInv, [Next]_vars PROVE IInv'
  OBVIOUS
<1>1. ASSUME NEW u \in Users, NEW f \in Families, Login(u, f)
      PROVE  IInv'
  BY <1>1, LoginInv DEF IInv
<1>2. ASSUME NEW c \in Calls, Quiet(c) \/ Commit(c)
      PROVE  IInv'
  BY <1>2, QuietInv, CommitRefreshInv, CommitRevokeInv, CommitDeleteInv
     DEF Commit, IInv
<1>3. CASE UNCHANGED vars
  BY <1>3, UnchangedVars
<1> QED
  BY <1>1, <1>2, <1>3, NextSplit

LEMMA Invariant == Spec => []IInv
  BY InitInv, StepInv, PTL DEF Spec

(* Every variable keeps its type, for any number of families and calls. *)
THEOREM TypeCorrect == Spec => []TypeOK
<1>1. IInv => TypeOK
  BY DEF IInv
<1> QED
  BY <1>1, Invariant, PTL

(* However many refreshes, logouts and deletions overlap, no family ever has two
   tokens that can be refreshed. *)
THEOREM OneLiveTokenHolds == Spec => []OneLiveTokenPerFamily
<1>1. IInv => OneLiveTokenPerFamily
  BY DEF IInv
<1> QED
  BY <1>1, Invariant, PTL

(* The rotations of a family form a chain, and no token is rotated twice. *)
THEOREM RotationChainHolds == Spec => []RotationChain
<1>1. IInv => RotationChain
  BY DEF IInv, ChainInv, RotationChain
<1> QED
  BY <1>1, Invariant, PTL

(* The race with a refresh is the only way in which a family outlives the
   revocation that was to end it. *)
THEOREM RevocationMissesOnlyRotatedHolds ==
  Spec => []RevocationMissesOnlyRotated
<1>1. IInv => RevocationMissesOnlyRotated
  BY DEF IInv
<1> QED
  BY <1>1, Invariant, PTL

(* A family that has lost its last live token never gets one again. *)
THEOREM DeadFamilyStaysDeadHolds == Spec => DeadFamilyStaysDead
<1> DEFINE Dead(f) == /\ row[f] # "NONE"
                      /\ \A t \in Tokens : family[t] = f => row[t] # "LIVE"
           Step1(f) == Dead(f) =>
                         \A t \in Tokens : family'[t] = f => row'[t] # "LIVE"
<1>1. ASSUME IInv, [Next]_vars, NEW f \in Families
      PROVE  Step1(f)
  <2> USE <1>1, SessionConstants DEF IInv, TypeOK
  <2>1. CASE UNCHANGED rows
    BY <2>1 DEF rows
  <2>2. ASSUME NEW u \in Users, NEW g \in Families, Login(u, g)
        PROVE  Step1(f)
    BY <2>2 DEF Login, Tokens
  <2>3. ASSUME NEW c \in Calls, CommitRefresh(c)
        PROVE  Step1(f)
    BY <2>3 DEF CommitRefresh, Goto, NextFamily, CallInv, LockInv, LockedBy,
                Tokens
  <2>4. ASSUME NEW c \in Calls, CommitRevoke(c) \/ CommitDelete(c)
        PROVE  Step1(f)
    BY <2>4 DEF CommitRevoke, CommitDelete, Reason
  <2> QED
    BY <2>1, <2>2, <2>3, <2>4, NextSplit, QuietRows DEF Commit, vars
<1>2. IInv /\ [Next]_vars => [\A f \in Families : Step1(f)]_vars
  BY <1>1
<1> QED
  BY <1>2, Invariant, PTL DEF Spec, DeadFamilyStaysDead
=============================================================================
