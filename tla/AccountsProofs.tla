---------------------------- MODULE AccountsProofs ----------------------------
(***************************************************************************)
(* What holds of Accounts for every number of addresses, identities and    *)
(* calls.                                                                  *)
(*                                                                         *)
(* The inductive invariant IInv says, beyond the properties, how far a     *)
(* call has come and that the user it names has existed (CallInv), that    *)
(* the clock counts calls (ClockInv), who holds the advisory lock and when *)
(* an administrator has been created under it (BootstrapInv), and for a    *)
(* choice about marketing that meets no other, that its stamp is the       *)
(* latest or its value the current one (ChoiceInv).                        *)
(***************************************************************************)
EXTENDS Accounts, FiniteSetTheorems, TLAPS

(* Users with this id will not be created any more. *)
Settled(i) == i = Earlier \/ (i \in Calls /\ pc[i] = "ended")

CallInv ==
  /\ \A c \in Calls :
       /\ pc[c] # "idle" => request[c] \in Requests
       /\ pc[c] # "idle" /\ Kind(c) \in {"set_marketing", "delete_account"} =>
            Settled(request[c].user)
       /\ result[c] # "none" => pc[c] = "ended"
       /\ result[c] \in {"kept", "set"} => Kind(c) = "set_marketing"
       /\ \A d \in before[c] : pc[d] = "ended"
  /\ \A i \in Ids : Active(i) => Settled(i)

(* A call reads the clock once at most, and nothing is from the future. *)
Ticking == {c \in Calls : pc[c] \in {"stamped", "ended"}}

ClockInv ==
  /\ clock <= Cardinality(Ticking)
  /\ \A c \in Calls : stamp[c] <= clock
  /\ \A k \in consents : k.at <= clock

(* A bootstrap that has found no administrator holds the lock; once one has
   created an administrator no other is at that point. *)
Bootstraps(c) == pc[c] = "checked" /\ Kind(c) = "bootstrap"
Founded(c)    == result[c] = "created" /\ Kind(c) = "bootstrap"

BootstrapInv ==
  /\ \A c \in Calls : Bootstraps(c) => advisory = c
  /\ \A c \in Calls : Founded(c) =>
       /\ admins # {}
       /\ \A d \in Calls : ~Bootstraps(d) /\ (Founded(d) => d = c)

(* The premise of LastChoiceCounts about the other calls *)
Alone(c) ==
  \A d \in Calls \ {c} :
    /\ pc[d] # "idle" /\ Kind(d) = "set_marketing"
    /\ request[d].user = request[c].user
    => d \in before[c]

Choosing(c) ==
  /\ pc[c] # "idle" /\ Kind(c) = "set_marketing"
  /\ Active(request[c].user) /\ Alone(c)

Stands(c) ==
  /\ pc[c] = "stamped" =>
       \A k \in Marketing(request[c].user) : k.at < stamp[c]
  /\ result[c] \in {"kept", "set"} =>
       Latest(request[c].user).agreed = request[c].agreed

ChoiceInv == \A c \in Calls : Choosing(c) => Stands(c)

(* The inductive invariant *)
IInv ==
  /\ RowsConsistent /\ CallInv /\ ClockInv /\ BootstrapInv /\ ChoiceInv

-----------------------------------------------------------------------------
(* The steps *)

Step(c) ==
  \/ Begin(c)
  \/ CheckSub(c) \/ CheckEmail(c) \/ InsertUser(c) \/ InsertUserFails(c)
  \/ DeleteAccount(c)
  \/ ReadMarketing(c) \/ Stamp(c)
  \/ InsertMarketing(c) \/ InsertMarketingFails(c)
  \/ CheckNoAdmin(c) \/ CheckAdminEmail(c)
  \/ InsertAdmin(c) \/ InsertAdminFails(c)

(* What a call brings with it *)
LEMMA Arguments ==
  ASSUME NEW r \in Requests
  PROVE  /\ r.kind \in {"signup", "google_login", "set_marketing",
                        "delete_account", "bootstrap", "add"}
         /\ r.kind \in {"signup", "google_login"} =>
              /\ r.email \in Emails /\ r.sub \in Subs \cup {None}
              /\ r.agreed \in BOOLEAN
         /\ r.kind = "set_marketing" => r.user \in Ids /\ r.agreed \in BOOLEAN
         /\ r.kind = "delete_account" => r.user \in Ids
         /\ r.kind \in {"bootstrap", "add"} => r.email \in Emails
  BY DEF Requests

(* A step is a step of one call: the others stay where they are. *)
LEMMA OthersStay ==
  ASSUME TypeOK, NEW c \in Calls, Step(c), NEW d \in Calls, d # c
  PROVE  /\ pc'[d] = pc[d] /\ request'[d] = request[d]
         /\ stamp'[d] = stamp[d] /\ result'[d] = result[d]
         /\ before'[d] = before[d]
  BY DEF TypeOK, Step, Begin, CheckSub, CheckEmail, InsertUser,
     InsertUserFails, DeleteAccount, ReadMarketing, Stamp, InsertMarketing,
     InsertMarketingFails, CheckNoAdmin, CheckAdminEmail, InsertAdmin,
     InsertAdminFails, End, Goto

(* Beyond its arrival a call keeps its arguments, and it ends once. *)
LEMMA Onward ==
  ASSUME TypeOK, CallInv, NEW c \in Calls, Step(c)
  PROVE  /\ pc[c] # "ended" /\ pc'[c] # "idle"
         /\ ~Begin(c) => /\ pc[c] # "idle" /\ request'[c] = request[c]
                         /\ before'[c] = before[c]
  BY DEF TypeOK, CallInv, Step, Begin, CheckSub, CheckEmail, InsertUser,
     InsertUserFails, DeleteAccount, ReadMarketing, Stamp, InsertMarketing,
     InsertMarketingFails, CheckNoAdmin, CheckAdminEmail, InsertAdmin,
     InsertAdminFails, End, Goto, At

LEMMA EndedStays ==
  ASSUME TypeOK, CallInv, NEW c \in Calls, Step(c), NEW d \in Calls,
         pc[d] = "ended"
  PROVE  pc'[d] = "ended"
  BY OthersStay, Onward

LEMMA SettledStays ==
  ASSUME TypeOK, CallInv, NEW c \in Calls, Step(c), NEW i, Settled(i)
  PROVE  Settled(i)'
  BY EndedStays DEF Settled

-----------------------------------------------------------------------------
(* Types: the clock stays below MaxCalls because each call ticks once. *)

LEMMA CallsFinite ==
  IsFiniteSet(Calls) /\ Cardinality(Calls) = MaxCalls
  <1>1. MaxCalls \in Nat  BY AccountConstants
  <1> QED  BY <1>1, FS_Interval DEF Calls

LEMMA TickingGrows ==
  ASSUME TypeOK, CallInv, NEW c \in Calls, Step(c),
         pc[c] = "stamped" => pc'[c] = "ended"
  PROVE  /\ Cardinality(Ticking) \in Nat /\ Cardinality(Ticking') \in Nat
         /\ Cardinality(Ticking) <= Cardinality(Ticking')
         /\ Cardinality(Ticking') <= MaxCalls
         /\ pc[c] # "stamped" /\ pc'[c] \in {"stamped", "ended"} =>
              Cardinality(Ticking') = Cardinality(Ticking) + 1
  <1>1. /\ Ticking \subseteq Calls /\ Ticking' \subseteq Calls
        /\ Ticking \subseteq Ticking'
    <2>1. Ticking \subseteq Calls /\ Ticking' \subseteq Calls
      BY DEF Ticking
    <2>2. Ticking \subseteq Ticking'
      BY OthersStay, Onward DEF Ticking
    <2> QED  BY <2>1, <2>2
  <1>2. /\ IsFiniteSet(Ticking) /\ IsFiniteSet(Ticking')
        /\ Cardinality(Ticking) <= Cardinality(Ticking')
        /\ Cardinality(Ticking') <= MaxCalls
    BY <1>1, CallsFinite, FS_Subset
  <1>3. Cardinality(Ticking) \in Nat /\ Cardinality(Ticking') \in Nat
    BY <1>2, FS_CardinalityType
  <1>4. ASSUME pc[c] # "stamped", pc'[c] \in {"stamped", "ended"}
        PROVE  Cardinality(Ticking') = Cardinality(Ticking) + 1
    <2>1. c \notin Ticking  BY <1>4, Onward DEF Ticking
    <2>2. Ticking' = Ticking \cup {c}
      BY <1>4, OthersStay, Onward DEF Ticking
    <2> QED  BY <2>1, <2>2, <1>2, FS_AddElement
  <1> QED  BY <1>2, <1>3, <1>4

LEMMA TickOnce ==
  ASSUME TypeOK, CallInv, ClockInv, NEW c \in Calls, Step(c)
  PROVE  ClockInv' /\ clock' \in 0 .. MaxCalls /\ clock' >= clock
  <1>0. clock \in Nat /\ MaxCalls \in Nat
    BY AccountConstants DEF TypeOK
  <1>1. pc[c] = "stamped" => pc'[c] = "ended"
    BY DEF TypeOK, Step, Begin, CheckSub, CheckEmail, InsertUser,
       InsertUserFails, DeleteAccount, ReadMarketing, Stamp, InsertMarketing,
       InsertMarketingFails, CheckNoAdmin, CheckAdminEmail, InsertAdmin,
       InsertAdminFails, End, Goto, At
  <1>2. \/ clock' = clock
        \/ /\ clock' = clock + 1
           /\ pc[c] # "stamped" /\ pc'[c] \in {"stamped", "ended"}
    BY DEF TypeOK, Step, Begin, CheckSub, CheckEmail, InsertUser,
       InsertUserFails, DeleteAccount, ReadMarketing, Stamp, InsertMarketing,
       InsertMarketingFails, CheckNoAdmin, CheckAdminEmail, InsertAdmin,
       InsertAdminFails, End, Goto, At, Ticked, rows
  <1>3. clock' <= Cardinality(Ticking') /\ clock' \in 0 .. MaxCalls
    BY <1>0, <1>1, <1>2, TickingGrows DEF ClockInv
  <1>4. \A d \in Calls : stamp'[d] <= clock'
    BY <1>0, <1>2 DEF ClockInv, TypeOK, Step, Begin, CheckSub, CheckEmail,
       InsertUser, InsertUserFails, DeleteAccount, ReadMarketing, Stamp,
       InsertMarketing, InsertMarketingFails, CheckNoAdmin, CheckAdminEmail,
       InsertAdmin, InsertAdminFails, Ticked
  <1>5. \A k \in consents' : k.at <= clock'
    <2>1. CASE InsertUser(c)
      <3>1. \A k \in InitialConsents(c, request[c].agreed, clock') :
              k.at = clock'
        BY DEF InitialConsents
      <3> QED  BY <3>1, <2>1, <1>0, <1>2 DEF InsertUser, ClockInv, TypeOK
    <2>2. CASE InsertMarketing(c)
      <3>1. consents' = consents \cup
              {[user |-> request[c].user, type |-> "MARKETING",
                agreed |-> request[c].agreed, at |-> stamp[c]]}
        BY <2>2 DEF InsertMarketing
      <3>2. clock' = clock  BY <2>2 DEF InsertMarketing
      <3> QED  BY <3>1, <3>2 DEF ClockInv
    <2>3. CASE ~InsertUser(c) /\ ~InsertMarketing(c)
      <3>1. consents' \subseteq consents
        BY <2>3 DEF Step, Begin, CheckSub, CheckEmail, InsertUserFails,
           DeleteAccount, ReadMarketing, Stamp, InsertMarketingFails,
           CheckNoAdmin, CheckAdminEmail, InsertAdmin, InsertAdminFails, rows
      <3> QED  BY <3>1, <1>0, <1>2 DEF ClockInv, TypeOK
    <2> QED  BY <2>1, <2>2, <2>3
  <1>6. clock' >= clock  BY <1>0, <1>2
  <1> QED  BY <1>3, <1>4, <1>5, <1>6 DEF ClockInv

LEMMA InitialTypes ==
  ASSUME NEW u \in Ids, NEW agreed \in BOOLEAN, NEW at \in 0 .. MaxCalls
  PROVE  InitialConsents(u, agreed, at) \subseteq
           [user: Ids, type: Types, agreed: BOOLEAN, at: 0 .. MaxCalls]
  BY DEF InitialConsents, Types

LEMMA TypeStep ==
  ASSUME TypeOK, CallInv, ClockInv, NEW c \in Calls, Step(c)
  PROVE  TypeOK'
  <1>0. /\ clock' \in 0 .. MaxCalls /\ clock \in 0 .. MaxCalls
        /\ c \in Ids
        /\ pc[c] # "idle" => request[c] \in Requests
    BY TickOnce DEF TypeOK, CallInv, Ids
  <1>a. ASSUME pc[c] # "idle"
        PROVE  /\ Kind(c) \in {"signup", "google_login", "set_marketing"} =>
                    request[c].agreed \in BOOLEAN
               /\ Kind(c) \in {"set_marketing", "delete_account"} =>
                    request[c].user \in Ids
               /\ Kind(c) \in {"bootstrap", "add"} =>
                    request[c].email \in Emails
    <2>1. request[c] \in Requests  BY <1>a, <1>0
    <2> QED  BY <2>1, Arguments, Zenon DEF Kind
  <1>1. users' \in [Ids -> [email: Emails \cup {None}, sub: Subs \cup {None},
                            state: {"none", "ACTIVE", "deleted"}]]
    <2>1. CASE InsertUser(c)
      BY <2>1, <1>0, Arguments DEF TypeOK, InsertUser, At, Kind
    <2>2. CASE DeleteAccount(c)
      BY <2>2, <1>0, Arguments DEF TypeOK, DeleteAccount, At, Kind
    <2>3. CASE ~InsertUser(c) /\ ~DeleteAccount(c)
      BY <2>3 DEF TypeOK, Step, Begin, CheckSub, CheckEmail, InsertUserFails,
         ReadMarketing, Stamp, InsertMarketing, InsertMarketingFails,
         CheckNoAdmin, CheckAdminEmail, InsertAdmin, InsertAdminFails, rows
    <2> QED  BY <2>1, <2>2, <2>3
  <1>2. consents' \subseteq
          [user: Ids, type: Types, agreed: BOOLEAN, at: 0 .. MaxCalls]
    <2>1. CASE InsertUser(c)
      <3>1. request[c].agreed \in BOOLEAN
        <4>1. /\ pc[c] # "idle"
              /\ Kind(c) \in {"signup", "google_login", "set_marketing"}
          BY <2>1 DEF InsertUser, At
        <4> QED  BY <4>1, <1>a, Zenon
      <3>2. InitialConsents(c, request[c].agreed, clock') \subseteq
              [user: Ids, type: Types, agreed: BOOLEAN, at: 0 .. MaxCalls]
        BY <3>1, <1>0, InitialTypes, Zenon
      <3> QED  BY <3>2, <2>1 DEF TypeOK, InsertUser
    <2>2. CASE InsertMarketing(c)
      <3>1. /\ request[c].user \in Ids /\ request[c].agreed \in BOOLEAN
        <4>1. pc[c] # "idle" /\ Kind(c) = "set_marketing"
          BY <2>2 DEF InsertMarketing, At
        <4> QED  BY <4>1, <1>a, Zenon
      <3>2. stamp[c] \in 0 .. MaxCalls  BY DEF TypeOK
      <3> QED  BY <3>1, <3>2, <2>2 DEF TypeOK, InsertMarketing, Types
    <2>3. CASE ~InsertUser(c) /\ ~InsertMarketing(c)
      BY <2>3 DEF TypeOK, Step, Begin, CheckSub, CheckEmail, InsertUserFails,
         DeleteAccount, ReadMarketing, Stamp, InsertMarketingFails,
         CheckNoAdmin, CheckAdminEmail, InsertAdmin, InsertAdminFails, rows
    <2> QED  BY <2>1, <2>2, <2>3
  <1>3. admins' \subseteq Emails
    <2>1. CASE InsertAdmin(c)
      BY <2>1, <1>a DEF TypeOK, InsertAdmin, At
    <2>2. CASE ~InsertAdmin(c)
      BY <2>2 DEF TypeOK, Step, Begin, CheckSub, CheckEmail, InsertUser,
         InsertUserFails, DeleteAccount, ReadMarketing, Stamp,
         InsertMarketing, InsertMarketingFails, CheckNoAdmin,
         CheckAdminEmail, InsertAdminFails, rows
    <2> QED  BY <2>1, <2>2
  <1>4. advisory' \in Calls \cup {Nobody}
    BY DEF TypeOK, Step, Begin, CheckSub, CheckEmail, InsertUser,
       InsertUserFails, DeleteAccount, ReadMarketing, Stamp, InsertMarketing,
       InsertMarketingFails, CheckNoAdmin, CheckAdminEmail, InsertAdmin,
       InsertAdminFails, End
  <1>5. /\ pc' \in [Calls -> {"idle", "begun", "bySub", "checked", "read",
                              "stamped", "ended"}]
        /\ request' \in [Calls -> Requests \cup {None}]
        /\ before' \in [Calls -> SUBSET Calls]
    BY DEF TypeOK, Step, Begin, CheckSub, CheckEmail, InsertUser,
       InsertUserFails, DeleteAccount, ReadMarketing, Stamp, InsertMarketing,
       InsertMarketingFails, CheckNoAdmin, CheckAdminEmail, InsertAdmin,
       InsertAdminFails, End, Goto
  <1>6. /\ stamp' \in [Calls -> 0 .. MaxCalls]
        /\ result' \in [Calls -> Results]
    BY <1>0 DEF TypeOK, Results, Step, Begin, CheckSub, CheckEmail,
       InsertUser, InsertUserFails, DeleteAccount, ReadMarketing, Stamp,
       InsertMarketing, InsertMarketingFails, CheckNoAdmin, CheckAdminEmail,
       InsertAdmin, InsertAdminFails, End
  <1> QED  BY <1>0, <1>1, <1>2, <1>3, <1>4, <1>5, <1>6 DEF TypeOK

-----------------------------------------------------------------------------
(* The rows *)

(* Rows of users change when one is inserted or deleted. *)
LEMMA UsersChange ==
  ASSUME NEW c \in Calls, Step(c)
  PROVE  users' = users \/ InsertUser(c) \/ DeleteAccount(c)
  BY DEF Step, Begin, CheckSub, CheckEmail, InsertUserFails, ReadMarketing,
     Stamp, InsertMarketing, InsertMarketingFails, CheckNoAdmin,
     CheckAdminEmail, InsertAdmin, InsertAdminFails, rows

LEMMA ConsentsChange ==
  ASSUME NEW c \in Calls, Step(c)
  PROVE  \/ consents' = consents /\ users' = users
         \/ InsertUser(c) \/ DeleteAccount(c) \/ InsertMarketing(c)
  BY DEF Step, Begin, CheckSub, CheckEmail, InsertUserFails, DeleteAccount,
     ReadMarketing, Stamp, InsertMarketingFails, CheckNoAdmin,
     CheckAdminEmail, InsertAdmin, InsertAdminFails, rows

(* A deletion takes one row at most, and its consents. *)
LEMMA DeleteRow ==
  ASSUME TypeOK, CallInv, NEW c \in Calls, DeleteAccount(c)
  PROVE  LET u == request[c].user IN
         \/ users' = users /\ consents' = consents
         \/ /\ u \in Ids /\ Active(u) /\ users'[u].state = "deleted"
            /\ \A i \in Ids \ {u} : users'[i] = users[i]
            /\ consents' = {k \in consents : k.user # u}
  <1>1. pc[c] # "idle" /\ Kind(c) = "delete_account"
    BY DEF DeleteAccount, At
  <1>2. request[c] \in Requests  BY <1>1 DEF CallInv
  <1>3. request[c].user \in Ids  BY <1>1, <1>2, Arguments DEF Kind
  <1> QED  BY <1>3 DEF DeleteAccount, TypeOK, Active

LEMMA InsertRow ==
  ASSUME TypeOK, CallInv, NEW c \in Calls, InsertUser(c)
  PROVE  /\ users'[c] = [email |-> request[c].email, sub |-> request[c].sub,
                         state |-> "ACTIVE"]
         /\ \A i \in Ids \ {c} : users'[i] = users[i]
         /\ c \in Ids
  BY DEF InsertUser, TypeOK, Ids

LEMMA InitialOf ==
  ASSUME NEW u, NEW agreed, NEW at
  PROVE  /\ \A k \in InitialConsents(u, agreed, at) : k.user = u
         /\ {k.type : k \in InitialConsents(u, agreed, at)} = Types
  BY DEF InitialConsents, Types

LEMMA IdentityStep ==
  ASSUME TypeOK, CallInv, IdentityUnique, NEW c \in Calls, Step(c)
  PROVE  IdentityUnique'
  <1>1. CASE users' = users
    BY <1>1 DEF IdentityUnique, Active
  <1>2. CASE DeleteAccount(c)
    BY <1>2, DeleteRow DEF IdentityUnique, Active
  <1>3. CASE InsertUser(c)
    <2>1. \A i \in Ids \ {c} : Active(i) =>
            /\ users[i].email # request[c].email
            /\ request[c].sub = None \/ users[i].sub # request[c].sub
      BY <1>3 DEF InsertUser, Duplicate, EmailTaken, SubTaken
    <2>2. /\ users'[c].email = request[c].email
          /\ users'[c].sub = request[c].sub
          /\ \A i \in Ids \ {c} : users'[i] = users[i]
      <3>1. users'[c] = [email |-> request[c].email,
                         sub |-> request[c].sub, state |-> "ACTIVE"]
        BY <1>3, InsertRow
      <3>2. \A i \in Ids \ {c} : users'[i] = users[i]
        BY <1>3, InsertRow
      <3> QED  BY <3>1, <3>2
    <2> QED  BY <2>1, <2>2 DEF IdentityUnique, Active
  <1> QED  BY <1>1, <1>2, <1>3, UsersChange

TypesOf(i) == {k.type : k \in {l \in consents : l.user = i}}

LEMMA ConsentsStep ==
  ASSUME TypeOK, CallInv, ConsentsWithAccount, NEW c \in Calls, Step(c),
         TypeOK'
  PROVE  ConsentsWithAccount'
  <1>1. CASE consents' = consents /\ users' = users
    BY <1>1 DEF ConsentsWithAccount, Active
  <1>2. CASE DeleteAccount(c)
    <2>1. CASE users' = users /\ consents' = consents
      BY <2>1 DEF ConsentsWithAccount, Active
    <2>2. CASE ~(users' = users /\ consents' = consents)
      <3> DEFINE u == request[c].user
      <3>1. /\ u \in Ids /\ users'[u].state = "deleted"
            /\ \A i \in Ids \ {u} : users'[i] = users[i]
            /\ consents' = {k \in consents : k.user # u}
        BY <1>2, <2>2, DeleteRow
      <3> HIDE DEF u
      <3>2. \A i \in Ids : Active(i)' => i # u /\ Active(i)
        BY <3>1 DEF Active
      <3>3. \A i \in Ids : i # u => TypesOf(i)' = TypesOf(i)
        BY <3>1 DEF TypesOf
      <3>4. \A k \in consents' : k.user \in Ids
        BY DEF TypeOK
      <3>5. \A k \in consents' : Active(k.user)'
        BY <3>1, <3>4 DEF ConsentsWithAccount, Active
      <3> QED  BY <3>2, <3>3, <3>5 DEF ConsentsWithAccount, TypesOf
    <2> QED  BY <2>1, <2>2
  <1>3. CASE InsertUser(c)
    <2> DEFINE new == InitialConsents(c, request[c].agreed, clock')
    <2>1. /\ consents' = consents \cup new
          /\ \A k \in new : k.user = c
          /\ {k.type : k \in new} = Types
      BY <1>3, InitialOf DEF InsertUser
    <2>2. \A k \in consents' : k.user \in Ids /\ k.type \in Types
      BY DEF TypeOK
    <2> HIDE DEF new
    <2>3. TypesOf(c)' = Types
      BY <2>1, <2>2 DEF TypesOf
    <2>4. \A i \in Ids \ {c} : TypesOf(i)' = TypesOf(i)
      BY <2>1 DEF TypesOf
    <2>5. /\ Active(c)' /\ c \in Ids
          /\ \A i \in Ids \ {c} : Active(i)' <=> Active(i)
      <3>1. users'[c].state = "ACTIVE" /\ c \in Ids
        <4>1. /\ c \in Ids
              /\ users'[c] = [email |-> request[c].email,
                              sub |-> request[c].sub, state |-> "ACTIVE"]
          BY <1>3, InsertRow
        <4> QED  BY <4>1
      <3>2. \A i \in Ids \ {c} : users'[i] = users[i]
        BY <1>3, InsertRow
      <3> QED  BY <3>1, <3>2 DEF Active
    <2>6. \A k \in consents' : Active(k.user)'
      BY <2>1, <2>2, <2>5 DEF ConsentsWithAccount
    <2> QED  BY <2>3, <2>4, <2>5, <2>6 DEF ConsentsWithAccount, TypesOf
  <1>4. CASE InsertMarketing(c)
    <2> DEFINE k0 == [user |-> request[c].user, type |-> "MARKETING",
                      agreed |-> request[c].agreed, at |-> stamp[c]]
    <2>1. /\ consents' = consents \cup {k0} /\ users' = users
          /\ Active(k0.user) /\ k0.type = "MARKETING"
      BY <1>4 DEF InsertMarketing, Owned
    <2> HIDE DEF k0
    <2>2. \A i \in Ids : Active(i) => TypesOf(i)' = TypesOf(i)
      BY <2>1 DEF TypesOf, Types, ConsentsWithAccount
    <2> QED  BY <2>1, <2>2 DEF ConsentsWithAccount, TypesOf, Active
  <1> QED  BY <1>1, <1>2, <1>3, <1>4, ConsentsChange

-----------------------------------------------------------------------------
(* What calls know *)

LEMMA CallStep ==
  ASSUME TypeOK, CallInv, NEW c \in Calls, Step(c)
  PROVE  CallInv'
  <1>1. ASSUME NEW d \in Calls, pc'[d] # "idle"
        PROVE  request'[d] \in Requests
    <2>1. CASE d # c  BY <1>1, <2>1, OthersStay DEF CallInv
    <2>2. CASE d = c /\ Begin(c)
      BY <2>2 DEF Begin, TypeOK
    <2>3. CASE d = c /\ ~Begin(c)
      BY <2>3, Onward DEF CallInv
    <2> QED  BY <2>1, <2>2, <2>3
  <1>2. ASSUME NEW d \in Calls, pc'[d] # "idle",
               Kind(d)' \in {"set_marketing", "delete_account"}
        PROVE  Settled(request[d].user)'
    <2>1. CASE d # c
      <3>1. Settled(request[d].user)
        BY <1>2, <2>1, OthersStay DEF CallInv, Kind
      <3> QED  BY <3>1, <2>1, OthersStay, EndedStays DEF Settled
    <2>2. CASE d = c /\ Begin(c)
      <3>1. /\ request'[c] \in Requests
            /\ Active(request'[c].user)
        BY <1>2, <2>2 DEF Begin, TypeOK, Presentable, Kind
      <3>2. request'[c].user \in Ids
        BY <1>2, <2>2, <3>1, Arguments DEF Kind
      <3>3. Settled(request'[c].user)
        BY <3>1, <3>2 DEF CallInv
      <3> QED  BY <2>2, <3>3, EndedStays DEF Settled
    <2>3. CASE d = c /\ ~Begin(c)
      <3>1. Settled(request[d].user) /\ request'[d] = request[d]
        BY <1>2, <2>3, Onward DEF CallInv, Kind
      <3> QED  BY <3>1, EndedStays DEF Settled
    <2> QED  BY <2>1, <2>2, <2>3
  <1>3. ASSUME NEW d \in Calls
        PROVE  /\ result'[d] # "none" => pc'[d] = "ended"
               /\ result'[d] \in {"kept", "set"} => Kind(d)' = "set_marketing"
    <2>1. CASE d # c
      BY <2>1, OthersStay DEF CallInv, Kind
    <2>2. CASE d = c
      BY <2>2 DEF TypeOK, CallInv, Kind, Step, Begin, CheckSub, CheckEmail,
         InsertUser, InsertUserFails, DeleteAccount, ReadMarketing, Stamp,
         InsertMarketing, InsertMarketingFails, CheckNoAdmin,
         CheckAdminEmail, InsertAdmin, InsertAdminFails, End, Goto, At
    <2> QED  BY <2>1, <2>2
  <1>4. ASSUME NEW d \in Calls, NEW e \in before'[d]
        PROVE  pc'[e] = "ended"
    <2>1. e \in Calls /\ pc[e] = "ended"
      <3>1. CASE d # c \/ ~Begin(c)
        BY <1>4, <3>1, OthersStay, Onward DEF CallInv, TypeOK
      <3>2. CASE d = c /\ Begin(c)
        BY <1>4, <3>2 DEF Begin, TypeOK
      <3> QED  BY <3>1, <3>2
    <2> QED  BY <2>1, EndedStays
  <1>5. ASSUME NEW i \in Ids, Active(i)'
        PROVE  Settled(i)'
    <2>1. CASE InsertUser(c) /\ i = c
      BY <2>1 DEF InsertUser, End, Settled, TypeOK
    <2>2. CASE ~(InsertUser(c) /\ i = c)
      <3>1. Active(i)
        BY <1>5, <2>2, UsersChange, InsertRow, DeleteRow DEF Active
      <3> QED  BY <3>1, SettledStays DEF CallInv
    <2> QED  BY <2>1, <2>2
  <1> QED  BY <1>1, <1>2, <1>3, <1>4, <1>5 DEF CallInv

LEMMA BootstrapStep ==
  ASSUME TypeOK, CallInv, BootstrapInv, NEW c \in Calls, Step(c)
  PROVE  BootstrapInv'
  <1> USE DEF Bootstraps, Founded, Kind
  <1>1. ASSUME NEW d \in Calls, Bootstraps(d)'
        PROVE  advisory' = d
    <2>1. CASE d # c
      <3>1. advisory = d  BY <1>1, <2>1, OthersStay DEF BootstrapInv
      <3> QED
        BY <3>1, <2>1, AccountConstants DEF Step, Begin, CheckSub, CheckEmail,
           InsertUser, InsertUserFails, DeleteAccount, ReadMarketing, Stamp,
           InsertMarketing, InsertMarketingFails, CheckNoAdmin, AdvisoryFree,
           CheckAdminEmail, InsertAdmin, InsertAdminFails, End,
           Ids
    <2>2. CASE d = c
      BY <1>1, <2>2 DEF TypeOK, BootstrapInv, Step, Begin, CheckSub,
         CheckEmail, InsertUser, InsertUserFails, DeleteAccount,
         ReadMarketing, Stamp, InsertMarketing, InsertMarketingFails,
         CheckNoAdmin, CheckAdminEmail, InsertAdmin, InsertAdminFails, End,
         Goto, At
    <2> QED  BY <2>1, <2>2
  <1>2. ASSUME NEW d \in Calls, Bootstraps(d)'
        PROVE  Bootstraps(d) \/ (d = c /\ CheckNoAdmin(c) /\ admins' = {})
    BY <1>2, OthersStay, ZenonT(60) DEF TypeOK, Step, Begin, CheckSub,
       CheckEmail, InsertUser, InsertUserFails, DeleteAccount, ReadMarketing,
       Stamp, InsertMarketing, InsertMarketingFails, CheckNoAdmin,
       CheckAdminEmail, InsertAdmin, InsertAdminFails, End, Goto, At, rows
  <1>3. ASSUME NEW d \in Calls, Founded(d)'
        PROVE  Founded(d) \/ (d = c /\ InsertAdmin(c) /\ Bootstraps(c))
    BY <1>3, OthersStay, ZenonT(60) DEF TypeOK, CallInv, Step, Begin, CheckSub,
       CheckEmail, InsertUser, InsertUserFails, DeleteAccount, ReadMarketing,
       Stamp, InsertMarketing, InsertMarketingFails, CheckNoAdmin,
       CheckAdminEmail, InsertAdmin, InsertAdminFails, End, Goto, At
  <1>4. admins \subseteq admins' /\ (InsertAdmin(c) => admins' # {})
    BY DEF Step, Begin, CheckSub, CheckEmail, InsertUser, InsertUserFails,
       DeleteAccount, ReadMarketing, Stamp, InsertMarketing,
       InsertMarketingFails, CheckNoAdmin, CheckAdminEmail, InsertAdmin,
       InsertAdminFails, rows
  <1>5. InsertAdmin(c) => pc'[c] = "ended"
    BY DEF InsertAdmin, End, TypeOK
  <1>6. ASSUME NEW d \in Calls, Founded(d)'
        PROVE  admins' # {}
    BY <1>6, <1>3, <1>4 DEF BootstrapInv
  <1>7. ASSUME NEW d \in Calls, Founded(d)', NEW e \in Calls
        PROVE  ~Bootstraps(e)'
    <2> SUFFICES ASSUME Bootstraps(e)' PROVE FALSE  OBVIOUS
    <2>1. admins' # {}  BY <1>6, <1>7
    <2>2. Bootstraps(e)  BY <1>2, <2>1
    <2>3. ~Founded(d)  BY <2>2 DEF BootstrapInv
    <2>4. d = c /\ InsertAdmin(c) /\ Bootstraps(c)  BY <1>3, <1>7, <2>3
    <2>5. e = c  BY <2>2, <2>4 DEF BootstrapInv
    <2> QED  BY <2>4, <2>5, <1>5
  <1>8. ASSUME NEW d \in Calls, Founded(d)', NEW e \in Calls, Founded(e)'
        PROVE  e = d
    BY <1>3, <1>8 DEF BootstrapInv
  <1> QED  BY <1>1, <1>6, <1>7, <1>8 DEF BootstrapInv

-----------------------------------------------------------------------------
(* Choices about marketing *)

LEMMA AloneBefore ==
  ASSUME TypeOK, CallInv, NEW c \in Calls, Step(c), NEW d \in Calls,
         pc[d] # "idle", Alone(d)'
  PROVE  Alone(d)
  <1>1. request'[d] = request[d] /\ before'[d] = before[d]
    BY OthersStay, Onward DEF Begin
  <1>2. ASSUME NEW e \in Calls \ {d}, pc[e] # "idle"
        PROVE  pc'[e] # "idle" /\ request'[e] = request[e]
    BY <1>2, OthersStay, Onward DEF Begin
  <1> QED  BY <1>1, <1>2 DEF Alone, Kind

(* Nobody else touches the history of a user whose choice is alone. *)
LEMMA HistoryKept ==
  ASSUME TypeOK, CallInv, NEW c \in Calls, Step(c), NEW d \in Calls, d # c,
         Choosing(d)', pc[d] # "idle"
  PROVE  /\ Choosing(d)
         /\ Marketing(request[d].user)' = Marketing(request[d].user)
  <1> DEFINE u == request[d].user
  <1>1. /\ request'[d] = request[d] /\ Kind(d) = "set_marketing"
        /\ Alone(d) /\ request[d] \in Requests
    BY OthersStay, AloneBefore DEF Choosing, Kind, CallInv
  <1>2. u \in Ids /\ Settled(u)
    BY <1>1, Arguments DEF CallInv, Kind
  <1>3. Active(u)'  BY <1>1 DEF Choosing
  <1>4. ~InsertUser(c) \/ u # c
    BY <1>2, AccountConstants DEF Settled, InsertUser, At, Ids
  <1>5. Active(u)
    <2>1. users'[u].state = "ACTIVE"  BY <1>1, <1>3 DEF Active
    <2>2. CASE users' = users  BY <2>1, <2>2 DEF Active
    <2>3. CASE InsertUser(c)
      BY <2>1, <2>3, <1>2, <1>4, InsertRow DEF Active
    <2>4. CASE DeleteAccount(c)
      BY <2>1, <2>4, <1>2, DeleteRow DEF Active
    <2> QED  BY <2>2, <2>3, <2>4, UsersChange
  <1>6. Marketing(u)' = Marketing(u)
    <2>1. CASE consents' = consents  BY <2>1, <1>1 DEF Marketing
    <2>2. CASE InsertUser(c)
      <3>1. \A k \in InitialConsents(c, request[c].agreed, clock') :
              k.user = c
        BY InitialOf
      <3>2. consents' = consents
              \cup InitialConsents(c, request[c].agreed, clock')
        BY <2>2 DEF InsertUser
      <3> QED  BY <3>1, <3>2, <2>2, <1>4, <1>1 DEF Marketing
    <2>3. CASE DeleteAccount(c)
      BY <2>3, <1>1, <1>2, <1>3, DeleteRow DEF Marketing, Active
    <2>4. CASE InsertMarketing(c)
      <3>1. /\ pc[c] = "stamped" /\ Kind(c) = "set_marketing"
            /\ consents' = consents \cup
                 {[user |-> request[c].user, type |-> "MARKETING",
                   agreed |-> request[c].agreed, at |-> stamp[c]]}
        BY <2>4 DEF InsertMarketing, At
      <3>2. c \notin before[d]  BY <3>1 DEF CallInv
      <3>3. request[c].user # u
        BY <3>1, <3>2, <1>1 DEF Alone
      <3> QED  BY <3>1, <3>3, <1>1 DEF Marketing
    <2> QED  BY <2>1, <2>2, <2>3, <2>4, ConsentsChange
  <1> QED  BY <1>1, <1>5, <1>6 DEF Choosing

LEMMA ChoiceStep ==
  ASSUME TypeOK, CallInv, ClockInv, ChoiceInv, NEW c \in Calls, Step(c),
         TypeOK', NEW d \in Calls, Choosing(d)'
  PROVE  Stands(d)'
  <1>1. CASE d # c
    <2>1. pc[d] # "idle"  BY <1>1, OthersStay DEF Choosing
    <2>2. /\ Choosing(d)
          /\ Marketing(request[d].user)' = Marketing(request[d].user)
      BY <1>1, <2>1, HistoryKept
    <2>3. Stands(d)  BY <2>2 DEF ChoiceInv
    <2> QED  BY <1>1, <2>2, <2>3, OthersStay DEF Stands, Latest
  <1>2. CASE d = c
    <2>1. /\ clock \in Nat /\ \A k \in consents' : k.at \in Nat
          /\ \A k \in consents : k.at <= clock /\ k.at \in Nat
      BY AccountConstants DEF TypeOK, ClockInv
    <2>2. CASE Begin(c)
      BY <1>2, <2>2 DEF Begin, Goto, TypeOK, CallInv, Stands
    <2>3. CASE ReadMarketing(c)
      <3>1. /\ pc[c] = "begun" /\ request' = request
            /\ consents' = consents /\ pc'[c] # "stamped"
        BY <2>3 DEF ReadMarketing, At, End, Goto, TypeOK, rows
      <3>2. \/ Latest(request[c].user).agreed = request[c].agreed
            \/ result' = result
        BY <2>3 DEF ReadMarketing
      <3>3. result[c] = "none"  BY <3>1 DEF CallInv
      <3> QED  BY <1>2, <3>1, <3>2, <3>3 DEF Stands, Latest, Marketing
    <2>4. CASE Stamp(c)
      <3>1. /\ stamp'[c] = clock + 1 /\ consents' = consents
            /\ result'[c] = "none" /\ request' = request
        BY <2>4 DEF Stamp, Ticked, TypeOK, At, CallInv, rows, Results
      <3> QED  BY <1>2, <3>1, <2>1 DEF Stands, Marketing
    <2>5. CASE InsertMarketing(c)
      <3> DEFINE u == request[c].user
                 k0 == [user |-> u, type |-> "MARKETING",
                        agreed |-> request[c].agreed, at |-> stamp[c]]
      <3>1. /\ pc[c] = "stamped" /\ pc'[c] = "ended" /\ request' = request
            /\ consents' = consents \cup {k0} /\ users' = users
            /\ stamp[c] \in Nat
        BY <2>5, AccountConstants DEF InsertMarketing, At, End, TypeOK
      <3>2. Choosing(c)
        BY <1>2, <3>1, AloneBefore DEF Choosing, Kind, Active
      <3>3. \A k \in Marketing(u) : k.at < stamp[c]
        BY <3>1, <3>2 DEF ChoiceInv, Stands
      <3>4. /\ k0.user = u /\ k0.type = "MARKETING" /\ k0.at = stamp[c]
            /\ k0.agreed = request[c].agreed
        OBVIOUS
      <3> HIDE DEF k0
      <3>5. Marketing(u)' = Marketing(u) \cup {k0}
        BY <3>1, <3>4 DEF Marketing
      <3>6. Latest(u)' = k0
        <4>1. \A l \in Marketing(u)' : l.at \in Nat
          BY <2>1 DEF Marketing
        <4>2. /\ k0 \in Marketing(u)'
              /\ \A l \in Marketing(u)' : l # k0 => l.at < k0.at
          BY <3>3, <3>4, <3>5
        <4>3. \A m \in Marketing(u)' :
                (\A l \in Marketing(u)' : m.at >= l.at) <=> m = k0
          BY <4>1, <4>2
        <4> QED  BY <4>2, <4>3, <3>1 DEF Latest
      <3> QED  BY <1>2, <3>1, <3>4, <3>6 DEF Stands
    <2>6. CASE ~(Begin(c) \/ ReadMarketing(c) \/ Stamp(c)
                   \/ InsertMarketing(c))
      BY <1>2, <2>6 DEF TypeOK, CallInv, Step, CheckSub, CheckEmail,
         InsertUser, InsertUserFails, DeleteAccount, InsertMarketingFails,
         CheckNoAdmin, CheckAdminEmail, InsertAdmin, InsertAdminFails, End,
         Goto, At, Stands, Results
    <2> QED  BY <2>2, <2>3, <2>4, <2>5, <2>6
  <1> QED  BY <1>1, <1>2

-----------------------------------------------------------------------------
(* The inductive invariant *)

LEMMA InitInv == Init => IInv
  <1> SUFFICES ASSUME Init PROVE IInv  OBVIOUS
  <1>1. /\ MaxCalls \in Nat /\ Earlier \notin Calls /\ Nobody \notin Ids
    BY AccountConstants
  <1>2. \A c \in Calls : pc[c] = "idle" /\ result[c] = "none"
    BY DEF Init
  <1>3. CASE users = [i \in Ids |-> NoRow] /\ consents = {}
    <2>1. TypeOK
      BY <1>1, <1>3 DEF Init, TypeOK, NoRow, Results
    <2>2. \A i \in Ids : ~Active(i)
      BY <1>3 DEF Active, NoRow
    <2>3. RowsConsistent
      BY <1>3, <2>1, <2>2
         DEF RowsConsistent, IdentityUnique, ConsentsWithAccount
    <2>4. CallInv  BY <2>2 DEF CallInv, Init
    <2>5. \A k \in consents : k.at <= 0  BY <1>3
    <2>6. QED
      <3>1. ClockInv
        <4>1. Cardinality(Ticking) >= 0
          BY CallsFinite, FS_Subset, FS_CardinalityType DEF Ticking
        <4> QED  BY <4>1, <2>5 DEF ClockInv, Init
      <3>2. BootstrapInv /\ ChoiceInv
        BY <1>2 DEF BootstrapInv, ChoiceInv, Bootstraps, Founded, Choosing
      <3> QED  BY <2>3, <2>4, <3>1, <3>2 DEF IInv
  <1>4. CASE \E e \in Emails :
          /\ users = [i \in Ids |->
               IF i = Earlier
                 THEN [email |-> e, sub |-> None, state |-> "ACTIVE"]
                 ELSE NoRow]
          /\ consents = InitialConsents(Earlier, FALSE, 0)
    <2>0. PICK e \in Emails :
          /\ users = [i \in Ids |->
               IF i = Earlier
                 THEN [email |-> e, sub |-> None, state |-> "ACTIVE"]
                 ELSE NoRow]
          /\ consents = InitialConsents(Earlier, FALSE, 0)
      BY <1>4
    <2>1. TypeOK
      <3>1. consents \subseteq
              [user: Ids, type: Types, agreed: BOOLEAN, at: 0 .. MaxCalls]
        <4>1. Earlier \in Ids /\ FALSE \in BOOLEAN /\ 0 \in 0 .. MaxCalls
          BY <1>1 DEF Ids
        <4> QED  BY <2>0, <4>1, InitialTypes, Zenon
      <3>2. users \in [Ids -> [email: Emails \cup {None},
                               sub: Subs \cup {None},
                               state: {"none", "ACTIVE", "deleted"}]]
        BY <2>0 DEF NoRow
      <3> QED  BY <1>1, <3>1, <3>2 DEF Init, TypeOK, Results
    <2>2. \A i \in Ids : Active(i) <=> i = Earlier
      BY <2>0 DEF Active, NoRow
    <2>3. RowsConsistent
      <3>1. IdentityUnique  BY <2>2 DEF IdentityUnique
      <3>2. /\ \A k \in consents : k.user = Earlier
            /\ {k.type : k \in consents} = Types
        BY <2>0, InitialOf
      <3>3. {l \in consents : l.user = Earlier} = consents  BY <3>2
      <3>4. \A k \in consents : Active(k.user)
        BY <2>2, <3>2 DEF Ids
      <3>5. ConsentsWithAccount
        BY <2>2, <3>2, <3>3, <3>4 DEF ConsentsWithAccount
      <3> QED  BY <2>1, <3>1, <3>5 DEF RowsConsistent
    <2>4. CallInv  BY <2>2 DEF CallInv, Init, Settled
    <2>5. \A k \in consents : k.at <= 0
      BY <2>0 DEF InitialConsents
    <2>6. QED
      <3>1. ClockInv
        <4>1. Cardinality(Ticking) >= 0
          BY CallsFinite, FS_Subset, FS_CardinalityType DEF Ticking
        <4> QED  BY <4>1, <2>5 DEF ClockInv, Init
      <3>2. BootstrapInv /\ ChoiceInv
        BY <1>2 DEF BootstrapInv, ChoiceInv, Bootstraps, Founded, Choosing
      <3> QED  BY <2>3, <2>4, <3>1, <3>2 DEF IInv
  <1> QED  BY <1>3, <1>4 DEF Init

LEMMA StepInv ==
  ASSUME IInv, NEW c \in Calls, Step(c)
  PROVE  IInv'
  <1>1. TypeOK /\ CallInv /\ ClockInv  BY DEF IInv, RowsConsistent
  <1>2. TypeOK'  BY <1>1, TypeStep
  <1>3. CallInv' /\ ClockInv'  BY <1>1, CallStep, TickOnce
  <1>4. RowsConsistent'
    BY <1>1, <1>2, IdentityStep, ConsentsStep DEF IInv, RowsConsistent
  <1>5. BootstrapInv'  BY <1>1, BootstrapStep DEF IInv
  <1>6. ChoiceInv'
    <2>1. ChoiceInv  BY DEF IInv
    <2>2. \A d \in Calls : Choosing(d)' => Stands(d)'
      BY <1>1, <1>2, <2>1, ChoiceStep
    <2> QED  BY <2>2 DEF ChoiceInv
  <1> QED  BY <1>3, <1>4, <1>5, <1>6 DEF IInv

LEMMA StutterInv == IInv /\ UNCHANGED vars => IInv'
  BY DEF vars, rows, IInv, RowsConsistent, TypeOK, IdentityUnique,
     ConsentsWithAccount, Active, CallInv, Settled, Kind, ClockInv, Ticking,
     BootstrapInv, Bootstraps, Founded, ChoiceInv, Choosing, Alone, Stands,
     Latest, Marketing

(* IInv is an invariant of Accounts. *)
THEOREM Invariance == Spec => []IInv
  <1>1. IInv /\ [Next]_vars => IInv'
    <2> SUFFICES ASSUME IInv, [Next]_vars PROVE IInv'  OBVIOUS
    <2>1. CASE Next
      <3>1. PICK c \in Calls : Step(c)  BY <2>1 DEF Next, Step
      <3> QED  BY <3>1, StepInv
    <2>2. CASE UNCHANGED vars  BY <2>2, StutterInv
    <2> QED  BY <2>1, <2>2
  <1> QED  BY InitInv, <1>1, PTL DEF Spec

(* No two accounts share an address or a Google subject, every account has its
   consents and no consent is without one, however many registrations,
   deletions and choices run at once. *)
THEOREM RowsConsistentHolds == Spec => []RowsConsistent
  <1>1. IInv => RowsConsistent  BY DEF IInv
  <1> QED  BY <1>1, Invariance, PTL

(* A choice about marketing that met no other is the current one. *)
THEOREM LastChoiceCountsHolds == Spec => []LastChoiceCounts
  <1>1. IInv => LastChoiceCounts
    <2> SUFFICES ASSUME IInv, NEW c \in Calls,
                        result[c] \in {"kept", "set"},
                        Active(request[c].user), Alone(c)
                 PROVE  Latest(request[c].user).agreed = request[c].agreed
      BY DEF LastChoiceCounts, Alone
    <2>1. Choosing(c)  BY DEF IInv, CallInv, Choosing
    <2> QED  BY <2>1 DEF IInv, ChoiceInv, Stands
  <1> QED  BY <1>1, Invariance, PTL

(* However many bootstraps run at once, with additions of administrators among
   them, one of them at most creates an administrator. *)
THEOREM BootstrapOnceHolds == Spec => []BootstrapOnce
  <1>1. IInv => BootstrapOnce
    <2> SUFFICES ASSUME IInv PROVE BootstrapOnce  OBVIOUS
    <2> DEFINE F == {c \in Calls :
                      result[c] = "created" /\ Kind(c) = "bootstrap"}
    <2>1. \A c, d \in F : c = d
      BY DEF IInv, BootstrapInv, Founded
    <2>2. CASE F = {}  BY <2>2, FS_EmptySet DEF BootstrapOnce
    <2>3. CASE F # {}
      <3>1. PICK c \in F : TRUE  BY <2>3
      <3>2. F = {c}  BY <2>1, <3>1
      <3>3. Cardinality(F) = 1  BY <3>2, FS_Singleton
      <3> QED  BY <3>3 DEF BootstrapOnce
    <2> QED  BY <2>2, <2>3
  <1> QED  BY <1>1, Invariance, PTL
=============================================================================
