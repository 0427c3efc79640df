------------------------------- MODULE Accounts -------------------------------
(***************************************************************************)
(* How accounts come to be, of users and of administrators, and the        *)
(* history of a user's consents: signup and google_login of                *)
(* app/services/auth_service.py, user_consent_service.py, and the command  *)
(* line services admin_bootstrap_service.py and admin_add_service.py.      *)
(*                                                                         *)
(* All of them look first and insert later.  Between the two another       *)
(* transaction may commit; the unique indexes of the tables, and for the   *)
(* first administrator an advisory lock, decide.  An insert that meets an  *)
(* uncommitted row of the same key waits for its transaction, so insert    *)
(* and commit are one step here.                                           *)
(*                                                                         *)
(* A user is named by the call that created the account, Earlier is one    *)
(* from before.  The sessions a login opens are those of RefreshSessions.  *)
(***************************************************************************)
EXTENDS Naturals, FiniteSets

CONSTANTS
  Emails,
  Subs,        (* subjects of Google identities                             *)
  MaxCalls,    (* calls are numbered in the order they arrive               *)
  Earlier, Nobody, None

Calls == 1 .. MaxCalls
Ids   == Calls \cup {Earlier}

ASSUME AccountConstants ==
  /\ MaxCalls \in Nat
  /\ Earlier \notin Calls /\ Nobody \notin Ids /\ None \notin Emails \cup Subs

VARIABLES
  users,       (* users: email, google_sub, and whether the row is there    *)
  consents,    (* user_consents and marketing_consents                      *)
  admins,      (* addresses in admin_users                                  *)
  advisory,    (* who holds BOOTSTRAP_ADVISORY_LOCK_ID                      *)
  clock,       (* readings of the clock so far                              *)
  pc, request,
  stamp,       (* occurred_at of the consent a call is about to insert      *)
  result,
  before       (* the calls that had ended when a call arrived              *)

rows == <<users, consents, admins>>
vars == <<rows, advisory, clock, pc, request, stamp, result, before>>

NoRow == [email |-> None, sub |-> None, state |-> "none"]

Requests ==
  [kind: {"signup"}, email: Emails, sub: {None}, agreed: BOOLEAN]
    \cup [kind: {"google_login"}, email: Emails, sub: Subs, agreed: BOOLEAN]
    \cup [kind: {"set_marketing"}, user: Ids, agreed: BOOLEAN]
    \cup [kind: {"delete_account"}, user: Ids]
    \cup [kind: {"bootstrap", "add"}, email: Emails]

Types   == {"TERMS", "PRIVACY", "MARKETING"}
Results == {"conflict", "created", "session", "kept", "set", "gone", "deleted",
            "exists", "failed", "none"}

TypeOK ==
  /\ users \in [Ids -> [email: Emails \cup {None}, sub: Subs \cup {None},
                        state: {"none", "ACTIVE", "deleted"}]]
  /\ consents \subseteq
       [user: Ids, type: Types, agreed: BOOLEAN, at: 0 .. MaxCalls]
  /\ admins \subseteq Emails
  /\ advisory \in Calls \cup {Nobody}
  /\ clock \in 0 .. MaxCalls
  /\ pc \in [Calls -> {"idle", "begun", "bySub", "checked", "read",
                       "stamped", "ended"}]
  /\ request \in [Calls -> Requests \cup {None}]
  /\ stamp \in [Calls -> 0 .. MaxCalls]
  /\ result \in [Calls -> Results]
  /\ before \in [Calls -> SUBSET Calls]

InitialConsents(u, agreed, at) ==
  {[user |-> u, type |-> "TERMS", agreed |-> TRUE, at |-> at],
   [user |-> u, type |-> "PRIVACY", agreed |-> TRUE, at |-> at],
   [user |-> u, type |-> "MARKETING", agreed |-> agreed, at |-> at]}

(* Nobody yet, or one user who has signed up. *)
Init ==
  /\ \/ users = [i \in Ids |-> NoRow] /\ consents = {}
     \/ \E e \in Emails :
          /\ users = [i \in Ids |->
               IF i = Earlier
                 THEN [email |-> e, sub |-> None, state |-> "ACTIVE"]
                 ELSE NoRow]
          /\ consents = InitialConsents(Earlier, FALSE, 0)
  /\ admins = {}
  /\ advisory = Nobody
  /\ clock = 0
  /\ pc = [c \in Calls |-> "idle"]
  /\ request = [c \in Calls |-> None]
  /\ stamp = [c \in Calls |-> 0]
  /\ result = [c \in Calls |-> "none"]
  /\ before = [c \in Calls |-> {}]

-----------------------------------------------------------------------------
(* Helpers *)

Kind(c) == request[c].kind
At(c, where, kinds) == pc[c] = where /\ Kind(c) \in kinds

Active(i) == users[i].state = "ACTIVE"

EmailTaken(e) == \E i \in Ids : Active(i) /\ users[i].email = e
SubTaken(s)   == s # None /\ \E i \in Ids : Active(i) /\ users[i].sub = s

(* The unique indexes of users. *)
Duplicate(c) == EmailTaken(request[c].email) \/ SubTaken(request[c].sub)

Goto(c, to) == pc' = [pc EXCEPT ![c] = to]

End(c, r) ==
  /\ pc' = [pc EXCEPT ![c] = "ended"]
  /\ result' = [result EXCEPT ![c] = r]
  /\ advisory' = IF advisory = c THEN Nobody ELSE advisory
  /\ UNCHANGED <<request, before>>

Ticked == clock' = clock + 1

Presentable(r) ==
  r.kind \in {"set_marketing", "delete_account"} => Active(r.user)

Begin(c) ==
  /\ pc[c] = "idle"
  /\ \A d \in Calls : d < c => pc[d] # "idle"
  /\ \E r \in {q \in Requests : Presentable(q)} :
       request' = [request EXCEPT ![c] = r]
  /\ before' = [before EXCEPT ![c] = {d \in Calls : pc[d] = "ended"}]
  /\ Goto(c, "begun")
  /\ UNCHANGED <<rows, advisory, clock, stamp, result>>

-----------------------------------------------------------------------------
(* signup, and google_login of an identity that may be new *)

CheckSub(c) ==
  /\ At(c, "begun", {"google_login"})
  /\ IF SubTaken(request[c].sub)
       THEN End(c, "session")
       ELSE /\ Goto(c, "bySub")
            /\ UNCHANGED <<advisory, request, result, before>>
  /\ UNCHANGED <<rows, clock, stamp>>

CheckEmail(c) ==
  /\ At(c, "begun", {"signup"}) \/ At(c, "bySub", {"google_login"})
  /\ IF EmailTaken(request[c].email)
       THEN End(c, "conflict")
       ELSE /\ Goto(c, "checked")
            /\ UNCHANGED <<advisory, request, result, before>>
  /\ UNCHANGED <<rows, clock, stamp>>

(* The row, its consents and, after google_login, a session, in one
   transaction. *)
InsertUser(c) ==
  /\ At(c, "checked", {"signup", "google_login"})
  /\ ~Duplicate(c)
  /\ users' = [users EXCEPT ![c] =
       [email |-> request[c].email, sub |-> request[c].sub,
        state |-> "ACTIVE"]]
  /\ Ticked
  /\ consents' = consents
       \cup InitialConsents(c, request[c].agreed, clock')
  /\ End(c, "created")
  /\ UNCHANGED <<admins, stamp>>

InsertUserFails(c) ==
  /\ At(c, "checked", {"signup", "google_login"})
  /\ Duplicate(c)
  /\ End(c, "conflict")
  /\ UNCHANGED <<rows, clock, stamp>>

(* delete_account; the consents go with the row (ON DELETE CASCADE). *)
DeleteAccount(c) ==
  /\ At(c, "begun", {"delete_account"})
  /\ IF Active(request[c].user)
       THEN /\ users' = [users EXCEPT ![request[c].user].state = "deleted"]
            /\ consents' = {k \in consents : k.user # request[c].user}
            /\ End(c, "deleted")
       ELSE End(c, "gone") /\ UNCHANGED <<users, consents>>
  /\ UNCHANGED <<admins, clock, stamp>>

-----------------------------------------------------------------------------
(* set_marketing *)

Marketing(u) == {k \in consents : k.user = u /\ k.type = "MARKETING"}

(* mutant: ORDER BY occurred_at without DESC *)
LatestAscending(u) ==
  CHOOSE k \in Marketing(u) : \A l \in Marketing(u) : k.at <= l.at

(* find_latest, and the current value of get_consents *)
Latest(u) ==
  CHOOSE k \in Marketing(u) : \A l \in Marketing(u) : k.at >= l.at

ReadMarketing(c) ==
  /\ At(c, "begun", {"set_marketing"})
  /\ IF /\ Marketing(request[c].user) # {}
        /\ Latest(request[c].user).agreed = request[c].agreed
       THEN End(c, "kept")
       ELSE /\ Goto(c, "read")
            /\ UNCHANGED <<advisory, request, result, before>>
  /\ UNCHANGED <<rows, clock, stamp>>

Stamp(c) ==
  /\ At(c, "read", {"set_marketing"})
  /\ Ticked
  /\ stamp' = [stamp EXCEPT ![c] = clock']
  /\ Goto(c, "stamped")
  /\ UNCHANGED <<rows, advisory, request, result, before>>

(* mutant: the foreign key is not there *)
OwnedNever(c) == TRUE

Owned(c) == Active(request[c].user)

InsertMarketing(c) ==
  /\ At(c, "stamped", {"set_marketing"})
  /\ Owned(c)
  /\ consents' = consents \cup
       {[user |-> request[c].user, type |-> "MARKETING",
         agreed |-> request[c].agreed, at |-> stamp[c]]}
  /\ End(c, "set")
  /\ UNCHANGED <<users, admins, clock, stamp>>

InsertMarketingFails(c) ==
  /\ At(c, "stamped", {"set_marketing"})
  /\ ~Owned(c)
  /\ End(c, "failed")
  /\ UNCHANGED <<rows, clock, stamp>>

-----------------------------------------------------------------------------
(* create_first_admin and create_admin *)

(* mutant: no advisory lock *)
AdvisoryFreeAlways(c) == TRUE

AdvisoryFree(c) == advisory = Nobody

CheckNoAdmin(c) ==
  /\ At(c, "begun", {"bootstrap"})
  /\ AdvisoryFree(c)
  /\ IF admins # {}
       THEN End(c, "exists")
       ELSE /\ advisory' = c
            /\ Goto(c, "checked")
            /\ UNCHANGED <<request, result, before>>
  /\ UNCHANGED <<rows, clock, stamp>>

CheckAdminEmail(c) ==
  /\ At(c, "begun", {"add"})
  /\ IF request[c].email \in admins
       THEN End(c, "exists")
       ELSE /\ Goto(c, "checked")
            /\ UNCHANGED <<advisory, request, result, before>>
  /\ UNCHANGED <<rows, clock, stamp>>

InsertAdmin(c) ==
  /\ At(c, "checked", {"bootstrap", "add"})
  /\ request[c].email \notin admins
  /\ admins' = admins \cup {request[c].email}
  /\ End(c, "created")
  /\ UNCHANGED <<users, consents, clock, stamp>>

(* The unique index again: AdminBootstrapError or AdminAddError. *)
InsertAdminFails(c) ==
  /\ At(c, "checked", {"bootstrap", "add"})
  /\ request[c].email \in admins
  /\ End(c, "failed")
  /\ UNCHANGED <<rows, clock, stamp>>

-----------------------------------------------------------------------------

Next ==
  \E c \in Calls :
    \/ Begin(c)
    \/ CheckSub(c) \/ CheckEmail(c) \/ InsertUser(c) \/ InsertUserFails(c)
    \/ DeleteAccount(c)
    \/ ReadMarketing(c) \/ Stamp(c)
    \/ InsertMarketing(c) \/ InsertMarketingFails(c)
    \/ CheckNoAdmin(c) \/ CheckAdminEmail(c)
    \/ InsertAdmin(c) \/ InsertAdminFails(c)

Spec == Init /\ [][Next]_vars

-----------------------------------------------------------------------------
(* Properties *)

(* Two accounts never share an address or a Google subject, however the
   checks of two registrations interleave; the address of a deleted account
   may be used again. *)
IdentityUnique ==
  \A i, j \in Ids : Active(i) /\ Active(j) /\ i # j =>
    /\ users[i].email # users[j].email
    /\ users[i].sub = None \/ users[i].sub # users[j].sub

(* An account has its required consents and a marketing choice from its
   first moment to its last, and no consent outlives its account. *)
ConsentsWithAccount ==
  /\ \A i \in Ids : Active(i) =>
       Types = {k.type : k \in {l \in consents : l.user = i}}
  /\ \A k \in consents : Active(k.user)

(* The rows are consistent: the parts above together. *)
RowsConsistent == TypeOK /\ IdentityUnique /\ ConsentsWithAccount

(* What the last choice said is current: if every other request about the
   user's marketing consent had ended when this one arrived, and it was not
   refused, then find_latest gives its value, although nothing locks the
   history between the read and the insert. *)
LastChoiceCounts ==
  \A c \in Calls :
    /\ result[c] \in {"kept", "set"} /\ Active(request[c].user)
    /\ \A d \in Calls \ {c} :
         /\ pc[d] # "idle" /\ Kind(d) = "set_marketing"
         /\ request[d].user = request[c].user
         => d \in before[c]
    => Latest(request[c].user).agreed = request[c].agreed

(* Of several bootstraps that run at once, one creates an administrator. *)
BootstrapOnce ==
  Cardinality({c \in Calls : result[c] = "created" /\ Kind(c) = "bootstrap"})
    <= 1
=============================================================================
