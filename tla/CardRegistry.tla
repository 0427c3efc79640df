---------------------------- MODULE CardRegistry ----------------------------
(***************************************************************************)
(* What card registration promises, whatever happens on the way: a user    *)
(* has at most one card; a customer key is issued to one user and redeemed *)
(* at most once, by that user; redeeming it replaces the card in one step; *)
(* nothing else touches a card until the account is closed.                *)
(***************************************************************************)
CONSTANTS Users, CustomerKeys, Requests, NoUser, NoRequest

VARIABLES
  open,        (* accounts not yet closed                    *)
  card,        (* the card of each user                      *)
  issuedTo,    (* the user a customer key was issued to      *)
  redeemedBy   (* the registration that redeemed the key     *)

regVars == <<open, card, issuedTo, redeemedBy>>

Init ==
  /\ open = Users
  /\ card = [u \in Users |-> NoRequest]
  /\ issuedTo = [k \in CustomerKeys |-> NoUser]
  /\ redeemedBy = [k \in CustomerKeys |-> NoRequest]

Issue(u, k) ==
  /\ u \in open
  /\ issuedTo[k] = NoUser
  /\ issuedTo' = [issuedTo EXCEPT ![k] = u]
  /\ UNCHANGED <<open, card, redeemedBy>>

Redeem(r, u, k) ==
  /\ u \in open
  /\ issuedTo[k] = u
  /\ redeemedBy[k] = NoRequest
  /\ \A j \in CustomerKeys : redeemedBy[j] # r
  /\ redeemedBy' = [redeemedBy EXCEPT ![k] = r]
  /\ card' = [card EXCEPT ![u] = r]
  /\ UNCHANGED <<open, issuedTo>>

Close(u) ==
  /\ u \in open
  /\ open' = open \ {u}
  /\ card' = [card EXCEPT ![u] = NoRequest]
  /\ UNCHANGED <<issuedTo, redeemedBy>>

Next ==
  \E u \in Users :
    \/ Close(u)
    \/ \E k \in CustomerKeys :
         Issue(u, k) \/ \E r \in Requests : Redeem(r, u, k)

Spec == Init /\ [][Next]_regVars
=============================================================================
