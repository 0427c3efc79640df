------------------------------ MODULE MCBilling ------------------------------
(* Small instances of BillingRegistration for TLC. *)
EXTENDS BillingRegistration, TLC

(* Users and requests are interchangeable, and so are the customer keys that
   may lapse and those that may not. *)
Symmetry ==
  Permutations(Users) \cup Permutations(Requests)
    \cup Permutations(Lapsing) \cup Permutations(CustomerKeys \ Lapsing)
=============================================================================
