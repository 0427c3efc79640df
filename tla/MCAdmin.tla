------------------------------- MODULE MCAdmin -------------------------------
(* A small instance of AdminAuth for TLC. *)
EXTENDS AdminAuth
=============================================================================
