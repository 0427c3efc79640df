------------------------------ MODULE MCKeywords ------------------------------
(* A small instance of KeywordCollection for TLC. *)
EXTENDS KeywordCollection
=============================================================================
