------------------------------ MODULE MCAnalysis ------------------------------
(* A small instance of AnalysisLifecycle for TLC. *)
EXTENDS AnalysisLifecycle
===============================================================================
