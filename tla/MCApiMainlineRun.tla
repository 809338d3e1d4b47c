-------------------------- MODULE MCApiMainlineRun --------------------------
(* Finite instances of ApiMainlineRun for TLC.                             *)
EXTENDS ApiMainlineRun, TLC
=============================================================================
