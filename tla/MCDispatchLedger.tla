-------------------------- MODULE MCDispatchLedger --------------------------
(* Finite instances of DispatchLedger for TLC.                             *)
EXTENDS DispatchLedger, TLC

\* The request threads of the console are interchangeable.
ThreadSymmetry == Permutations(Thread)
=============================================================================
