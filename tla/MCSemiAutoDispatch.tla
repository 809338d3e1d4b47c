------------------------- MODULE MCSemiAutoDispatch -------------------------
(* Finite instances of SemiAutoDispatch for TLC.                           *)
EXTENDS SemiAutoDispatch, TLC

\* Every workspace fingerprint has a HEAD of its own.
OwnHead == [s \in Seal |-> s]
=============================================================================
