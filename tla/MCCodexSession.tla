--------------------------- MODULE MCCodexSession ---------------------------
(* Finite instances of CodexSession for TLC.                               *)
EXTENDS CodexSession, TLC
=============================================================================
