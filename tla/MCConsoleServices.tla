------------------------- MODULE MCConsoleServices -------------------------
(* A finite instance of ConsoleServices for TLC.                           *)
EXTENDS ConsoleServices, TLC
=============================================================================
