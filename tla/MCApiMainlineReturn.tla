------------------------ MODULE MCApiMainlineReturn ------------------------
(* Finite instances of ApiMainlineReturn, and of ResultDelivery below it,  *)
(* for TLC.                                                                *)
EXTENDS ApiMainlineReturn, TLC

\* The results of all returns read alike.
SameText == [r \in ApiReturn |-> "done"]
=============================================================================
