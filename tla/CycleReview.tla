----------------------------- MODULE CycleReview -----------------------------
(***************************************************************************)
(* The two halves of a review by hand: the commands that capture a cycle   *)
(* and build a candidate, and the one paid call and its judgement.  The    *)
(* second reads only the candidate the first has frozen, so a behaviour is *)
(* one of one or the other.                                                *)
(***************************************************************************)
EXTENDS ReviewPipeline, CycleHandoff

VARIABLE half

reviewVars == <<half, vars, handoffVars>>

CycleInit == half \in {"capture", "review"} /\ Init /\ HandoffInit

InCapture == half = "capture" /\ HandoffNext /\ UNCHANGED <<half, vars>>
InReview == half = "review" /\ Next /\ UNCHANGED <<half, handoffVars>>

CycleSpec == CycleInit /\ [][InCapture \/ InReview]_reviewVars
=============================================================================
