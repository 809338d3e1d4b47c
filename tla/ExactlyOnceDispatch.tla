------------------------ MODULE ExactlyOnceDispatch ------------------------
(***************************************************************************)
(* What the dispatch ledger promises of one handoff, whatever threads,     *)
(* processes and crashes do: a sealed envelope is decided once, an         *)
(* approved one is consumed once, and the send it licenses happens at most *)
(* once, while it is consumed and before its outcome is recorded.          *)
(***************************************************************************)
EXTENDS Naturals

CONSTANT Handoff

VARIABLES
    phase,      \* how far the durable records of a handoff have got
    sent        \* sends licensed so far

Phase == {"none", "proposed", "approved", "rejected", "consumed", "settled"}

TypeOK ==
    /\ phase \in [Handoff -> Phase]
    /\ sent \in [Handoff -> Nat]

Init ==
    /\ phase = [h \in Handoff |-> "none"]
    /\ sent = [h \in Handoff |-> 0]

Move(h, from, to) ==
    /\ phase[h] = from
    /\ phase' = [phase EXCEPT ![h] = to]
    /\ UNCHANGED sent

Propose(h) == Move(h, "none", "proposed")
Approve(h) == Move(h, "proposed", "approved")
Reject(h) == Move(h, "proposed", "rejected")
Consume(h) == Move(h, "approved", "consumed")
Settle(h) == Move(h, "consumed", "settled")

Send(h) ==
    /\ phase[h] = "consumed"
    /\ sent[h] = 0
    /\ sent' = [sent EXCEPT ![h] = 1]
    /\ UNCHANGED phase

Next ==
    \E h \in Handoff :
        Propose(h) \/ Approve(h) \/ Reject(h) \/ Consume(h) \/ Send(h) \/ Settle(h)

Spec == Init /\ [][Next]_<<phase, sent>>
=============================================================================
