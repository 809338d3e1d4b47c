-------------------------- MODULE AutoSafeContinue --------------------------
(***************************************************************************)
(* AutoSafeContinueLiveRunner (auto_safe_continue_live.py), the one-shot   *)
(* script that takes up to two cycles unattended: a Mainline call, the     *)
(* advance policy of ReviewGate, one Codex turn, the return of its report  *)
(* through a second Mainline call, a second turn.  It stays within the     *)
(* cycle limit and the cost cap its user approved, while people edit the   *)
(* workspace and use the console.                                          *)
(***************************************************************************)
EXTENDS OneShotRun, ReviewGate

CONSTANTS
  Turn,        \* what a Mainline may answer: [output, review]
  Expected,    \* the task's requirements
  Catalog,     \* its canonical next steps
  Worst,       \* the hard worst case of the candidate's call
  Bounds,      \* the hard worst cases a second call may have
  Cap,         \* the approved cumulative cap
  MaxEdit      \* how often somebody edits the workspace

\* run refuses an approval whose cap two worst cases exceed.
ASSUME CapAssumption ==
  /\ Worst \in Nat /\ Cap \in Nat /\ 2 * Worst <= Cap
  /\ Bounds \subseteq Nat /\ MaxEdit \in Nat

VARIABLES
  auto,        \* auto[i]: where invocation i is in run, and its state record
  spent,       \* what the provider was paid for this approval
  uncounted,   \* history: what the usage of its first answer left out of that
  registered,  \* EvaluationReuseStore holds the candidate's evaluation
  control,     \* the project: "ready", "paused", or "off"
  edits,       \* changes of the workspace nobody's turn made
  sent         \* the Codex turns: how many such changes each was sent over

autoVars == <<auto, spent, uncounted, registered, control, edits, sent>>
vars == <<shotVars, autoVars>>

NoTurn == [output |-> "none"]
Start == [step |-> "call", mainline |-> NoTurn, cycles |-> 0, reported |-> 0, cost |-> 0, sealed |-> 0]

Running(i, step) == Item(i) = "auto" /\ auto[i].step = step
Becomes(i, record) == auto' = [auto EXCEPT ![i] = record]
To(i, step) == Becomes(i, [auto[i] EXCEPT !.step = step])

Init ==
  /\ ShotInit
  /\ auto = [i \in Invocation |-> Start]
  /\ spent = 0 /\ uncounted = 0 /\ registered = FALSE /\ control = "ready" /\ edits = 0 /\ sent = <<>>

\* The context, the deterministic precheck and the reuse lookup before the
\* approval is written; a candidate is bound to the workspace it was made in.
Precheck(i) ==
  /\ Item(i) = "precheck"
  /\ IF control # "off" /\ edits = 0 /\ ~registered
       THEN Advance(i, "none") ELSE run' = [run EXCEPT ![i] = Idle]
  /\ UNCHANGED <<script, files, calls, raced, crashes, autoVars>>

\* estimate_usage_cost prices the tokens a response's usage names, and a response may
\* come without them.
Estimates(cost) == 0..cost

\* _execute_first_mainline up to the validation: any error ends the run.
FirstCall(i) ==
  /\ Running(i, "call")
  /\ calls' = calls + 1
  /\ \E cost \in 0..Worst, turn \in Turn \cup {NoTurn} : \E estimate \in Estimates(cost) :
       /\ spent' = spent + cost /\ uncounted' = uncounted + cost - estimate
       /\ Becomes(i, [auto[i] EXCEPT !.mainline = turn, !.cost = estimate, !.step =
                        IF turn # NoTurn /\ control # "off"
                             /\ ValidContinuation(turn.output, turn.review, Expected, Catalog)
                          THEN "apply" ELSE "finish"])
  /\ UNCHANGED <<script, files, run, raced, crashes, registered, control, edits, sent>>

\* Its result file, apply_api_mainline_turn and register_validated; a second
\* invocation's result conflicts with the one registered.  A turn without a
\* handoff message raises in _source_handoff_from_first.
Apply(i) ==
  /\ Running(i, "apply")
  /\ registered' = (registered \/ control # "off")
  /\ IF control = "off" \/ registered
       THEN To(i, "finish")
       ELSE Becomes(i, [auto[i] EXCEPT !.reported = @ + auto[i].cost, !.step =
                          IF auto[i].mainline.output.handoff = "none" THEN "finish" ELSE "seal"])
  /\ UNCHANGED <<shotVars, spent, uncounted, control, edits, sent>>

\* The policy of the runner: the cost it allows for the next step is the
\* least there is, here half a unit.
Decision(i) ==
  AdvanceDecision(EvidenceOf(auto[i].mainline.output, auto[i].mainline.review),
                  auto[i].cycles, 2 * auto[i].reported, 1, 2 * Cap)

\* _advance_and_dispatch up to the decision: the workspace as it stands now
\* is captured and becomes the worker's seal.
Seal(i) ==
  /\ Running(i, "seal")
  /\ Becomes(i, [auto[i] EXCEPT !.sealed = edits, !.step =
                    IF Decision(i) = "ALLOW_AUTO_ADVANCE" THEN "send" ELSE "finish"])
  /\ UNCHANGED <<shotVars, spent, uncounted, registered, control, edits, sent>>

\* approve_and_send of the prepared handoff, which wants the mode and the
\* sealed workspace; the turn may still fail.
Send(i) ==
  /\ Running(i, "send")
  /\ control = "ready" /\ auto[i].sealed = edits
  /\ sent' = Append(sent, edits)
  /\ \/ To(i, "finish")
     \/ Becomes(i, [auto[i] EXCEPT !.cycles = @ + 1, !.step =
                       IF auto[i].cycles = 0 THEN "return" ELSE "finish"])
  /\ UNCHANGED <<shotVars, spent, uncounted, registered, control, edits>>

Refused(i) ==
  /\ Running(i, "send")
  /\ control # "ready" \/ auto[i].sealed # edits
  /\ To(i, "finish")
  /\ UNCHANGED <<shotVars, spent, uncounted, registered, control, edits, sent>>

\* Mutant of Return: the second call is not held against the cap.
ReturnUncapped(i) ==
  /\ Running(i, "return")
  /\ \E bound \in Bounds :
       Becomes(i, [auto[i] EXCEPT !.cost = bound, !.step = IF control = "off" THEN "finish" ELSE "again"])
  /\ UNCHANGED <<shotVars, spent, uncounted, registered, control, edits, sent>>

\* The report becomes a return and a candidate, whose worst case must fit
\* under the cap beside the estimate of the first call.
Return(i) ==
  /\ Running(i, "return")
  /\ \E bound \in Bounds :
       Becomes(i, [auto[i] EXCEPT !.cost = bound, !.step =
                     IF control = "off" \/ auto[i].reported + bound > Cap THEN "finish" ELSE "again"])
  /\ UNCHANGED <<shotVars, spent, uncounted, registered, control, edits, sent>>

\* approve_and_execute of the return (ApiMainlineReturn), and its handoff.
Again(i) ==
  /\ Running(i, "again")
  /\ \/ To(i, "finish") /\ UNCHANGED <<calls, spent>>
     \/ /\ control # "off"
        /\ calls' = calls + 1
        /\ \E cost \in 0..auto[i].cost, turn \in Turn \cup {NoTurn} : \E estimate \in Estimates(cost) :
             /\ spent' = spent + cost
             /\ IF turn = NoTurn \/ ~ValidContinuation(turn.output, turn.review, Expected, Catalog)
                  THEN To(i, "finish")
                  ELSE Becomes(i, [auto[i] EXCEPT !.mainline = turn, !.reported = @ + estimate, !.step =
                                     IF turn.output.handoff = "none" THEN "finish" ELSE "seal"])
  /\ UNCHANGED <<script, files, run, raced, crashes, uncounted, registered, control, edits, sent>>

\* _finish, on every way out of the try.
Finish(i) ==
  /\ Running(i, "finish")
  /\ files' = files \cup {"result"}
  /\ run' = [run EXCEPT ![i] = Idle]
  /\ Becomes(i, Start)
  /\ UNCHANGED <<script, calls, raced, crashes, spent, uncounted, registered, control, edits, sent>>

\* A step of any script; a killed runner forgets its state record.
Shot(i) ==
  /\ ShotStep(i)
  /\ auto' = IF run'[i] = Idle THEN [auto EXCEPT ![i] = Start] ELSE auto
  /\ UNCHANGED <<spent, uncounted, registered, control, edits, sent>>

\* Somebody edits a file, or uses the console.
Edit ==
  /\ script = "auto" /\ edits < MaxEdit
  /\ edits' = edits + 1
  /\ UNCHANGED <<shotVars, auto, spent, uncounted, registered, control, sent>>
Intervene ==
  /\ script = "auto" /\ control = "ready"
  /\ control' \in {"paused", "off"}
  /\ UNCHANGED <<shotVars, auto, spent, uncounted, registered, edits, sent>>

AutoStep(i) ==
  \/ Precheck(i) \/ FirstCall(i) \/ Apply(i) \/ Seal(i) \/ Send(i) \/ Refused(i)
  \/ Return(i) \/ Again(i) \/ Finish(i)

Next == (\E i \in Invocation : Shot(i) \/ AutoStep(i)) \/ Edit \/ Intervene

Spec == Init /\ [][Next]_vars

(***************************************************************************)
(* Properties                                                              *)
(***************************************************************************)

\* The calls of one approved run pass its cap by no more than what the usage of the
\* first answer left out, whichever of them fails and whenever the runner is killed:
\* an answer whose usage is complete leaves the check of the second call's worst case
\* nothing to miss.
CostWithinCap == ~raced => spent <= Cap + uncounted

\* 00_Master/Decisions.md: "Always stop on conflicts, external workspace
\* changes, ...": no Codex turn starts over a change nobody's turn made.  The
\* runner seals the workspace anew before each turn, whatever is in it.
ExternalChangeStops == \A k \in DOMAIN sent : sent[k] = 0
=============================================================================
