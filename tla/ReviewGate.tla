----------------------------- MODULE ReviewGate -----------------------------
(***************************************************************************)
(* What the orchestration controller makes of a reviewer's or a Mainline's *)
(* answer: the review contracts of gate.py and routing.py, the Mainline    *)
(* output contracts of api_mainline_bootstrap.py and                       *)
(* api_mainline_continuation.py, and the advance policy of                 *)
(* auto_safe_continue.py.  They are predicates over one record, written    *)
(* apart in the code by three modules that must agree.                     *)
(*                                                                         *)
(* A list is its set of entries; review.repeats holds the lists in which   *)
(* an entry stands twice.  A text is absent, blank or there.  The shape a  *)
(* strict JSON schema asks for is the type of the record.                  *)
(***************************************************************************)
EXTENDS Integers, FiniteSets

Text == {"none", "blank", "text"}

Gate == {"SAFE_CONTINUE", "USER_REQUIRED", "BLOCKED", "STOP"}
Kind == {"BOUNDED_TASK", "USER_DECISION", "MISSING_DEPENDENCY", "SAFETY_STOP", "NONE"}
Transition == {"CONTINUE_CURRENT_TASK", "ADVANCE_AUTHORIZED_PLAN", "USER_DECISION_REQUIRED"}

\* MANDATORY_EVIDENCE_BASES
MandatoryBasis == {"ACCEPTANCE_CRITERION_UNMET", "ACTUAL_CONTRADICTION",
                   "EXPLICIT_PROVENANCE_CONTRACT", "SAFETY_AUTHORITY_REQUIREMENT"}

(***************************************************************************)
(* routing.py                                                              *)
(***************************************************************************)

\* Mutant of ValidRouting: a user decision asks for authority only.
ValidRoutingUnkinded(gate, facts) ==
  /\ gate = "SAFE_CONTINUE" => facts.kind = "BOUNDED_TASK" /\ facts.safe /\ ~facts.authority
  /\ gate = "USER_REQUIRED" => facts.authority
  /\ gate = "BLOCKED" => facts.kind = "MISSING_DEPENDENCY" /\ ~facts.safe /\ facts.blocker
  /\ gate = "STOP" => facts.kind = "SAFETY_STOP"

\* validate_routing: which facts each gate needs.
ValidRouting(gate, facts) ==
  /\ gate = "SAFE_CONTINUE" => /\ facts.kind = "BOUNDED_TASK"
                               /\ facts.safe
                               /\ ~facts.authority
  /\ gate = "USER_REQUIRED" => facts.kind = "USER_DECISION" /\ facts.authority
  /\ gate = "BLOCKED" => /\ facts.kind = "MISSING_DEPENDENCY"
                         /\ ~facts.safe /\ ~facts.collectable /\ ~facts.authority
                         /\ facts.blocker /\ facts.detail = "text"
  /\ gate = "STOP" => facts.kind = "SAFETY_STOP"

\* The gate route_from_facts derives before it validates it.
DerivedGate(facts) ==
  CASE facts.kind = "SAFETY_STOP" -> "STOP"
    [] facts.kind # "SAFETY_STOP" /\ (facts.authority \/ facts.kind = "USER_DECISION") -> "USER_REQUIRED"
    [] facts.kind = "BOUNDED_TASK" /\ facts.safe /\ ~facts.authority -> "SAFE_CONTINUE"
    [] facts.kind = "MISSING_DEPENDENCY" /\ ~facts.authority -> "BLOCKED"
    [] OTHER -> "CONFLICT"

(***************************************************************************)
(* gate.py                                                                 *)
(***************************************************************************)

\* The packet each gate must carry and no other gate may.
PacketsFit(review) ==
  /\ review.gate = "SAFE_CONTINUE" <=> review.instruction
  /\ review.gate = "USER_REQUIRED" <=> review.decision
  /\ review.gate = "BLOCKED" <=> review.blockerPacket
  /\ review.gate = "STOP" => review.stopFinding

Unresolved(review) ==
  {r \in DOMAIN review.assessed : review.assessed[r].status \in {"UNRESOLVED", "BLOCKED"}}

\* What the next instruction says it does; both are empty without one.
Addressed(review) == IF review.instruction THEN review.addresses ELSE {}
Primary(review) == IF review.instruction THEN review.primary ELSE {}

AuthorizedAdvance(review) ==
  /\ review.version = "2.4"
  /\ Unresolved(review) = {}
  /\ review.transition = "ADVANCE_AUTHORIZED_PLAN"

\* Requirements whose place the added scope takes.
Replaced(review) == UNION {item.related : item \in {i \in review.scope : i.replaces}}

TaskAligned(review, expected) ==
  /\ "assessed" \notin review.repeats
  /\ DOMAIN review.assessed = expected
  /\ \A r \in DOMAIN review.assessed :
       review.assessed[r].action = IF r \in Unresolved(review) THEN "text" ELSE "none"
  /\ review.instruction =>
       /\ "addresses" \notin review.repeats
       /\ IF AuthorizedAdvance(review)
            THEN review.addresses = {}
            ELSE review.addresses # {} /\ review.addresses \subseteq Unresolved(review)
  /\ \A item \in review.scope :
       /\ item.justified
       /\ AuthorizedAdvance(review) \/ item.related # {}
       /\ item.related \subseteq expected
       /\ item.replaces => item.evidence = "text"
  /\ (review.version \notin {"2.2", "2.3"} /\ review.gate = "SAFE_CONTINUE") =>
       Unresolved(review) \subseteq Addressed(review) \cup Replaced(review)

PriorityKept(review) ==
  /\ review.instruction =>
       /\ "primary" \notin review.repeats
       /\ IF AuthorizedAdvance(review)
            THEN review.primary = {} /\ review.addresses = {}
            ELSE /\ review.primary # {}
                 /\ review.primary \subseteq Unresolved(review)
                 /\ review.primary = review.addresses
  /\ \A r \in DOMAIN review.assessed :
       LET wanted == IF r \in Unresolved(review) \ Primary(review) THEN "text" ELSE "none"
       IN  review.assessed[r].defer = wanted /\ review.assessed[r].evidence = wanted
  /\ \A item \in review.scope :
       /\ AuthorizedAdvance(review) \/ item.related # {}
       /\ (item.replaces \/ item.prerequisite) => item.evidence = "text"

TaskRef(r) == <<"task_requirement", r>>

\* Mutant of AuthorityBacked: unresolved work goes on without a reference.
AuthorityUnreferenced(review, catalog) ==
  IF Unresolved(review) # {}
    THEN /\ review.transition = "CONTINUE_CURRENT_TASK" /\ review.basis = "UNRESOLVED_REQUIREMENT"
         /\ review.refs \subseteq {TaskRef(r) : r \in Unresolved(review)}
    ELSE review.transition = "ADVANCE_AUTHORIZED_PLAN" /\ review.refs \subseteq DOMAIN catalog

\* catalog maps the references canonical_next_step_catalog lists to their bases.
AuthorityBacked(review, catalog) ==
  /\ "refs" \notin review.repeats
  /\ IF review.gate \in {"BLOCKED", "STOP"}
       THEN review.basis = "NONE" /\ review.refs = {}
     ELSE IF Unresolved(review) # {}
       THEN /\ review.transition = "CONTINUE_CURRENT_TASK"
            /\ review.basis = "UNRESOLVED_REQUIREMENT"
            /\ review.refs # {}
            /\ review.refs \subseteq {TaskRef(r) : r \in Unresolved(review)}
     ELSE \/ /\ review.transition = "ADVANCE_AUTHORIZED_PLAN"
             /\ review.gate = "SAFE_CONTINUE"
             /\ review.basis \in {"FROZEN_NEXT_STEP", "APPROVED_PLAN_ITEM"}
             /\ review.refs # {}
             /\ \A ref \in review.refs : ref \in DOMAIN catalog /\ catalog[ref] = review.basis
          \/ /\ review.transition = "USER_DECISION_REQUIRED"
             /\ review.gate = "USER_REQUIRED"
             /\ review.basis = "USER_DECISION"
             /\ review.refs = {}

EvidenceSuffices(review) ==
  \A r \in DOMAIN review.assessed :
    LET item == review.assessed[r]
    IN  /\ IF item.mandatory
             THEN /\ item.evidenceBasis \in MandatoryBasis /\ item.evidenceRefs
                  /\ item.evidenceBasis = "ACCEPTANCE_CRITERION_UNMET" => item.criterion = "UNMET"
                  /\ item.evidenceBasis = "ACTUAL_CONTRADICTION" => item.criterion = "CONTRADICTED"
                  /\ item.evidenceBasis \in {"EXPLICIT_PROVENANCE_CONTRACT", "SAFETY_AUTHORITY_REQUIREMENT"}
                       => item.criterion # "MET"
             ELSE item.evidenceBasis = "NONE" /\ ~item.evidenceRefs
        /\ item.reason = "EVIDENCE_GAP" => item.criterion # "MET" /\ item.mandatory
        /\ IF r \in Unresolved(review)
             THEN item.reason # "NONE"
             ELSE item.reason = "NONE" /\ ~item.mandatory

\* validate_review_output: the checks each schema version adds to the one before.
Accepts(review, expected, catalog) ==
  /\ PacketsFit(review)
  /\ review.version # "1" => ValidRouting(review.gate, review.facts)
  /\ review.version \in {"2.1", "2.2", "2.3", "2.4"} => TaskAligned(review, expected)
  /\ review.version \in {"2.2", "2.3", "2.4"} => PriorityKept(review)
  /\ review.version = "2.4" => AuthorityBacked(review, catalog)
  /\ review.version \in {"2.3", "2.4"} => EvidenceSuffices(review)

(***************************************************************************)
(* api_mainline_bootstrap.py and api_mainline_continuation.py              *)
(***************************************************************************)

\* validate_bootstrap_output: an action with its destination, gate and packet.
ValidOutput(output) ==
  /\ output.deltaGate = output.gate
  /\ CASE output.action = "HANDOFF_CODEX" ->
            /\ output.destination = "CODEX_WORKER" /\ output.gate = "SAFE_CONTINUE"
            /\ output.handoff = "text" /\ output.packet = "none" /\ output.blocker = "none"
       [] output.action = "USER_REQUIRED" ->
            /\ output.destination = "USER" /\ output.gate = "USER_REQUIRED"
            /\ output.packet = "valid" /\ output.handoff = "none" /\ output.blocker = "none"
       [] output.action = "CONTINUE_USER_DIALOGUE" ->
            /\ output.destination = "USER" /\ output.gate = "none" /\ output.message = "text"
            /\ output.handoff = "none" /\ output.packet = "none" /\ output.blocker = "none"
       [] output.action = "BLOCKED" ->
            /\ output.destination = "none" /\ output.gate = "BLOCKED"
            /\ output.blocker = "reason" /\ output.handoff = "none" /\ output.packet = "none"
       [] output.action = "STOP" ->
            /\ output.destination = "none" /\ output.gate = "STOP"
            /\ output.blocker = "stop" /\ output.handoff = "none" /\ output.packet = "none"
       [] OTHER -> FALSE

\* validate_continuation_output: the output and its review say the same.  A
\* review of an older version has no next-step authority to read.
ValidContinuation(output, review, expected, catalog) ==
  /\ ValidOutput(output)
  /\ review.version = "2.4" /\ Accepts(review, expected, catalog)
  /\ output.gate = review.gate
  /\ output.action = "HANDOFF_CODEX" =>
       review.gate = "SAFE_CONTINUE" /\ review.facts.kind = "BOUNDED_TASK"

\* The evidence of a validated continuation that the advance policy reads.
\* What the runner hard-codes or leaves at its default is in no record.
EvidenceOf(output, review) ==
  [gate |-> output.gate, kind |-> review.facts.kind, transition |-> review.transition,
   basis |-> review.basis, refs |-> review.refs, blocker |-> output.blocker # "none"]

(***************************************************************************)
(* auto_safe_continue.py                                                   *)
(***************************************************************************)
MAX_AUTO_CYCLES == 2

\* evaluate_auto_advance's contract of a step that may be taken unattended.
ContractSatisfied(evidence) ==
  /\ evidence.gate = "SAFE_CONTINUE"
  /\ evidence.kind = "BOUNDED_TASK"
  /\ evidence.transition \in {"CONTINUE_CURRENT_TASK", "ADVANCE_AUTHORIZED_PLAN"}
  /\ evidence.refs # {}
  /\ evidence.transition = "CONTINUE_CURRENT_TASK" => evidence.basis = "UNRESOLVED_REQUIREMENT"
  /\ evidence.transition = "ADVANCE_AUTHORIZED_PLAN" =>
       evidence.basis \in {"FROZEN_NEXT_STEP", "APPROVED_PLAN_ITEM"}

\* evaluate_auto_advance: the first reason to stop, in the code's order.
AdvanceDecision(evidence, cycles, spent, next, cap) ==
  CASE cycles >= MAX_AUTO_CYCLES -> "AUTO_CYCLE_LIMIT_REACHED"
    [] cycles < MAX_AUTO_CYCLES /\ evidence.gate \in {"STOP", "BLOCKED", "USER_REQUIRED"} -> evidence.gate
    [] cycles < MAX_AUTO_CYCLES /\ evidence.gate \notin {"STOP", "BLOCKED", "USER_REQUIRED"}
         /\ evidence.blocker -> "BLOCKER_PRESENT"
    [] cycles < MAX_AUTO_CYCLES /\ evidence.gate \notin {"STOP", "BLOCKED", "USER_REQUIRED"}
         /\ ~evidence.blocker /\ ~ContractSatisfied(evidence) -> "AUTO_ADVANCE_CONTRACT_NOT_SATISFIED"
    [] cycles < MAX_AUTO_CYCLES /\ ~evidence.blocker /\ ContractSatisfied(evidence)
         /\ spent + next > cap -> "CUMULATIVE_COST_CAP_EXCEEDED"
    [] OTHER -> "ALLOW_AUTO_ADVANCE"

(***************************************************************************)
(* Where the three modules must agree                                      *)
(***************************************************************************)

\* A review the gate accepts has the gate route_from_facts would derive from
\* its facts: the two controllers never route one review differently.
RoutedAlike(review, expected, catalog) ==
  (review.version # "1" /\ Accepts(review, expected, catalog))
    => (review.gate \in Gate => DerivedGate(review.facts) = review.gate)

\* A handoff the continuation contract lets through satisfies the advance
\* contract: only the cycle limit and the cost cap are left to stop it.
HandoffAdvances(output, review, expected, catalog) ==
  (ValidContinuation(output, review, expected, catalog) /\ output.action = "HANDOFF_CODEX") =>
     \A cycles \in 0..1, spent, next, cap \in 0..2 :
        AdvanceDecision(EvidenceOf(output, review), cycles, spent, next, cap)
          = IF spent + next > cap THEN "CUMULATIVE_COST_CAP_EXCEEDED" ELSE "ALLOW_AUTO_ADVANCE"
=============================================================================
