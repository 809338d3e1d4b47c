------------------------- MODULE MCAutoSafeContinue -------------------------
\* A task of one open requirement, and four answers to it.
EXTENDS AutoSafeContinue

MCExpected == {"r1"}
MCCatalog == [ref \in {} |-> "FROZEN_NEXT_STEP"]

Open == [status |-> "UNRESOLVED", action |-> "text", defer |-> "none", evidence |-> "none",
         criterion |-> "UNMET", reason |-> "IMPLEMENTATION_WORK", mandatory |-> FALSE,
         evidenceBasis |-> "NONE", evidenceRefs |-> FALSE]

Work == [version |-> "2.4", gate |-> "SAFE_CONTINUE",
         facts |-> [kind |-> "BOUNDED_TASK", safe |-> TRUE, collectable |-> TRUE,
                    authority |-> FALSE, blocker |-> FALSE, detail |-> "none"],
         assessed |-> [r \in MCExpected |-> Open],
         instruction |-> TRUE, addresses |-> MCExpected, primary |-> MCExpected,
         decision |-> FALSE, blockerPacket |-> FALSE, stopFinding |-> FALSE, scope |-> {},
         transition |-> "CONTINUE_CURRENT_TASK", basis |-> "UNRESOLVED_REQUIREMENT",
         refs |-> {TaskRef("r1")}, repeats |-> {}]
Deferred == [Open EXCEPT !.defer = "text", !.evidence = "text"]
Ask == [Work EXCEPT !.gate = "USER_REQUIRED", !.instruction = FALSE, !.decision = TRUE,
          !.facts = [@ EXCEPT !.kind = "USER_DECISION", !.authority = TRUE],
          !.assessed = [r \in MCExpected |-> Deferred]]

Handoff == [action |-> "HANDOFF_CODEX", destination |-> "CODEX_WORKER", gate |-> "SAFE_CONTINUE",
            deltaGate |-> "SAFE_CONTINUE", message |-> "text", handoff |-> "text",
            packet |-> "none", blocker |-> "none"]
Question == [Handoff EXCEPT !.action = "USER_REQUIRED", !.destination = "USER", !.gate = "USER_REQUIRED",
               !.deltaGate = "USER_REQUIRED", !.handoff = "none", !.packet = "valid"]

\* A handoff, a question, and a handoff its review does not allow.
MCTurn == {[output |-> Handoff, review |-> Work], [output |-> Question, review |-> Ask],
           [output |-> Handoff, review |-> Ask]}
=============================================================================
