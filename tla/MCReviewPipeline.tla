-------------------------- MODULE MCReviewPipeline --------------------------
\* Reviews of a task of two requirements with one canonical next step; and a
\* cycle with a remark of the user and two reports.
EXTENDS CycleReview

CONSTANTS r1, r2

MCExpected == {r1, r2}
Listed == <<"canonical", r1>>
Invented == <<"canonical", r2>>
MCCatalog == [ref \in {Listed} |-> "FROZEN_NEXT_STEP"]

Done == [status |-> "SATISFIED", action |-> "none", defer |-> "none", evidence |-> "none",
         criterion |-> "MET", reason |-> "NONE", mandatory |-> FALSE,
         evidenceBasis |-> "NONE", evidenceRefs |-> FALSE]
Open == [Done EXCEPT !.status = "UNRESOLVED", !.action = "text",
                     !.criterion = "UNMET", !.reason = "IMPLEMENTATION_WORK"]
Deferred == [Open EXCEPT !.defer = "text", !.evidence = "text"]
Gap == [Open EXCEPT !.reason = "EVIDENCE_GAP", !.mandatory = TRUE,
                    !.evidenceBasis = "ACCEPTANCE_CRITERION_UNMET", !.evidenceRefs = TRUE]
Assessment == {Done, Open, Deferred, Gap}

Facts(k, s, c, a, b) ==
  [kind |-> k, safe |-> s, collectable |-> c, authority |-> a, blocker |-> b,
   detail |-> IF b THEN "text" ELSE "none"]
FactsSet == {Facts("BOUNDED_TASK", TRUE, TRUE, FALSE, FALSE), Facts("BOUNDED_TASK", TRUE, TRUE, TRUE, FALSE),
             Facts("USER_DECISION", FALSE, FALSE, TRUE, FALSE), Facts("USER_DECISION", TRUE, FALSE, FALSE, FALSE),
             Facts("MISSING_DEPENDENCY", FALSE, FALSE, FALSE, TRUE), Facts("SAFETY_STOP", FALSE, FALSE, TRUE, FALSE)}

\* Instructions: absent, or with the requirements they address first of all.
Instruction == {<<FALSE, {}, {}>>, <<TRUE, {}, {}>>, <<TRUE, {r1}, {r1}>>, <<TRUE, {r1, r2}, {r1, r2}>>,
                <<TRUE, {r1, r2}, {r1}>>}
Scope == {{}, {[justified |-> TRUE, related |-> {r2}, replaces |-> TRUE, prerequisite |-> TRUE, evidence |-> "text"]}}
Authority == {<<"CONTINUE_CURRENT_TASK", "UNRESOLVED_REQUIREMENT", {TaskRef(r1)}>>,
              <<"CONTINUE_CURRENT_TASK", "UNRESOLVED_REQUIREMENT", {}>>,
              <<"ADVANCE_AUTHORIZED_PLAN", "FROZEN_NEXT_STEP", {Listed}>>,
              <<"ADVANCE_AUTHORIZED_PLAN", "FROZEN_NEXT_STEP", {Invented}>>,
              <<"ADVANCE_AUTHORIZED_PLAN", "APPROVED_PLAN_ITEM", {Listed}>>,
              <<"USER_DECISION_REQUIRED", "USER_DECISION", {}>>,
              <<"USER_DECISION_REQUIRED", "NONE", {}>>}

\* Every combination of one version's parts.
Reviews(version, assessment, authority) ==
  {[version |-> version, gate |-> g, facts |-> f, assessed |-> p,
    instruction |-> i[1], addresses |-> i[2], primary |-> i[3],
    decision |-> g = "USER_REQUIRED", blockerPacket |-> g = "BLOCKED", stopFinding |-> TRUE,
    scope |-> s, transition |-> a[1], basis |-> a[2], refs |-> a[3], repeats |-> {}] :
     g \in Gate, f \in FactsSet, p \in [MCExpected -> assessment],
     i \in Instruction, s \in Scope, a \in authority}

NoAuthority == {<<"none", "none", {}>>}
MCReview == Reviews("2.4", Assessment, Authority) \cup
            UNION {Reviews(v, {Open, Deferred}, NoAuthority) : v \in {"1", "2", "2.1", "2.2", "2.3"}}

Out(action, destination, gate, handoff, packet, blocker) ==
  [action |-> action, destination |-> destination, gate |-> gate, deltaGate |-> gate, message |-> "text",
   handoff |-> handoff, packet |-> packet, blocker |-> blocker]
MCOutput == {Out("HANDOFF_CODEX", "CODEX_WORKER", "SAFE_CONTINUE", "text", "none", "none"),
             Out("HANDOFF_CODEX", "CODEX_WORKER", "USER_REQUIRED", "text", "none", "none"),
             Out("USER_REQUIRED", "USER", "USER_REQUIRED", "none", "valid", "none")}

\* The second report is the review's own text, and that of one line; a text of several
\* lines is found nowhere.
MCContent == {"lines", "review"}
MCOneLine == {"review"}
MCQuotes == {<<c, c>> : c \in MCContent}
MCFound == {<<c, c>> : c \in MCOneLine}
Said(id, session, role, context, seq, text) ==
  [id |-> <<"id", id>>, session |-> <<"session", session>>, role |-> role,
   context |-> context, cycle |-> "c1", seq |-> seq, content |-> text]
MCMessage == {Said("task", "main", "assistant", "MAINLINE", 1, "lines"),
              Said("remark", "codex", "user", "CODEX", 2, "lines"),
              Said("report", "codex", "assistant", "CODEX", 3, "lines"),
              Said("quoting", "codex", "assistant", "CODEX", 4, "review"),
              Said("review", "main", "assistant", "MAINLINE", 5, "review")}
=============================================================================
