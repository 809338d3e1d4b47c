--------------------------- MODULE ReviewPipeline ---------------------------
(***************************************************************************)
(* One reviewer call, from the guarded adapter (adapter.py, manifest.py)   *)
(* through the capture of the provider's bytes and the named stages of     *)
(* response_pipeline.py to the review contracts of ReviewGate.  The same   *)
(* reviewer's answer may also come as a Mainline continuation, which the   *)
(* automatic runner judges (api_mainline_continuation.py).                 *)
(***************************************************************************)
EXTENDS ReviewGate

CONSTANTS
  Review,      \* the reviews a model may write
  Output,      \* the Mainline outputs that may come with one
  Expected,    \* the requirement ids of the task's inventory
  Catalog      \* the canonical next steps and their bases, for a continuation

VARIABLES
  consumed,    \* ApprovalManifestGuard.consumed
  answer,      \* what the provider returned
  review,      \* the review in it
  captured,    \* provider-response.raw.json exists
  stages,      \* the pipeline stages that passed
  outcome      \* "none", "PASS" or the error code

vars == <<consumed, answer, review, captured, stages, outcome>>

NoAnswer == [status |-> "none", texts |-> 0, refusal |-> FALSE, json |-> FALSE]

NoReview == [version |-> "none"]

\* Provider responses: their status, the number of output_text items, whether
\* one is a refusal and whether the text is a JSON object.
Answer == [status : {"completed", "incomplete", "refused"}, texts : 0..2, refusal : BOOLEAN, json : BOOLEAN]

\* parse_response is given no canonical next steps: no review that advances to one
\* passes it.
NoCatalog == [ref \in {} |-> "FROZEN_NEXT_STEP"]

\* A response with one readable text carries a review.
Carries(a) == a.status = "completed" /\ ~a.refusal /\ a.texts = 1 /\ a.json

\* parse_response: the first stage that fails names the error ...
ParseOutcome(a, r) ==
  CASE a.status = "incomplete" -> "INCOMPLETE"
    [] a.status = "refused" -> "REFUSAL"
    [] a.status = "completed" /\ a.refusal -> "REFUSAL_ITEM"
    [] a.status = "completed" /\ ~a.refusal /\ a.texts = 0 -> "OUTPUT_TEXT_MISSING"
    [] a.status = "completed" /\ ~a.refusal /\ a.texts > 1 -> "AMBIGUOUS_MULTIPLE_OUTPUT_TEXT"
    [] a.status = "completed" /\ ~a.refusal /\ a.texts = 1 /\ ~a.json -> "JSON_DECODE_ERROR"
    [] OTHER -> IF Accepts(r, Expected, NoCatalog) THEN "PASS" ELSE "STRUCTURED_SCHEMA_VALIDATION_ERROR"

\* ... and the stages before it are marked PASS.
StagesOf(result) ==
  {"HTTP_RECEIVED"}
    \cup (IF result \notin {"INCOMPLETE", "REFUSAL"} THEN {"PROVIDER_STATUS"} ELSE {})
    \cup (IF result \in {"JSON_DECODE_ERROR", "STRUCTURED_SCHEMA_VALIDATION_ERROR", "PASS"}
            THEN {"OUTPUT_EXTRACTION"} ELSE {})
    \cup (IF result \in {"STRUCTURED_SCHEMA_VALIDATION_ERROR", "PASS"} THEN {"JSON_DECODE"} ELSE {})
    \cup (IF result = "PASS"
            THEN {"SCHEMA_VALIDATION", "INTERNAL_MODEL_VALIDATION", "GATE_VALIDATION"} ELSE {})

Init ==
  /\ consumed = FALSE /\ answer = NoAnswer /\ captured = FALSE
  /\ review = NoReview
  /\ stages = {} /\ outcome = "none"

\* OpenAIReviewerAdapter.review up to the transport: the approval is consumed
\* before the request leaves.
Call ==
  /\ ~consumed
  /\ consumed' = TRUE
  /\ \E a \in Answer :
       /\ answer' = a
       /\ IF Carries(a) THEN review' \in Review ELSE UNCHANGED review
  /\ UNCHANGED <<captured, stages, outcome>>

\* What extract_output_text raises, whatever the provider's status is; no text at
\* all is an error for parse_response only.
Unreadable(a) ==
  CASE a.refusal -> "REFUSAL_ITEM"
    [] ~a.refusal /\ a.texts > 1 -> "AMBIGUOUS_MULTIPLE_OUTPUT_TEXT"
    [] OTHER -> "none"

\* capture_response, for an adapter with a capture directory: the exact bytes are
\* written before anything is decoded, and what cannot be read ends the call.
Capture ==
  /\ answer # NoAnswer /\ ~captured /\ outcome = "none"
  /\ captured' = TRUE /\ outcome' = Unreadable(answer)
  /\ UNCHANGED <<consumed, answer, review, stages>>

Parse ==
  /\ answer # NoAnswer /\ outcome = "none"
  /\ outcome' = ParseOutcome(answer, review)
  /\ stages' = StagesOf(outcome')
  /\ UNCHANGED <<consumed, answer, review, captured>>

Next == Call \/ Capture \/ Parse

Spec == Init /\ [][Next]_vars

(***************************************************************************)
(* Properties                                                              *)
(***************************************************************************)

\* A review that passed the pipeline carries the gate that routing.py's other
\* entry, route_from_facts, derives from its facts: gate.py and routing.py
\* never route one review differently.
RoutesAgree == outcome = "PASS" => RoutedAlike(review, Expected, NoCatalog)

\* A handoff the continuation contract accepts with this review is one the
\* advance policy allows within its cycle limit and its cap, so the runner's
\* policy never contradicts the validation that fed it.
HandoffsAdvance == outcome # "none" /\ Carries(answer) =>
  \A output \in Output : HandoffAdvances(output, review, Expected, Catalog)
=============================================================================
