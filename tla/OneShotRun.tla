----------------------------- MODULE OneShotRun -----------------------------
(***************************************************************************)
(* The scripts a person runs by hand, once per approval: the live reviewer *)
(* runs, the automatic pilot's preflight and retry candidate, and the      *)
(* automatic runner (AutoSafeContinue).  They have no lock.  Each looks    *)
(* for the evidence files of an earlier invocation, verifies its candidate *)
(* for a while, and then writes its evidence with os.replace, the approval *)
(* and the attempt before the paid call and the rest after it.  An         *)
(* invocation may die at any step, and may be started twice.               *)
(***************************************************************************)
EXTENDS Integers, Sequences, FiniteSets

CONSTANTS
  Invocation,   \* the processes started
  MaxCrash      \* how many of them may be killed

ASSUME CrashAssumption == MaxCrash \in Nat

Reviewer == {"live", "r2", "r3", "calibration", "holdout", "evidence", "alignment", "alignmentHoldout"}
AllScripts == Reviewer \cup {"pilot", "retry", "auto"}

Evidence == {"approval", "attempt", "capture", "comparison", "result", "completed", "ledger", "candidate"}

\* What a provider may answer: a parsed review, one a contract refuses, one whose
\* usage cannot be priced, a refusal item or several texts, bytes that are no JSON,
\* JSON that is no object, an error response, or nothing.
Answers == {"parsed", "refused", "unpriced", "unreadable", "garbled", "list", "http_error", "network_error"}

VARIABLES
  script,    \* the script of this behaviour: the scripts share no file
  files,     \* its evidence files on disk
  calls,     \* the paid calls made on its approval
  run,       \* run[i]: what invocation i is doing
  raced,     \* two invocations passed the first check together
  crashes

shotVars == <<script, files, calls, run, raced, crashes>>

Idle == [at |-> 0, answer |-> "none"]

\* The files whose presence refuses an invocation.
Guard(s) ==
  CASE s = "live" -> {"attempt"}
    [] s \in {"r2", "r3", "auto"} -> {"approval", "attempt", "result"}
    [] s = "alignment" -> {"approval", "attempt", "result", "capture"}
    [] s \in {"calibration", "holdout", "evidence", "alignmentHoldout"} ->
         {"approval", "attempt", "result", "comparison", "capture"}
    [] s = "pilot" -> {"ledger"}
    [] OTHER -> {"candidate"}

\* What an invocation does, in order.
Live == <<"verify", "approval", "attempt", "call", "result", "completed">>
R2 == <<"verify", "approval", "attempt", "call", "result", "completed">>
R3 == <<"verify", "approval", "attempt", "call", "capture", "result", "completed">>
Calibration == <<"verify", "approval", "attempt", "call", "capture", "comparison", "result", "completed">>
Holdout == <<"verify", "approval", "attempt", "call", "capture", "comparison", "result", "completed">>
EvidenceHoldout == <<"verify", "approval", "attempt", "call", "capture", "result", "completed">>
Alignment == <<"verify", "approval", "attempt", "call", "capture", "result", "completed">>
AlignmentHoldout == <<"verify", "approval", "attempt", "call", "capture", "result", "completed">>
Pilot == <<"verify", "approval", "result", "ledger">>
Retry == <<"verify", "candidate">>
\* AutoSafeContinue has the steps "precheck" and "auto".
Automatic == <<"precheck", "approval", "attempt", "auto">>

Steps(s) ==
  [live |-> Live, r2 |-> R2, r3 |-> R3, calibration |-> Calibration, holdout |-> Holdout,
   evidence |-> EvidenceHoldout, alignment |-> Alignment, alignmentHoldout |-> AlignmentHoldout,
   pilot |-> Pilot, retry |-> Retry, auto |-> Automatic][s]

\* Scripts that write the raw bytes inside the try, before they decode them.
RawFirst == {"holdout", "evidence", "alignment", "alignmentHoldout"}

\* Whether the capture directory holds something after the call: r3 captures
\* what it could decode, the calibration any 200, the later ones every body.
Captured(s, answer) ==
  CASE s = "r3" -> answer \in {"parsed", "refused", "unpriced", "unreadable"}
    [] s = "calibration" -> answer \notin {"http_error", "network_error"}
    [] s \in RawFirst -> answer # "network_error"
    [] OTHER -> FALSE

\* Answers that raise outside the try, after the call and any raw capture: what has
\* no fields, what the capture cannot read, and, only when the result is put together,
\* token counts that are absent or do not add up.
Dies(s, item, answer) ==
  \/ answer = "list" /\ s # "live"
  \/ answer = "garbled" /\ s \in RawFirst \cup {"calibration"}
  \/ answer = "unreadable" /\ s \notin {"live", "r2"}
  \/ answer = "unpriced" /\ item = "result"

Item(i) == IF run[i] = Idle THEN "none" ELSE Steps(script)[run[i].at]

\* Past the step, or back to idle after the last one.
Advance(i, answer) ==
  run' = [run EXCEPT ![i] =
            IF @.at = Len(Steps(script)) THEN Idle ELSE [at |-> @.at + 1, answer |-> answer]]

ShotInit ==
  /\ script \in AllScripts
  /\ files = {} /\ calls = 0
  /\ run = [i \in Invocation |-> Idle]
  /\ raced = FALSE /\ crashes = 0

\* Mutant of Begin: only a result stops a second invocation.
BeginAgain(i) ==
  /\ run[i] = Idle /\ "result" \notin files
  /\ run' = [run EXCEPT ![i] = [Idle EXCEPT !.at = 1]]
  /\ raced' = (raced \/ \E j \in Invocation : run[j] # Idle /\ Guard(script) \cap files = {})
  /\ UNCHANGED <<script, files, calls, crashes>>

\* The check an invocation starts with.  If another one is running that has
\* not written what the check looks for, both have passed it.
Begin(i) ==
  /\ run[i] = Idle
  /\ Guard(script) \cap files = {}
  /\ run' = [run EXCEPT ![i] = [Idle EXCEPT !.at = 1]]
  /\ raced' = (raced \/ \E j \in Invocation : run[j] # Idle)
  /\ UNCHANGED <<script, files, calls, crashes>>

\* The candidate is what its frozen hashes say and the key can be read, or the
\* script ends.
Verify(i) ==
  /\ Item(i) = "verify"
  /\ Advance(i, "none") \/ run' = [run EXCEPT ![i] = Idle]
  /\ UNCHANGED <<script, files, calls, raced, crashes>>

Written == {"approval", "attempt", "result", "completed", "ledger", "candidate"}

\* Mutant of Write: the attempt is not written before the call.
WriteLater(i) ==
  /\ Item(i) \in Written
  /\ ~(Item(i) = "result" /\ Dies(script, "result", run[i].answer))
  /\ files' = files \cup ({Item(i)} \ {"attempt"})
  /\ Advance(i, run[i].answer)
  /\ UNCHANGED <<script, calls, raced, crashes>>

\* atomic_json of one evidence file.
Write(i) ==
  /\ Item(i) \in Written
  /\ ~(Item(i) = "result" /\ Dies(script, "result", run[i].answer))
  /\ files' = files \cup {Item(i)}
  /\ Advance(i, run[i].answer)
  /\ UNCHANGED <<script, calls, raced, crashes>>

\* The one urlopen.
Call(i) ==
  /\ Item(i) = "call"
  /\ calls' = calls + 1
  /\ \E answer \in Answers : Advance(i, answer)
  /\ UNCHANGED <<script, files, raced, crashes>>

Capture(i) ==
  /\ Item(i) = "capture"
  /\ files' = IF Captured(script, run[i].answer) THEN files \cup {"capture"} ELSE files
  /\ Advance(i, run[i].answer)
  /\ UNCHANGED <<script, calls, raced, crashes>>

\* local_comparison of a review that passed the pipeline.
Compare(i) ==
  /\ Item(i) = "comparison"
  /\ ~Dies(script, "comparison", run[i].answer)
  /\ files' = IF run[i].answer \in {"parsed", "unpriced"} THEN files \cup {"comparison"} ELSE files
  /\ Advance(i, run[i].answer)
  /\ UNCHANGED <<script, calls, raced, crashes>>

\* An exception outside the try ends the process without a result.
Raise(i) ==
  /\ Item(i) \in {"comparison", "result"}
  /\ Dies(script, Item(i), run[i].answer)
  /\ run' = [run EXCEPT ![i] = Idle]
  /\ UNCHANGED <<script, files, calls, raced, crashes>>

Kill(i) ==
  /\ run[i] # Idle /\ crashes < MaxCrash
  /\ run' = [run EXCEPT ![i] = Idle]
  /\ crashes' = crashes + 1
  /\ UNCHANGED <<script, files, calls, raced>>

ShotStep(i) ==
  \/ Begin(i) \/ Verify(i) \/ Write(i) \/ Call(i) \/ Capture(i) \/ Compare(i)
  \/ Raise(i) \/ Kill(i)

(***************************************************************************)
(* Properties                                                              *)
(***************************************************************************)

\* The paid calls one approval allows.
Limit == IF script = "auto" THEN 2 ELSE IF script \in Reviewer THEN 1 ELSE 0

\* One approval is paid for once (twice by the automatic runner), however
\* often its script is started again and wherever it was killed.  Only two
\* invocations that both looked before either had written can pay twice.
PaidOnce == ~raced => calls <= Limit

\* The files on disk tell the truth about the call, at every moment a process
\* can die: a paid call has its attempt, what came back belongs to a call, and
\* a completed attempt and a recorded pilot have their result.
TraceBacked ==
  /\ calls > 0 => "attempt" \in files
  /\ {"capture", "comparison"} \cap files # {} => calls > 0
  /\ "result" \in files => "approval" \in files /\ (Limit = 1 => calls > 0)
  /\ {"completed", "ledger"} \cap files # {} => "result" \in files
=============================================================================
