-------------------------- MODULE ApiMainlineReturn --------------------------
(***************************************************************************)
(* ApiMainlineReturnStore on top of the returns: a return whose            *)
(* destination is the API Mainline is sealed with the canonical state into *)
(* a candidate; the user approves it, and one paid call takes the result   *)
(* to the Mainline, whose turn is applied to the canonical state.          *)
(*                                                                         *)
(* The requests are the console's, whose threads share the store's lock.   *)
(* The control plane and the index of validated evaluations are read and   *)
(* written outside that lock, and several returns may be run at once.      *)
(***************************************************************************)
EXTENDS ResultDelivery

CONSTANTS
    Canon, NoCanon, \* canonical states of the API Mainline
    TextOf          \* the text of each return's result

ASSUME CanonAssumption == NoCanon \notin Canon /\ Canon # {}

Text == {TextOf[r] : r \in ApiReturn}
\* What an evaluation is identified by; the task, the protocol and the schema
\* are the same for all.
Evaluation == Canon \X Text

CandidateState == {"NONE", "PREPARED", "SENT", "COMPLETED", "FAILED"}
Evidence == {"approval", "attempt", "result", "failure"}
\* A candidate seals the return's artifact and the canonical state.
Candidate == [maker : Maker, canon : Canon \cup {NoCanon}]
NoCandidate == [maker |-> NoActor, canon |-> NoCanon]
Entry == [state : CandidateState, candidate : Candidate]
NoEntry == [state |-> "NONE", candidate |-> NoCandidate]

VARIABLES
    canonical,      \* the canonical state
    candidateFile,  \* the candidate on disk
    entry,          \* the store's ledger
    evidence,       \* the record files beside it
    storeLock,
    reuse,          \* the index of validated evaluations
    job,            \* what each thread is doing in this store
    calls,          \* history: paid calls, per return
    applied         \* history: returns whose turn was applied

store == <<candidateFile, entry, evidence>>
apiVars == <<canonical, candidateFile, entry, evidence, storeLock, reuse, job,
             calls, applied>>
allVars == <<returnFile, returnEntry, packetFile, delivery, records, deliveryLock, pc,
             authority, cut, faults, changes, canonical, candidateFile, entry, evidence,
             storeLock, reuse, job, calls, applied>>

\* Preparing; on the way to the claim; holding the lock; executing; and in the
\* handler of the exception.
Preparing == {"seal", "file", "ledger"}
Checking == {"check", "claim"}
Claiming == {"approval", "attempt", "sent"}
Executing == {"send", "wait", "apply", "result", "lookup", "register", "finish"}
Handling == {"failure", "failed"}
JobStep == {"none"} \cup Preparing \cup Checking \cup Claiming \cup Executing \cup Handling
Job == [step : JobStep, ret : Return \cup {NoReturn}, candidate : Candidate,
        index : SUBSET Evaluation]
NoJob == [step |-> "none", ret |-> NoReturn, candidate |-> NoCandidate, index |-> {}]

ApiInit ==
    /\ DeliveryInit
    /\ canonical = CHOOSE c \in Canon : TRUE
    /\ candidateFile = [r \in ApiReturn |-> NoCandidate]
    /\ entry = [r \in ApiReturn |-> NoEntry]
    /\ evidence = [r \in ApiReturn |-> {}]
    /\ storeLock = NoActor
    /\ reuse = {}
    /\ job = [t \in Thread |-> NoJob]
    /\ calls = [r \in ApiReturn |-> 0]
    /\ applied = {}

-----------------------------------------------------------------------------
(* Helpers.                                                                *)

In(t, step) == job[t].step = step
Mine(t) == job[t].ret
Sealed(t) == job[t].candidate.canon
Move(t, step) == job' = [job EXCEPT ![t].step = step]
End(t) == job' = [job EXCEPT ![t] = NoJob]
Proceed(t, condition, step) == IF condition THEN Move(t, step) ELSE End(t)
Enabled == authority = "API"
EvaluationOf(t) == <<Sealed(t), TextOf[Mine(t)]>>

\* The ledger of returns names the artifact on disk.
Verified(r) == returnFile[r] # NoActor /\ returnEntry[r] = returnFile[r]

-----------------------------------------------------------------------------
(* prepare.                                                                *)

\* api_mainline_return_context: the API Mainline must be the authority.
Prepare(t, r) ==
    /\ In(t, "none") /\ At(t, "idle")
    /\ Verified(r) /\ Enabled
    /\ job' = [job EXCEPT ![t] = [NoJob EXCEPT !.step = "seal", !.ret = r,
                     !.candidate = [maker |-> returnFile[r], canon |-> canonical]]]
    /\ UNCHANGED <<deliveryVars, canonical, store, storeLock, reuse, calls, applied>>

\* A candidate in the ledger or on disk is a duplicate.
EnterPrepare(t) ==
    /\ In(t, "seal") /\ storeLock = NoActor
    /\ IF entry[Mine(t)] = NoEntry /\ candidateFile[Mine(t)] = NoCandidate
       THEN storeLock' = t /\ Move(t, "file")
       ELSE UNCHANGED storeLock /\ End(t)
    /\ UNCHANGED <<deliveryVars, canonical, store, reuse, calls, applied>>
WriteCandidate(t) ==
    /\ In(t, "file")
    /\ candidateFile' = [candidateFile EXCEPT ![Mine(t)] = job[t].candidate]
    /\ Move(t, "ledger")
    /\ UNCHANGED <<deliveryVars, canonical, entry, evidence, storeLock, reuse, calls, applied>>
WritePrepared(t) ==
    /\ In(t, "ledger")
    /\ entry' = [entry EXCEPT ![Mine(t)] =
                    [state |-> "PREPARED", candidate |-> job[t].candidate]]
    /\ storeLock' = NoActor /\ End(t)
    /\ UNCHANGED <<deliveryVars, canonical, candidateFile, evidence, reuse, calls, applied>>

-----------------------------------------------------------------------------
(* approve_and_execute, up to the claim.                                   *)

\* _candidate: the return, the candidate on disk and the ledger agree.
Approve(t, r) ==
    /\ In(t, "none") /\ At(t, "idle")
    /\ Verified(r) /\ storeLock = NoActor
    /\ entry[r] = [state |-> "PREPARED", candidate |-> candidateFile[r]]
    /\ candidateFile[r].maker = returnFile[r]
    /\ job' = [job EXCEPT ![t] = [NoJob EXCEPT !.step = "check", !.ret = r,
                                               !.candidate = candidateFile[r]]]
    /\ UNCHANGED <<deliveryVars, canonical, store, storeLock, reuse, calls, applied>>

\* Before the lock is taken: the canonical state is the sealed one (_candidate
\* looks, and deterministic_continuation_precheck again), no equivalent evaluation
\* was validated, and there is a key.
StateHolds(t) == Enabled /\ canonical = Sealed(t)
Precheck(t) ==
    /\ In(t, "check")
    /\ Proceed(t, StateHolds(t) /\ EvaluationOf(t) \notin reuse, "claim") \/ End(t)
    /\ UNCHANGED <<deliveryVars, canonical, store, storeLock, reuse, calls, applied>>

\* Mutant: the entry that was read before the lock is trusted.
Unclaimed(t) == TRUE
Claimable(t) == entry[Mine(t)].state = "PREPARED"
Claim(t) ==
    /\ In(t, "claim") /\ storeLock = NoActor
    /\ IF Claimable(t)
       THEN storeLock' = t /\ Move(t, "approval")
       ELSE UNCHANGED storeLock /\ End(t)
    /\ UNCHANGED <<deliveryVars, canonical, store, reuse, calls, applied>>

WriteEvidence(t, from, kind, to) ==
    /\ In(t, from)
    /\ evidence' = [evidence EXCEPT ![Mine(t)] = @ \cup {kind}]
    /\ Move(t, to)
    /\ UNCHANGED <<deliveryVars, canonical, candidateFile, entry, storeLock, reuse, calls,
                   applied>>
WriteApproval(t) == WriteEvidence(t, "approval", "approval", "attempt")
WriteAttempt(t) == WriteEvidence(t, "attempt", "attempt", "sent")

SetState(t, state) == entry' = [entry EXCEPT ![Mine(t)].state = state]
WriteSent(t) ==
    /\ In(t, "sent")
    /\ SetState(t, "SENT") /\ storeLock' = NoActor /\ Move(t, "send")
    /\ UNCHANGED <<deliveryVars, canonical, candidateFile, evidence, reuse, calls, applied>>

-----------------------------------------------------------------------------
(* The paid call, and what becomes of its answer.                          *)

Transport(t) ==
    /\ In(t, "send")
    /\ calls' = [calls EXCEPT ![Mine(t)] = @ + 1]
    /\ Move(t, "wait")
    /\ UNCHANGED <<deliveryVars, canonical, store, storeLock, reuse, applied>>

\* The answer is captured and validates; or anything of that fails.
Answer(t) ==
    /\ In(t, "wait")
    /\ Move(t, "apply") \/ Move(t, "failure")
    /\ UNCHANGED <<deliveryVars, canonical, store, storeLock, reuse, calls, applied>>

\* apply_api_mainline_turn takes the delta whatever the canonical state is by
\* now, and refuses it when the API Mainline is no longer the authority.
\* Mutant: the refusal goes unnoticed.
ApplyUnnoticed(t) ==
    /\ In(t, "apply") /\ Move(t, "result")
    /\ IF Enabled THEN canonical' \in Canon /\ applied' = applied \cup {Mine(t)}
       ELSE UNCHANGED <<canonical, applied>>
    /\ UNCHANGED <<deliveryVars, store, storeLock, reuse, calls>>
Apply(t) ==
    /\ In(t, "apply")
    /\ IF Enabled
       THEN canonical' \in Canon /\ applied' = applied \cup {Mine(t)} /\ Move(t, "result")
       ELSE UNCHANGED <<canonical, applied>> /\ Move(t, "failure")
    /\ UNCHANGED <<deliveryVars, store, storeLock, reuse, calls>>

WriteResult(t) == WriteEvidence(t, "result", "result", "lookup")

\* register_validated reads the index, and refuses another result of the same
\* evaluation ...
RegisterRead(t) ==
    /\ In(t, "lookup")
    /\ IF EvaluationOf(t) \notin reuse
       THEN job' = [job EXCEPT ![t].step = "register", ![t].index = reuse]
       ELSE Move(t, "failure")
    /\ UNCHANGED <<deliveryVars, canonical, store, storeLock, reuse, calls, applied>>
\* ... and writes what it read, extended.
RegisterWrite(t) ==
    /\ In(t, "register")
    /\ reuse' = job[t].index \cup {EvaluationOf(t)}
    /\ Move(t, "finish")
    /\ UNCHANGED <<deliveryVars, canonical, store, storeLock, calls, applied>>

\* _finish, under the lock.
Finish(t, from, state) ==
    /\ In(t, from) /\ storeLock = NoActor
    /\ SetState(t, state) /\ End(t)
    /\ UNCHANGED <<deliveryVars, canonical, candidateFile, evidence, storeLock, reuse, calls,
                   applied>>
FinishCompleted(t) == Finish(t, "finish", "COMPLETED")
\* Mutant: the handler ends with the failure file.
WriteFailureOnly(t) == WriteEvidence(t, "failure", "failure", "none")
WriteFailure(t) == WriteEvidence(t, "failure", "failure", "failed")
FinishFailed(t) == Finish(t, "failed", "FAILED")

-----------------------------------------------------------------------------
(* What goes wrong, and what others do.                                    *)

\* A write fails: in the try block the handler takes over, elsewhere the request
\* ends and its lock is released.
StoreFails(t) ==
    /\ job[t].step \in {"file", "ledger", "approval", "attempt", "sent", "result",
                        "register", "finish", "failure", "failed"}
    /\ faults < MaxFault /\ faults' = faults + 1
    /\ IF job[t].step \in Executing THEN Move(t, "failure") ELSE End(t)
    /\ storeLock' = IF storeLock = t THEN NoActor ELSE storeLock
    /\ UNCHANGED <<returns, packets, deliveryLock, pc, authority, cut, changes,
                   canonical, store, reuse, calls, applied>>

\* The console dies and is started again.
Crash ==
    /\ StopActors(Thread)
    /\ job' = [t \in Thread |-> NoJob] /\ storeLock' = NoActor
    /\ UNCHANGED <<canonical, store, reuse, calls, applied>>

\* Runs and recorded outputs change the canonical state; the automatic runner does,
\* and validates evaluations.
Drift ==
    /\ Changes
    /\ \/ canonical' \in Canon \ {canonical} /\ UNCHANGED reuse
       \/ reuse' = reuse \cup {<<canonical, text>> : text \in Text} /\ UNCHANGED canonical
    /\ UNCHANGED <<returns, packets, deliveryLock, pc, authority, cut, faults,
                   store, storeLock, job, calls, applied>>

Run(t) ==
    \/ EnterPrepare(t) \/ WriteCandidate(t) \/ WritePrepared(t)
    \/ Precheck(t) \/ Claim(t)
    \/ WriteApproval(t) \/ WriteAttempt(t) \/ WriteSent(t)
    \/ Transport(t) \/ Answer(t) \/ Apply(t) \/ WriteResult(t)
    \/ RegisterRead(t) \/ RegisterWrite(t) \/ FinishCompleted(t)
    \/ WriteFailure(t) \/ FinishFailed(t)

\* A step of the returns and deliveries; a thread serves one request at a time.
ReturnStep ==
    /\ \/ \E a \in Tool : CallTool(a) \/ RunTool(a) \/ DeliveryFails(a)
       \/ \E t \in Thread :
            \/ In(t, "none") /\ \E r \in Return, to \in DeliveryState : Transition(t, r, to)
            \/ RunTransition(t) \/ DeliveryFails(t)
    /\ UNCHANGED apiVars

ApiNext ==
    \/ ReturnStep
    \/ \E t \in Thread :
        \/ \E r \in ApiReturn : Prepare(t, r) \/ Approve(t, r)
        \/ Run(t) \/ StoreFails(t)
    \/ Crash \/ Drift \/ (Reroute /\ UNCHANGED apiVars)

ApiSpec == ApiInit /\ [][ApiNext]_allVars

\* A thread that serves a request is scheduled, the transport times out, the
\* lock is fair.
FairApiSpec == ApiSpec /\ \A t \in Thread : SF_allVars(Run(t))

-----------------------------------------------------------------------------
(* Properties.                                                             *)

ApiTypeOK ==
    /\ DeliveryTypeOK
    /\ canonical \in Canon
    /\ candidateFile \in [ApiReturn -> Candidate]
    /\ entry \in [ApiReturn -> Entry]
    /\ evidence \in [ApiReturn -> SUBSET Evidence]
    /\ storeLock \in Thread \cup {NoActor}
    /\ reuse \subseteq Evaluation
    /\ job \in [Thread -> Job]
    /\ calls \in [ApiReturn -> Nat] /\ applied \subseteq ApiReturn

\* A return the ledger calls COMPLETED, whose next handoff may be dispatched, is
\* the answer of one approved call, and the canonical state has taken its turn.
CompletedIsApplied ==
    \A r \in ApiReturn :
        entry[r].state = "COMPLETED" =>
            /\ r \in applied /\ calls[r] = 1
            /\ {"approval", "attempt", "result"} \subseteq evidence[r]

\* The run of a return is an exactly-once dispatch: sealed, approved, consumed by
\* the attempt's record, called at most once, settled by its outcome.
PhaseOf(r) ==
    IF evidence[r] \cap {"result", "failure"} # {} THEN "settled"
    ELSE IF "attempt" \in evidence[r] THEN "consumed"
    ELSE IF "approval" \in evidence[r] THEN "approved"
    ELSE IF entry[r] # NoEntry THEN "proposed" ELSE "none"
Phases == [r \in ApiReturn |-> PhaseOf(r)]
Once == INSTANCE ExactlyOnceDispatch WITH Handoff <- ApiReturn, phase <- Phases, sent <- calls
ExactlyOnce == Once!Spec

\* When nothing fails, a consumed return reaches its outcome.
SentEnds ==
    [](faults = 0) => \A r \in ApiReturn :
        entry[r].state = "SENT" ~> entry[r].state \in {"COMPLETED", "FAILED"}
=============================================================================
