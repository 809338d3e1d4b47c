--------------------------- MODULE ApiMainlineRun ---------------------------
(***************************************************************************)
(* ApiMainlineStartStore and ApiMainlineRunStore: a request of the user is *)
(* sealed with the canonical state into a candidate, claimed by one        *)
(* decision, and cancelled or run: one paid call, whose answer is applied  *)
(* to the canonical state.                                                 *)
(*                                                                         *)
(* Each store has a ledger and a lock.  A candidate has a record in the    *)
(* start ledger; once decided it has a run in the run ledger too.  The     *)
(* control plane, with a lock of its own, is read inside the start lock,   *)
(* before the ledger is: it may move between that read and the write.      *)
(***************************************************************************)
EXTENDS Naturals

CONSTANTS
    Thread,         \* request threads of the console
    Candidate,      \* candidates, by the hash of their manifest
    Request,        \* texts a user submits
    Canon,          \* canonical states of the API Mainline
    NoThread, NoCandidate, NoRequest, NoCanon,
    MaxChange,      \* bound: changes of the control plane by others
    MaxFault        \* bound: failed writes and crashes

ASSUME NullAssumption ==
    /\ NoThread \notin Thread
    /\ NoCandidate \notin Candidate
    /\ NoRequest \notin Request
    /\ NoCanon \notin Canon
ASSUME BoundAssumption == MaxChange \in Nat /\ MaxFault \in Nat

StartStatus == {"NONE", "READY", "STALE", "DECIDING", "SENDING",
                "COMPLETED", "FAILED", "CANCELLED"}
InFlight == {"DECIDING", "SENDING"}
Ended == {"STALE", "COMPLETED", "FAILED", "CANCELLED"}
RunStatus == {"NONE", "SENDING", "COMPLETED", "FAILED", "CANCELLED"}
File == {"approval", "attempt", "cancellation", "result", "failure"}

Record == [status : StartStatus, request : Request \cup {NoRequest},
           canon : Canon \cup {NoCanon}]

VARIABLES
    record,     \* the start ledger: each candidate's record
    run,        \* the run ledger: each candidate's run
    files,      \* the record files beside the run ledger
    startLock, runLock,
    pc,         \* what each thread is doing
    enabled,    \* is the API Mainline the authority?
    canonical,  \* the canonical state
    calls,      \* history: paid calls, per candidate
    applied,    \* history: candidates whose answer was applied
    changes, faults

ledgers == <<record, run, files>>
locks == <<startLock, runLock>>
control == <<enabled, canonical, changes>>
vars == <<record, run, files, startLock, runLock, pc, enabled, canonical,
          calls, applied, changes, faults>>

Op == {"none", "prepare", "approve", "cancel"}
\* Under the start lock; then between the claim and the transport; then inside
\* the try block of the execution; then in its exception handler.
Locked == {"sealing", "asked", "claiming"}
Deciding == {"decided", "opened", "approved", "evident", "recorded"}
Trying == {"sending", "waiting", "valid", "applied", "answered", "finished"}
Handling == {"failing", "failed", "closed"}
Step == {"idle", "vetted"} \cup Locked \cup Deciding \cup Trying \cup Handling
\* A thread that has claimed its candidate.
Owning == Deciding \cup Trying \cup Handling

State == [op : Op, step : Step, cand : Candidate \cup {NoCandidate},
          request : Request \cup {NoRequest}, seen : Canon \cup {NoCanon}]
Idle == [op |-> "none", step |-> "idle", cand |-> NoCandidate,
         request |-> NoRequest, seen |-> NoCanon]

Init ==
    /\ record = [c \in Candidate |->
                    [status |-> "NONE", request |-> NoRequest, canon |-> NoCanon]]
    /\ run = [c \in Candidate |-> "NONE"]
    /\ files = [c \in Candidate |-> {}]
    /\ startLock = NoThread
    /\ runLock = NoThread
    /\ pc = [t \in Thread |-> Idle]
    /\ enabled \in BOOLEAN
    /\ canonical \in Canon
    /\ calls = [c \in Candidate |-> 0]
    /\ applied = {}
    /\ changes = 0
    /\ faults = 0

-----------------------------------------------------------------------------
(* Helpers.                                                                *)

At(t, step) == pc[t].step = step
Mine(t) == pc[t].cand
Goto(t, step) == pc' = [pc EXCEPT ![t].step = step]
Leave(t) == pc' = [pc EXCEPT ![t] = Idle]

Take(lock, t) == lock = NoThread /\ lock' = t
Release(lock) == lock' = NoThread

SetStatus(c, status) == record' = [record EXCEPT ![c].status = status]
WriteFile(c, kind) == files' = [files EXCEPT ![c] = @ \cup {kind}]

\* The canonical state is the one the candidate seals.
Matches(c, canon) == record[c].canon = canon

-----------------------------------------------------------------------------
(* prepare.                                                                *)

\* Under the lock it reads the control plane, and refuses when the API Mainline
\* is not the authority.  Candidate bounds how many are ever prepared.
PrepareRead(t, r) ==
    /\ At(t, "idle") /\ enabled
    /\ \E c \in Candidate : record[c].status = "NONE"
    /\ Take(startLock, t)
    /\ pc' = [pc EXCEPT ![t] = [Idle EXCEPT !.op = "prepare", !.step = "sealing",
                                            !.request = r, !.seen = canonical]]
    /\ UNCHANGED <<ledgers, runLock, control, calls, applied, faults>>

SomeInFlight == \E c \in Candidate : record[c].status \in InFlight
\* The candidate that is READY already seals this request and this state.
Reusable(r, canon) ==
    \E c \in Candidate : record[c] = [status |-> "READY", request |-> r, canon |-> canon]

\* What was READY becomes STALE, and a new candidate is READY.
\* Mutant: the older candidates stay READY.
SealedBeside(c, r, canon) ==
    [record EXCEPT ![c] = [status |-> "READY", request |-> r, canon |-> canon]]
Sealed(c, r, canon) ==
    [d \in Candidate |->
        IF d = c THEN [status |-> "READY", request |-> r, canon |-> canon]
        ELSE IF record[d].status = "READY" THEN [record[d] EXCEPT !.status = "STALE"]
        ELSE record[d]]

PrepareReturn(t) ==
    /\ At(t, "sealing")
    /\ SomeInFlight \/ Reusable(pc[t].request, pc[t].seen)
    /\ Release(startLock) /\ Leave(t)
    /\ UNCHANGED <<ledgers, runLock, control, calls, applied, faults>>

PrepareWrite(t) ==
    /\ At(t, "sealing")
    /\ ~ SomeInFlight /\ ~ Reusable(pc[t].request, pc[t].seen)
    /\ \E c \in Candidate :
         /\ record[c].status = "NONE"
         /\ record' = Sealed(c, pc[t].request, pc[t].seen)
    /\ Release(startLock) /\ Leave(t)
    /\ UNCHANGED <<run, files, runLock, control, calls, applied, faults>>

-----------------------------------------------------------------------------
(* The way to a decision: a status check, then the claim.  At most one     *)
(* candidate is READY (OneLive), so that "the last READY record is mine"   *)
(* and "my record is READY" are the same.                                  *)

\* starts.status finds the candidate READY.
Ask(t, c, op) ==
    /\ At(t, "idle") /\ record[c].status = "READY"
    /\ Take(startLock, t)
    /\ pc' = [pc EXCEPT ![t] = [Idle EXCEPT !.op = op, !.step = "asked", !.cand = c]]
    /\ UNCHANGED <<ledgers, runLock, control, calls, applied, faults>>

\* ... and then reads the control plane.  An execution also needs a key of the
\* provider, which may be missing.
Vet(t) ==
    LET current == enabled /\ Matches(Mine(t), canonical) IN
    /\ At(t, "asked")
    /\ Release(startLock)
    /\ \/ current /\ Goto(t, "vetted")
       \/ (~ current \/ pc[t].op = "approve") /\ Leave(t)
    /\ UNCHANGED <<ledgers, runLock, control, calls, applied, faults>>

\* claim_for_decision reads the control plane again ...
ClaimRead(t) ==
    /\ At(t, "vetted")
    /\ IF enabled
       THEN /\ Take(startLock, t)
            /\ pc' = [pc EXCEPT ![t].step = "claiming", ![t].seen = canonical]
       ELSE startLock = NoThread /\ UNCHANGED startLock /\ Leave(t)
    /\ UNCHANGED <<ledgers, runLock, control, calls, applied, faults>>

\* ... and then the ledger: only a READY candidate can be claimed.
Claimable(t) ==
    record[Mine(t)].status = "READY" /\ Matches(Mine(t), pc[t].seen)
ClaimWrite(t) ==
    /\ At(t, "claiming")
    /\ Release(startLock)
    /\ IF Claimable(t)
       THEN SetStatus(Mine(t), "DECIDING") /\ Goto(t, "decided")
       ELSE UNCHANGED record /\ Leave(t)
    /\ UNCHANGED <<run, files, runLock, control, calls, applied, faults>>

-----------------------------------------------------------------------------
(* The decision: evidence first, then the run ledger, then the start       *)
(* ledger.                                                                 *)

Open(t) ==
    /\ At(t, "decided") /\ run[Mine(t)] = "NONE"
    /\ Take(runLock, t) /\ Goto(t, "opened")
    /\ UNCHANGED <<ledgers, startLock, control, calls, applied, faults>>

Writes(t, from, kind, to) ==
    /\ At(t, from) /\ WriteFile(Mine(t), kind) /\ Goto(t, to)
    /\ UNCHANGED <<record, run, locks, control, calls, applied, faults>>

WriteApproval(t) == pc[t].op = "approve" /\ Writes(t, "opened", "approval", "approved")
WriteAttempt(t) == Writes(t, "approved", "attempt", "evident")
WriteCancellation(t) ==
    pc[t].op = "cancel" /\ Writes(t, "opened", "cancellation", "evident")

Decision(t) == IF pc[t].op = "approve" THEN "SENDING" ELSE "CANCELLED"

\* Mutant: the run lock is not released.
WriteRunHolding(t) ==
    /\ At(t, "evident")
    /\ run' = [run EXCEPT ![Mine(t)] = Decision(t)]
    /\ Goto(t, "recorded")
    /\ UNCHANGED <<record, files, locks, control, calls, applied, faults>>
WriteRun(t) ==
    /\ At(t, "evident")
    /\ run' = [run EXCEPT ![Mine(t)] = Decision(t)]
    /\ Release(runLock) /\ Goto(t, "recorded")
    /\ UNCHANGED <<record, files, startLock, control, calls, applied, faults>>

\* _mark_start.
MarkDecision(t) ==
    /\ At(t, "recorded") /\ startLock = NoThread
    /\ SetStatus(Mine(t), Decision(t))
    /\ IF pc[t].op = "approve" THEN Goto(t, "sending") ELSE Leave(t)
    /\ UNCHANGED <<run, files, locks, control, calls, applied, faults>>

-----------------------------------------------------------------------------
(* The paid call, and what becomes of its answer.                          *)

Transport(t) ==
    /\ At(t, "sending")
    /\ calls' = [calls EXCEPT ![Mine(t)] = @ + 1]
    /\ Goto(t, "waiting")
    /\ UNCHANGED <<ledgers, locks, control, applied, faults>>

\* Mutant: an answer that does not validate is asked for again.
AnswerRetries(t) ==
    /\ At(t, "waiting")
    /\ Goto(t, "valid") \/ Goto(t, "sending")
    /\ UNCHANGED <<ledgers, locks, control, calls, applied, faults>>
\* An answer that validates; or an error, a timeout, an answer that does not.
Answer(t) ==
    /\ At(t, "waiting")
    /\ Goto(t, "valid") \/ Goto(t, "failing")
    /\ UNCHANGED <<ledgers, locks, control, calls, applied, faults>>

\* Mutant: a refusal of the control plane goes unnoticed.
ApplyUnnoticed(t) ==
    /\ At(t, "valid") /\ Goto(t, "applied")
    /\ IF enabled THEN canonical' \in Canon /\ applied' = applied \cup {Mine(t)}
       ELSE UNCHANGED <<canonical, applied>>
    /\ UNCHANGED <<ledgers, locks, enabled, changes, calls, faults>>
\* apply_api_mainline_turn: the delta may leave the canonical state as it was;
\* it is refused when the API Mainline is no longer the authority.
Apply(t) ==
    /\ At(t, "valid")
    /\ IF enabled
       THEN /\ canonical' \in Canon
            /\ applied' = applied \cup {Mine(t)}
            /\ Goto(t, "applied")
       ELSE UNCHANGED <<canonical, applied>> /\ Goto(t, "failing")
    /\ UNCHANGED <<ledgers, locks, enabled, changes, calls, faults>>

WriteResult(t) == Writes(t, "applied", "result", "answered")

\* _finish, under the run lock.
Finish(t, from, status, to) ==
    /\ At(t, from) /\ runLock = NoThread
    /\ run' = [run EXCEPT ![Mine(t)] = status]
    /\ Goto(t, to)
    /\ UNCHANGED <<record, files, locks, control, calls, applied, faults>>
FinishCompleted(t) == Finish(t, "answered", "COMPLETED", "finished")

MarkEnd(t, from, status) ==
    /\ At(t, from) /\ startLock = NoThread
    /\ SetStatus(Mine(t), status)
    /\ Leave(t)
    /\ UNCHANGED <<run, files, locks, control, calls, applied, faults>>
MarkCompleted(t) == MarkEnd(t, "finished", "COMPLETED")

\* The exception handler.  Whatever failed, the candidate is consumed.
\* Mutants: the handler ends with the failure file, or skips the run ledger.
WriteFailureOnly(t) == Writes(t, "failing", "failure", "idle")
FinishForgotten(t) == Finish(t, "failed", run[Mine(t)], "closed")
WriteFailure(t) == Writes(t, "failing", "failure", "failed")
FinishFailed(t) == Finish(t, "failed", "FAILED", "closed")
MarkFailed(t) == MarkEnd(t, "closed", "FAILED")

-----------------------------------------------------------------------------
(* What goes wrong, and what others do.                                    *)

\* A write fails.  Inside the try block the handler takes over; elsewhere the
\* request ends where it is, and its locks are released.
ReleaseOf(lock, t) == lock' = IF lock = t THEN NoThread ELSE lock
WriteFails(t) ==
    /\ pc[t].step \in (Owning \cup {"sealing", "claiming"}) \ {"sending", "waiting"}
    /\ faults < MaxFault /\ faults' = faults + 1
    /\ IF pc[t].step \in Trying THEN Goto(t, "failing") ELSE Leave(t)
    /\ ReleaseOf(startLock, t) /\ ReleaseOf(runLock, t)
    /\ UNCHANGED <<ledgers, control, calls, applied>>

\* The console dies and is started again.
Crash ==
    /\ faults < MaxFault /\ faults' = faults + 1
    /\ pc' = [t \in Thread |-> Idle]
    /\ Release(startLock) /\ Release(runLock)
    /\ UNCHANGED <<ledgers, control, calls, applied>>

\* Mode changes, returns and recorded outputs change the control plane.
Switch ==
    /\ changes < MaxChange /\ changes' = changes + 1
    /\ enabled' = ~ enabled
    /\ UNCHANGED <<ledgers, locks, pc, canonical, calls, applied, faults>>
Drift ==
    /\ changes < MaxChange /\ changes' = changes + 1
    /\ canonical' \in Canon \ {canonical}
    /\ UNCHANGED <<ledgers, locks, pc, enabled, calls, applied, faults>>

Call(t) ==
    \/ \E r \in Request : PrepareRead(t, r)
    \/ \E c \in Candidate, op \in {"approve", "cancel"} : Ask(t, c, op)
Proceed(t) ==
    \/ PrepareReturn(t) \/ PrepareWrite(t)
    \/ Vet(t) \/ ClaimRead(t) \/ ClaimWrite(t)
    \/ Open(t) \/ WriteApproval(t) \/ WriteAttempt(t) \/ WriteCancellation(t)
    \/ WriteRun(t) \/ MarkDecision(t)
    \/ Transport(t) \/ Answer(t) \/ Apply(t) \/ WriteResult(t)
    \/ FinishCompleted(t) \/ MarkCompleted(t)
    \/ WriteFailure(t) \/ FinishFailed(t) \/ MarkFailed(t)

Next ==
    \/ \E t \in Thread : Call(t) \/ Proceed(t) \/ WriteFails(t)
    \/ Crash \/ Switch \/ Drift

Spec == Init /\ [][Next]_vars

\* A thread that holds a request is scheduled, a transport times out, and the
\* locks are fair.
FairSpec == Spec /\ \A t \in Thread : SF_vars(Proceed(t))

-----------------------------------------------------------------------------
(* Properties.                                                             *)

TypeOK ==
    /\ record \in [Candidate -> Record]
    /\ run \in [Candidate -> RunStatus]
    /\ files \in [Candidate -> SUBSET File]
    /\ startLock \in Thread \cup {NoThread} /\ runLock \in Thread \cup {NoThread}
    /\ pc \in [Thread -> State]
    /\ enabled \in BOOLEAN /\ canonical \in Canon
    /\ calls \in [Candidate -> Nat] /\ applied \subseteq Candidate
    /\ changes \in 0..MaxChange /\ faults \in 0..MaxFault

\* Whatever requests race and wherever the console dies, at most one candidate
\* is waiting for a decision or being run: two paid calls never overlap.
Live(c) == record[c].status \in InFlight \cup {"READY"}
OneLive == \A c, d \in Candidate : Live(c) /\ Live(d) => c = d

\* A candidate is paid for at most once, and only if the approval and the
\* attempt are on disk and the run ledger has consumed it; one that a
\* cancellation ended is never paid for.
PaidOnce ==
    \A c \in Candidate :
        /\ calls[c] <= 1
        /\ calls[c] = 1 => {"approval", "attempt"} \subseteq files[c]
                          /\ run[c] \in {"SENDING", "COMPLETED", "FAILED"}
        /\ "cancellation" \in files[c] => calls[c] = 0 /\ "approval" \notin files[c]

\* The two ledgers, written one after the other, tell the same story after any
\* crash: an end in the start ledger is the run's end, and a run belongs to a
\* candidate that was claimed.
LedgersAgree ==
    \A c \in Candidate :
        /\ record[c].status \in Ended \ {"STALE"} => run[c] = record[c].status
        /\ record[c].status = "SENDING" => run[c] \notin {"NONE", "CANCELLED"}
        /\ run[c] # "NONE" => record[c].status \in InFlight \cup (Ended \ {"STALE"})

\* What prepared_handoff offers for a dispatch is the answer of an approved and
\* paid call, and the canonical state has taken its delta.
HandoffIsApplied ==
    \A c \in Candidate :
        run[c] = "COMPLETED" =>
            c \in applied /\ calls[c] = 1 /\ {"approval", "result"} \subseteq files[c]

\* A candidate that went stale or ended is never taken up again.
EndedStays ==
    [][\A c \in Candidate :
         record[c].status \in Ended => record'[c].status = record[c].status]_vars

\* The run is an exactly-once dispatch: decided once, consumed once, at most one
\* send, while consumed and before its outcome is on file.
PhaseOf(c) ==
    IF "cancellation" \in files[c] THEN "rejected"
    ELSE IF files[c] \cap {"result", "failure"} # {} THEN "settled"
    ELSE IF "attempt" \in files[c] THEN "consumed"
    ELSE IF "approval" \in files[c] THEN "approved"
    ELSE IF record[c].status # "NONE" THEN "proposed" ELSE "none"
Phases == [c \in Candidate |-> PhaseOf(c)]
Dispatch == INSTANCE ExactlyOnceDispatch
    WITH Handoff <- Candidate, phase <- Phases, sent <- calls
ExactlyOnce == Dispatch!Spec

\* Every request returns, whatever fails under it, and a candidate that was
\* claimed is ended unless a write failed or the console died.
RequestReturns == \A t \in Thread : ~ At(t, "idle") ~> At(t, "idle")
ClaimEnds ==
    \A c \in Candidate :
        record[c].status \in InFlight ~> record[c].status \in Ended \/ faults > 0
=============================================================================
