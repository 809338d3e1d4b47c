-------------------------- MODULE SemiAutoDispatch --------------------------
(***************************************************************************)
(* SemiAutoCodexDispatcher.approve_and_send on top of the dispatch ledger. *)
(*                                                                         *)
(* A request thread of the console approves one prepared handoff, takes a  *)
(* process-local lease on its workspace, starts the dispatch, runs one     *)
(* Codex turn, records the outcome and gives the lease back.  Other        *)
(* threads prepare, approve or reject handoffs through the ledger alone.   *)
(***************************************************************************)
EXTENDS DispatchLedger

CONSTANTS
    HeadOf,         \* the Git HEAD of each workspace fingerprint
    MaxRequests     \* bound: requests served in a behaviour

ASSUME RequestAssumption == MaxRequests \in Nat

Identity == {HeadOf[s] : s \in Seal}
Mode == {"OFF", "SHADOW_REVIEW", "SEMI_AUTO"}

VARIABLES
    mode,       \* the project's orchestration mode
    lease,      \* WorkspaceTurnGuard._active: workspace identity to handoff
    job,        \* what each thread's request is doing
    attention,  \* the handoff the control plane shows as waiting for the user
    requests,   \* requests served so far
    cut         \* history: handoffs whose job a crash or a failed write cut off

semi == <<mode, lease, job, attention, requests, cut>>
allVars == <<ledger, tmp, files, envelope, lock, pc, view, seen, route, ref, tree,
             proto, started, fresh, churn, mode, lease, job, attention, requests, cut>>

Stage == {"none", "store", "mode", "decide", "artifact", "get", "set", "start",
          "turn", "complete", "error", "fail", "attention", "release"}
\* A request: its stage, its handoff, the identity its artifact names, and
\* whether the turn stopped to ask the user for an approval.
Job == [stage : Stage, id : Handoff \cup {NoId}, identity : Identity \cup {NoSeal},
        asks : BOOLEAN]
NoJob == [stage |-> "none", id |-> NoId, identity |-> NoSeal, asks |-> FALSE]

SemiInit ==
    /\ Init
    /\ mode \in Mode
    /\ lease = [i \in Identity |-> NoId]
    /\ job = [t \in Thread |-> NoJob]
    /\ attention = NoId
    /\ requests = 0
    /\ cut = {}

In(t, stage) == job[t].stage = stage
Move(t, stage) == job' = [job EXCEPT ![t].stage = stage]
End(t) == job' = [job EXCEPT ![t] = NoJob]

-----------------------------------------------------------------------------
(* Requests.                                                               *)

Serve(t, h, stage) ==
    /\ In(t, "none")
    /\ requests < MaxRequests
    /\ requests' = requests + 1
    /\ job' = [job EXCEPT ![t] = [NoJob EXCEPT !.stage = stage, !.id = h]]
    /\ UNCHANGED <<mode, lease, attention, cut>>

\* MainlineDispatchBridge and the approve and reject endpoints: one ledger call.
ServeStore(t, h) ==
    /\ Serve(t, h, "store")
    /\ CallPrepare(t, h) \/ CallDecide(t, h)

ServeApproveAndSend(t, h) == Serve(t, h, "mode") /\ UNCHANGED vars

\* The mode endpoint.
SetMode ==
    /\ requests < MaxRequests
    /\ requests' = requests + 1
    /\ mode' \in Mode \ {mode}
    /\ UNCHANGED vars
    /\ UNCHANGED <<lease, job, attention, cut>>

-----------------------------------------------------------------------------
(* approve_and_send.                                                       *)

\* _require_semi_auto, and the call of decide.
RequireSemiAuto(t) ==
    /\ In(t, "mode")
    /\ IF mode = "SEMI_AUTO"
       THEN Call(t, "approve", job[t].id, "called") /\ Move(t, "decide")
       ELSE UNCHANGED vars /\ End(t)
    /\ UNCHANGED <<mode, lease, attention, requests, cut>>

\* artifact_for_dispatch, under the store's lock.
ReadArtifact(t) ==
    /\ In(t, "artifact")
    /\ Free(t)
    /\ job' = [job EXCEPT ![t].stage = "get",
                          ![t].identity = HeadOf[envelope[job[t].id].seal]]
    /\ UNCHANGED vars
    /\ UNCHANGED <<mode, lease, attention, requests, cut>>

\* WorkspaceTurnGuard.acquire has no lock of its own: it looks ...
GuardGet(t) ==
    /\ In(t, "get")
    /\ IF lease[job[t].identity] = NoId THEN Move(t, "set") ELSE End(t)
    /\ UNCHANGED vars
    /\ UNCHANGED <<mode, lease, attention, requests, cut>>

\* ... and then writes; start_dispatch is called next.
GuardSet(t) ==
    /\ In(t, "set")
    /\ lease' = [lease EXCEPT ![job[t].identity] = job[t].id]
    /\ Move(t, "start")
    /\ Call(t, "start", job[t].id, "called")
    /\ UNCHANGED <<mode, attention, requests, cut>>

\* The transport runs one turn and completes, stops for an approval, or fails.
RunTransport(t) ==
    /\ In(t, "turn")
    /\ \/ Move(t, "complete") /\ Call(t, "complete", job[t].id, "ready")
       \/ \E asks \in BOOLEAN :
            /\ job' = [job EXCEPT ![t].stage = "fail", ![t].asks = asks]
            /\ Call(t, "fail", job[t].id, "ready")
    /\ UNCHANGED <<mode, lease, attention, requests, cut>>

\* The exception handler after record_completion raised.
RecordError(t) ==
    /\ In(t, "error")
    /\ Move(t, "fail")
    /\ Call(t, "fail", job[t].id, "ready")
    /\ UNCHANGED <<mode, lease, attention, requests, cut>>

\* record_dispatch_user_required: the control plane refuses it when OFF.
RaiseAttention(t) ==
    /\ In(t, "attention")
    /\ attention' = IF mode = "OFF" THEN attention ELSE job[t].id
    /\ Move(t, "release")
    /\ UNCHANGED vars
    /\ UNCHANGED <<mode, lease, requests, cut>>

\* The finally block: a lease another handoff holds is left alone.
Release(t) ==
    /\ In(t, "release")
    /\ lease' = IF lease[job[t].identity] = job[t].id
                THEN [lease EXCEPT ![job[t].identity] = NoId] ELSE lease
    /\ End(t)
    /\ UNCHANGED vars
    /\ UNCHANGED <<mode, attention, requests, cut>>

\* Mutant: the lease is acquired, but start_dispatch is outside the try block.
AfterNoFinally(j, ok) ==
    CASE j.stage = "store" -> "none"
      [] j.stage = "decide" -> IF ok THEN "artifact" ELSE "none"
      [] j.stage = "start" -> IF ok THEN "turn" ELSE "none"
      [] j.stage = "complete" -> IF ok THEN "release" ELSE "error"
      [] j.stage = "fail" -> IF ok /\ j.asks THEN "attention" ELSE "release"

\* Where a request goes when its ledger call returns (ok) or raises.
After(j, ok) ==
    CASE j.stage = "store" -> "none"
      [] j.stage = "decide" -> IF ok THEN "artifact" ELSE "none"
      [] j.stage = "start" -> IF ok THEN "turn" ELSE "release"
      [] j.stage = "complete" -> IF ok THEN "release" ELSE "error"
      [] j.stage = "fail" -> IF ok /\ j.asks THEN "attention" ELSE "release"

\* A step of the ledger call a request is waiting for.
RunStore(t) ==
    /\ StoreStep(t)
    /\ IF pc'[t] # Idle THEN UNCHANGED job
       ELSE IF After(job[t], Installs(t)) = "none" THEN End(t)
       ELSE Move(t, After(job[t], Installs(t)))
    /\ UNCHANGED <<mode, lease, attention, requests, cut>>

\* A write of that call fails: it raises, and the handler goes on from there.
StoreFails(t) ==
    /\ WriteFails(t)
    /\ IF After(job[t], FALSE) = "none" THEN End(t) ELSE Move(t, After(job[t], FALSE))
    /\ cut' = cut \cup {job[t].id}
    /\ UNCHANGED <<mode, lease, attention, requests>>

-----------------------------------------------------------------------------
(* The environment.                                                        *)

World ==
    /\ ChangeRoute \/ Rebind \/ EditTree
    /\ UNCHANGED semi

\* The console dies: its requests and its leases are gone.
CrashConsole ==
    /\ Crash(Console)
    /\ job' = [t \in Thread |-> NoJob]
    /\ lease' = [i \in Identity |-> NoId]
    /\ cut' = (cut \cup {job[t].id : t \in Thread}) \ {NoId}
    /\ UNCHANGED <<mode, attention, requests>>

\* The burst of requests is served and the world is at rest.
Quiesce ==
    /\ requests = MaxRequests
    /\ \A t \in Thread : In(t, "none")
    /\ UNCHANGED allVars

ThreadStep(t) ==
    \/ RunStore(t) \/ RequireSemiAuto(t) \/ ReadArtifact(t) \/ GuardGet(t)
    \/ GuardSet(t) \/ RunTransport(t) \/ RecordError(t) \/ RaiseAttention(t)
    \/ Release(t)

SemiNext ==
    \/ \E t \in Thread, h \in Handoff : ServeStore(t, h) \/ ServeApproveAndSend(t, h)
    \/ \E t \in Thread : ThreadStep(t)
    \/ \E t \in Thread : StoreFails(t)
    \/ SetMode \/ World \/ CrashConsole \/ Quiesce

\* Every thread that can go on does: the lock's holder is never descheduled for
\* good, and a turn ends.  Receiving has a deadline, sending has none: a turn ends
\* if the app server reads what it is sent (CodexSession has the server that does not).
SemiFairness == \A t \in Thread : WF_allVars(ThreadStep(t))

SemiSafety == SemiInit /\ [][SemiNext]_allVars
SemiSpec == SemiSafety /\ SemiFairness

-----------------------------------------------------------------------------
(* Properties.                                                             *)

SemiTypeOK ==
    /\ TypeOK
    /\ mode \in Mode
    /\ lease \in [Identity -> Handoff \cup {NoId}]
    /\ job \in [Thread -> Job]
    /\ attention \in Handoff \cup {NoId}
    /\ requests \in 0 .. MaxRequests
    /\ cut \subseteq Handoff

\* The stages between the acquire and the release of a lease.
Leased == {"start", "turn", "complete", "error", "fail", "attention", "release"}

\* No lease outlives its request: a workspace is leased only while some request
\* that took that lease has still to release it, whichever way it ends.
LeaseIsHeld ==
    \A i \in Identity :
        lease[i] # NoId =>
            \E t \in Thread : /\ job[t].stage \in Leased
                             /\ job[t].id = lease[i]
                             /\ job[t].identity = i

\* A turn has one outcome: the handler that records a failure after an error
\* never adds one to a result that was recorded, unless it was the ledger's
\* write after the result's that failed.
OneOutcome == \A h \in Handoff : {"result", "failure"} \subseteq files[h] => h \in cut

\* A dispatch that started has its outcome in the ledger once its request is
\* over; only a crash or a failed write can leave it at SENT.  (A console audit line
\* that cannot be written after the start's ledger could do so too; it is left out.)
OutcomeRecorded ==
    \A h \in Handoff :
        started[h] > 0 =>
            \/ ledger[h].state \in {"COMPLETED", "FAILED"}
            \/ \E t \in Thread : job[t].stage \in Leased /\ job[t].id = h
            \/ h \in cut

\* Every request returns: it never waits for ever on the lock, the lease or
\* the transport.
RequestReturns == \A t \in Thread : ~ In(t, "none") ~> In(t, "none")

\* console/README.md: "only one DeveloperOS turn may hold a workspace lease at
\* once".  All handoffs here are bound to one workspace.
OneTurn ==
    \A t, u \in Thread :
        job[t].stage = "turn" /\ job[u].stage = "turn" => t = u
=============================================================================
