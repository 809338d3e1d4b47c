--------------------------- MODULE DispatchLedger ---------------------------
(***************************************************************************)
(* DispatchPreviewStore: the durable ledger of Codex handoffs.             *)
(*                                                                         *)
(* Every operation is a critical section under the store's lock: it reads  *)
(* the whole ledger file, checks the entry and the record files beside it, *)
(* writes one record file, and replaces the ledger with its edited copy    *)
(* through a temporary file of fixed name.  Approve and start additionally *)
(* inspect the ledger and re-verify the sealed envelope BEFORE they take   *)
(* the lock for good.                                                      *)
(*                                                                         *)
(* The lock lives in one process.  The console serves its requests from    *)
(* the threads of one process; a smoke runner is a process of its own that *)
(* opens the same directory with another lock.                             *)
(***************************************************************************)
EXTENDS Naturals

CONSTANTS
    Handoff,        \* workspace-bound handoffs, prepared and sent by the console
    Smoke,          \* handoffs of the smoke runners
    Thread,         \* request threads of the console process
    Runner,         \* smoke-runner processes, one thread each
    Console,        \* the console process
    Seal,           \* workspace fingerprints (branch, HEAD, git status)
    Protocol,       \* Codex runtime protocol versions
    NoActor, NoView, NoSeal, Undiscovered, NoId,
    MaxChurn        \* bound: environment changes and crashes in a behaviour

Actor == Thread \cup Runner
Id == Handoff \cup Smoke
Process == {Console} \cup Runner
Proc(a) == IF a \in Thread THEN Console ELSE a

ASSUME ActorAssumption ==
    /\ Thread \cap Runner = {}
    /\ Console \notin Runner
    /\ NoActor \notin Actor
ASSUME IdAssumption ==
    /\ Handoff \cap Smoke = {}
    /\ NoId \notin Id

LedgerState == {"ABSENT", "PREPARED", "DISPATCHABLE", "REJECTED", "SENT",
                "COMPLETED", "FAILED"}
Terminal == {"REJECTED", "COMPLETED", "FAILED"}
Record == {"artifact", "approval", "rejection", "attempt", "result",
           "failure", "binding"}

\* One ledger entry: its state, its actual_send_count, and whether it carries
\* the hash of a thread binding.
Entry == [state : LedgerState, sends : Nat, bound : BOOLEAN]
Absent == [state |-> "ABSENT", sends |-> 0, bound |-> FALSE]
Ledger == [Id -> Entry]

ASSUME ViewAssumption == NoView \notin Ledger

\* What an envelope seals of the outside world; also what an actor has read of it.
Binding == [seal : Seal \cup {NoSeal}, proto : Protocol \cup {Undiscovered}]
Blank == [seal |-> NoSeal, proto |-> Undiscovered]

VARIABLES
    ledger,     \* dispatch-ledger.json
    tmp,        \* .dispatch-ledger.json.tmp, or NoView when there is none
    files,      \* record files beside the ledger, per handoff
    envelope,   \* what the artifact of a handoff seals
    lock,       \* holder of each process's store lock
    pc,         \* the operation each actor is executing
    view,       \* the ledger an actor read inside its critical section
    seen,       \* what an actor's verification has read so far
    route,      \* does resolve_route accept the handoffs' route?
    ref,        \* the workspace seal in the worker node's transport_ref
    tree,       \* the actual Git state of the workspace
    proto,      \* the protocol the console process discovered
    started,    \* history: dispatches started, per handoff
    fresh,      \* history: sealed facts true at some instant since the approval
    churn       \* environment changes and crashes so far

disk == <<ledger, tmp, files, envelope>>
memory == <<lock, pc, view, seen>>
world == <<route, ref, tree, proto, churn>>
history == <<started, fresh>>
vars == <<ledger, tmp, files, envelope, lock, pc, view, seen,
          route, ref, tree, proto, started, fresh, churn>>

Idle == [op |-> "none", id |-> NoId, step |-> "idle"]
Op == {"none", "prepare", "approve", "reject", "start", "complete", "fail",
       "prepareSmoke", "bind", "transition"}
Step == {"idle", "called", "route", "tree", "proto", "ready",
         "checked", "written", "staged"}
InSection == {"checked", "written", "staged"}

Init ==
    /\ ledger = [i \in Id |-> Absent]
    /\ tmp = NoView
    /\ files = [i \in Id |-> {}]
    /\ envelope = [h \in Handoff |-> Blank]
    /\ lock = [p \in Process |-> NoActor]
    /\ pc = [a \in Actor |-> Idle]
    /\ view = [a \in Actor |-> NoView]
    /\ seen = [a \in Actor |-> Blank]
    /\ route = TRUE
    /\ ref \in Seal
    /\ tree \in Seal
    /\ proto \in Protocol \cup {Undiscovered}
    /\ started = [h \in Handoff |-> 0]
    /\ fresh = [h \in Handoff |-> {}]
    /\ churn = 0

-----------------------------------------------------------------------------
(* Calls.  An actor that is idle may call any operation of the store.      *)

Call(a, op, i, step) ==
    /\ pc[a] = Idle
    /\ pc' = [pc EXCEPT ![a] = [op |-> op, id |-> i, step |-> step]]
    /\ UNCHANGED <<disk, lock, view, seen, world, history>>

CallPrepare(t, h) == Call(t, "prepare", h, "route")
CallDecide(t, h) == \E op \in {"approve", "reject"} : Call(t, op, h, "called")
CallStart(t, h) == Call(t, "start", h, "called")
\* Its callers record an outcome only of a dispatch that has started.
CallFinish(t, h) ==
    /\ started[h] > 0
    /\ \E op \in {"complete", "fail"} : Call(t, op, h, "ready")
CallSmoke(r, s) ==
    \E op \in {"prepareSmoke", "bind", "transition", "complete", "fail"} :
        Call(r, op, s, "ready")

-----------------------------------------------------------------------------
(* Before the critical section: a first locked look at the ledger, then    *)
(* the unlocked verification of the sealed envelope.                       *)

At(a, op, step) == pc[a].op = op /\ pc[a].step = step
FreeAlways(a) == TRUE   \* mutant: no lock
Free(a) == lock[Proc(a)] = NoActor
Goto(a, step) == pc' = [pc EXCEPT ![a].step = step]

\* The operation raises (or returns) and forgets what it read.
Leave(a) ==
    /\ pc' = [pc EXCEPT ![a] = Idle]
    /\ seen' = [seen EXCEPT ![a] = Blank]

Proceed(a, ok, step) ==
    IF ok THEN Goto(a, step) /\ UNCHANGED seen ELSE Leave(a)

\* decide, first section: the entry must be PREPARED and the caller must name
\* the hash of its envelope.  Only an approval is verified further.
InspectDecision(a) ==
    /\ pc[a].op \in {"approve", "reject"} /\ pc[a].step = "called"
    /\ Free(a)
    /\ \E namesEnvelope \in BOOLEAN :
        Proceed(a, ledger[pc[a].id].state = "PREPARED" /\ namesEnvelope,
                IF pc[a].op = "approve" THEN "route" ELSE "ready")
    /\ UNCHANGED <<disk, lock, view, world, history>>

\* validate_dispatchable: DISPATCHABLE, with its approval record on disk.
InspectStart(a) ==
    /\ At(a, "start", "called")
    /\ Free(a)
    /\ Proceed(a, /\ ledger[pc[a].id].state = "DISPATCHABLE"
                  /\ "approval" \in files[pc[a].id], "route")
    /\ UNCHANGED <<disk, lock, view, world, history>>

\* resolve_route, and the seal in the destination's transport_ref.
ResolveRoute(a) ==
    /\ pc[a].step = "route"
    /\ IF route
       THEN /\ Goto(a, "tree")
            /\ seen' = [seen EXCEPT ![a].seal = ref]
       ELSE Leave(a)
    /\ UNCHANGED <<disk, lock, view, world, history>>

\* Mutant: the registered Git state is compared, the sealed one is not.
VerifyTreeUnsealed(a) ==
    /\ pc[a].step = "tree"
    /\ Proceed(a, tree = seen[a].seal, "proto")
    /\ UNCHANGED <<disk, lock, view, world, history>>

\* workspace_verifier: the Git state is the registered one and the sealed one.
VerifyTree(a) ==
    /\ pc[a].step = "tree"
    /\ Proceed(a, /\ tree = seen[a].seal
                  /\ \/ pc[a].op = "prepare"
                     \/ envelope[pc[a].id].seal = tree, "proto")
    /\ UNCHANGED <<disk, lock, view, world, history>>

\* transport_status: a discovered protocol, and the sealed one.
VerifyProtocol(a) ==
    /\ pc[a].step = "proto"
    /\ IF /\ proto # Undiscovered
          /\ pc[a].op = "prepare" \/ envelope[pc[a].id].proto = proto
       THEN /\ Goto(a, "ready")
            /\ seen' = [seen EXCEPT ![a].proto = proto]
       ELSE Leave(a)
    /\ UNCHANGED <<disk, lock, view, world, history>>

-----------------------------------------------------------------------------
(* The critical section, entered: the lock is taken, the ledger read, the  *)
(* entry and the record files checked.  Refused calls release the lock.    *)

\* Mutant: a refused call tries again instead of raising.
EnterRetries(a, from, blockers) ==
    /\ pc[a].step = "ready"
    /\ Free(a)
    /\ IF ledger[pc[a].id].state \in from /\ files[pc[a].id] \cap blockers = {}
       THEN /\ Goto(a, "checked")
            /\ lock' = [lock EXCEPT ![Proc(a)] = a]
            /\ view' = [view EXCEPT ![a] = ledger]
       ELSE UNCHANGED <<pc, lock, view>>
    /\ UNCHANGED <<seen, disk, world, history>>

\* Mutant: the ledger alone is believed, not the record files.
EnterByLedger(a, from, blockers) ==
    /\ pc[a].step = "ready"
    /\ Free(a)
    /\ IF ledger[pc[a].id].state \in from
       THEN /\ Goto(a, "checked")
            /\ lock' = [lock EXCEPT ![Proc(a)] = a]
            /\ view' = [view EXCEPT ![a] = ledger]
            /\ UNCHANGED seen
       ELSE /\ Leave(a)
            /\ UNCHANGED <<lock, view>>
    /\ UNCHANGED <<disk, world, history>>

Enter(a, from, blockers) ==
    /\ pc[a].step = "ready"
    /\ Free(a)
    /\ IF ledger[pc[a].id].state \in from /\ files[pc[a].id] \cap blockers = {}
       THEN /\ Goto(a, "checked")
            /\ lock' = [lock EXCEPT ![Proc(a)] = a]
            /\ view' = [view EXCEPT ![a] = ledger]
            /\ UNCHANGED seen
       ELSE /\ Leave(a)
            /\ UNCHANGED <<lock, view>>
    /\ UNCHANGED <<disk, world, history>>

EnterPrepare(a) == pc[a].op = "prepare" /\ Enter(a, {"ABSENT"}, {"artifact"})
EnterPrepareSmoke(a) ==
    pc[a].op = "prepareSmoke" /\ Enter(a, {"ABSENT"}, {"artifact"})
\* Mutant: an earlier decision file does not block a decision.
EnterDecideAgain(a) ==
    pc[a].op \in {"approve", "reject"} /\ Enter(a, {"PREPARED"}, {})
EnterDecide(a) ==
    /\ pc[a].op \in {"approve", "reject"}
    /\ Enter(a, {"PREPARED"}, {"approval", "rejection"})
EnterStart(a) ==
    /\ pc[a].op = "start"
    /\ Enter(a, {"DISPATCHABLE"}, {"attempt", "result", "failure"})
EnterComplete(a) == pc[a].op = "complete" /\ Enter(a, {"SENT"}, {"result"})
\* Mutants: a failure may follow a result; a failure may not follow SENT.
EnterFailLate(a) ==
    /\ pc[a].op = "fail"
    /\ Enter(a, {"PREPARED", "DISPATCHABLE", "SENT", "COMPLETED"}, {"failure"})
EnterFailEarly(a) ==
    pc[a].op = "fail" /\ Enter(a, {"PREPARED", "DISPATCHABLE"}, {"failure"})
EnterFail(a) ==
    /\ pc[a].op = "fail"
    /\ Enter(a, {"PREPARED", "DISPATCHABLE", "SENT"}, {"failure"})
\* An entry that already carries a binding hash also has the binding file.
EnterBind(a) == pc[a].op = "bind" /\ Enter(a, {"PREPARED"}, {"binding"})
\* transition(..., "SENT"), the only transition any caller asks for: no
\* record file, and the send count must come out as one.
EnterTransition(a) ==
    /\ pc[a].op = "transition"
    /\ Enter(a, IF ledger[pc[a].id].sends = 0 THEN {"PREPARED"} ELSE {}, {})

-----------------------------------------------------------------------------
(* The record file is written before the ledger.                           *)

\* The facts the envelope of a handoff seals that hold at this instant.
Holding(h) ==
    {c \in {"route", "tree", "proto"} :
        CASE c = "route" -> route
          [] c = "tree" -> envelope[h].seal = tree
          [] c = "proto" -> envelope[h].proto = proto}

RecordOf == [prepare |-> "artifact", prepareSmoke |-> "artifact",
             approve |-> "approval", reject |-> "rejection",
             start |-> "attempt", complete |-> "result", fail |-> "failure",
             bind |-> "binding"]

WriteRecord(a) ==
    /\ pc[a].step = "checked"
    /\ Goto(a, "written")
    /\ files' = IF pc[a].op = "transition" THEN files
                ELSE [files EXCEPT ![pc[a].id] = @ \cup {RecordOf[pc[a].op]}]
    /\ envelope' = IF pc[a].op = "prepare"
                   THEN [envelope EXCEPT ![pc[a].id] = seen[a]]
                   ELSE envelope
    /\ fresh' = IF pc[a].op = "approve"
                THEN [fresh EXCEPT ![pc[a].id] = Holding(pc[a].id)] ELSE fresh
    /\ UNCHANGED <<ledger, tmp, lock, view, seen, world, started>>

\* The entry each operation leaves in its copy of the ledger.
PreparedEntry == [Absent EXCEPT !.state = "PREPARED"]
ApprovedEntry(e) == [e EXCEPT !.state = "DISPATCHABLE"]
RejectedEntry(e) == [e EXCEPT !.state = "REJECTED"]
StartedEntry(e) == [e EXCEPT !.state = "SENT", !.sends = 1]
TransitionEntry(e) == [e EXCEPT !.state = "SENT", !.sends = @ + 1]
CompletedEntry(e) == [e EXCEPT !.state = "COMPLETED"]
FailedEntryCompletes(e) == [e EXCEPT !.state = "COMPLETED"]    \* mutant
FailedEntry(e) == [e EXCEPT !.state = "FAILED"]
BoundEntry(e) == [e EXCEPT !.bound = TRUE]

NewEntry(op, e) ==
    CASE op \in {"prepare", "prepareSmoke"} -> PreparedEntry
      [] op = "approve" -> ApprovedEntry(e)
      [] op = "reject" -> RejectedEntry(e)
      [] op = "start" -> StartedEntry(e)
      [] op = "transition" -> TransitionEntry(e)
      [] op = "complete" -> CompletedEntry(e)
      [] op = "fail" -> FailedEntry(e)
      [] op = "bind" -> BoundEntry(e)

\* _write_ledger, first half: the edited copy goes to the temporary file.
StageLedger(a) ==
    /\ pc[a].step = "written"
    /\ Goto(a, "staged")
    /\ tmp' = [view[a] EXCEPT ![pc[a].id] = NewEntry(pc[a].op, @)]
    /\ UNCHANGED <<ledger, files, envelope, lock, view, seen, world, history>>

\* _write_ledger, second half: os.replace.  Another process that staged its
\* copy in between has its bytes installed instead; one whose temporary file
\* is gone fails (FileNotFoundError) and the operation raises.
Installs(a) == pc[a].step = "staged" /\ tmp # NoView

InstallLedger(a) ==
    /\ pc[a].step = "staged"
    /\ IF tmp # NoView THEN ledger' = tmp ELSE UNCHANGED ledger
    /\ tmp' = NoView
    /\ started' = IF Installs(a) /\ pc[a].op = "start"
                  THEN [started EXCEPT ![pc[a].id] = @ + 1] ELSE started
    /\ Leave(a)
    /\ lock' = [lock EXCEPT ![Proc(a)] = NoActor]
    /\ view' = [view EXCEPT ![a] = NoView]
    /\ UNCHANGED <<files, envelope, world, fresh>>

-----------------------------------------------------------------------------
(* The outside world, and crashes.                                         *)

\* Approved handoffs collect the sealed facts that become true.
Refresh ==
    fresh' = [h \in Handoff |->
                IF "approval" \in files[h] THEN fresh[h] \cup Holding(h)'
                ELSE fresh[h]]

Change ==
    /\ churn < MaxChurn
    /\ churn' = churn + 1
    /\ UNCHANGED <<disk, started>>

\* An operator edits the graph or switches the Mainline authority.
ChangeRoute ==
    /\ Change
    /\ route' = ~route
    /\ UNCHANGED <<memory, ref, tree, proto>>
    /\ Refresh

\* MainlineDispatchBridge.prepare captures the workspace and updates the node.
Rebind ==
    /\ Change
    /\ ref' = tree
    /\ UNCHANGED <<memory, route, tree, proto>>
    /\ Refresh

\* Anyone edits the workspace.
EditTree ==
    /\ Change
    /\ tree' \in Seal \ {tree}
    /\ UNCHANGED <<memory, route, ref, proto>>
    /\ Refresh

\* A process dies between any two steps and is started again: its lock and
\* its operations are gone, every file stays.  The console discovers the
\* protocol once per process.
Crash(p) ==
    /\ Change
    /\ pc' = [a \in Actor |-> IF Proc(a) = p THEN Idle ELSE pc[a]]
    /\ view' = [a \in Actor |-> IF Proc(a) = p THEN NoView ELSE view[a]]
    /\ seen' = [a \in Actor |-> IF Proc(a) = p THEN Blank ELSE seen[a]]
    /\ lock' = [lock EXCEPT ![p] = NoActor]
    /\ proto' \in IF p = Console THEN Protocol \cup {Undiscovered} ELSE {proto}
    /\ UNCHANGED <<route, ref, tree>>
    /\ Refresh

\* A write fails: the operation raises and gives the lock back; what it has
\* written stays, and so does a temporary file that was not installed.
WriteFails(a) ==
    /\ pc[a].step \in InSection
    /\ Change
    /\ Leave(a)
    /\ lock' = [lock EXCEPT ![Proc(a)] = NoActor]
    /\ view' = [view EXCEPT ![a] = NoView]
    /\ UNCHANGED <<route, ref, tree, proto, fresh>>

Environment ==
    \/ ChangeRoute \/ Rebind \/ EditTree
    \/ \E p \in Process : Crash(p)
    \/ \E a \in Actor : WriteFails(a)

Calls ==
    \/ \E t \in Thread, h \in Handoff :
        CallPrepare(t, h) \/ CallDecide(t, h) \/ CallStart(t, h) \/ CallFinish(t, h)
    \/ \E r \in Runner, s \in Smoke : CallSmoke(r, s)

StoreStep(a) ==
    \/ InspectDecision(a) \/ InspectStart(a)
    \/ ResolveRoute(a) \/ VerifyTree(a) \/ VerifyProtocol(a)
    \/ EnterPrepare(a) \/ EnterPrepareSmoke(a) \/ EnterDecide(a) \/ EnterStart(a)
    \/ EnterComplete(a) \/ EnterFail(a) \/ EnterBind(a) \/ EnterTransition(a)
    \/ WriteRecord(a) \/ StageLedger(a) \/ InstallLedger(a)

Next == Calls \/ (\E a \in Actor : StoreStep(a)) \/ Environment

Spec == Init /\ [][Next]_vars

-----------------------------------------------------------------------------
(* Properties.                                                             *)

\* Every variable has its type; an actor's copy of the ledger exists exactly
\* while it is inside the critical section.
TypeOK ==
    /\ ledger \in Ledger
    /\ tmp \in Ledger \cup {NoView}
    /\ files \in [Id -> SUBSET Record]
    /\ envelope \in [Handoff -> Binding]
    /\ lock \in [Process -> Actor \cup {NoActor}]
    /\ pc \in [Actor -> [op : Op, id : Id \cup {NoId}, step : Step]]
    /\ view \in [Actor -> Ledger \cup {NoView}]
    /\ seen \in [Actor -> Binding]
    /\ route \in BOOLEAN /\ ref \in Seal /\ tree \in Seal
    /\ proto \in Protocol \cup {Undiscovered}
    /\ started \in [Handoff -> Nat]
    /\ fresh \in [Handoff -> SUBSET {"route", "tree", "proto"}]
    /\ churn \in Nat
    /\ \A a \in Actor : pc[a].step \in InSection <=> view[a] # NoView

\* Exactly once: whatever the threads race, whatever another process writes
\* over the ledger and wherever a process crashes, start_dispatch succeeds at
\* most once for a handoff.
AtMostOneStart == \A h \in Handoff : started[h] <= 1

\* How far the record files of a handoff have got.
Reached(h) ==
    IF files[h] \cap {"result", "failure"} # {} THEN "settled"
    ELSE IF "attempt" \in files[h] THEN "consumed"
    ELSE IF "rejection" \in files[h] THEN "rejected"
    ELSE IF "approval" \in files[h] THEN "approved"
    ELSE IF "artifact" \in files[h] THEN "proposed"
    ELSE "none"

Promise == INSTANCE ExactlyOnceDispatch
               WITH phase <- [h \in Handoff |-> Reached(h)], sent <- started

\* The record files, not the ledger, carry the protocol: propose, decide once,
\* consume once, send once, settle.  They do so even where the ledger itself
\* loses updates.
ExactlyOnce == Promise!Spec

\* Write-ahead: the ledger (and any copy about to replace it) never claims a
\* step whose record file is not on disk.
Backed(l) ==
    \A i \in Id :
        /\ l[i].state # "ABSENT" => "artifact" \in files[i]
        /\ l[i].state = "DISPATCHABLE" => "approval" \in files[i]
        /\ l[i].state = "REJECTED" => "rejection" \in files[i]
        /\ l[i].state = "SENT" /\ i \in Handoff => "attempt" \in files[i]
        /\ l[i].state = "COMPLETED" => "result" \in files[i]
        /\ l[i].state = "FAILED" => "failure" \in files[i]
        /\ l[i].bound => "binding" \in files[i]
LedgerBacked == Backed(ledger) /\ (tmp # NoView => Backed(tmp))

\* A started turn was verified after its approval: each of the facts its
\* envelope seals (route, Git state, protocol) was true at some instant
\* between the approval's commit and the start.
StartIsFresh ==
    \A h \in Handoff : started[h] > 0 => fresh[h] = {"route", "tree", "proto"}

\* With one process the ledger entry of a handoff only advances, and REJECTED,
\* COMPLETED and FAILED are final: no thread's copy undoes another's commit.
Rank(state) ==
    CASE state = "ABSENT" -> 0
      [] state = "PREPARED" -> 1
      [] state = "DISPATCHABLE" -> 2
      [] state = "SENT" -> 3
      [] state \in Terminal -> 4
LedgerAdvances ==
    [][\A i \in Id :
         /\ Rank(ledger[i].state) <= Rank(ledger'[i].state)
         /\ ledger[i].state \in Terminal => ledger'[i] = ledger[i]]_vars
=============================================================================
