---------------------------- MODULE CodexSession ----------------------------
(***************************************************************************)
(* One handoff on its way through a Codex app server: a runner launches    *)
(* the server, talks to it over a pipe through CodexAppServerAdapter, and  *)
(* records what became of the turn.  The runners are the dispatcher of the *)
(* console, codex_dispatch_once and the two smoke runners; they take the   *)
(* same steps in different orders.                                         *)
(*                                                                         *)
(* The server is external: it answers a request or not, and in between     *)
(* sends notifications, approval requests, requests of its own and lines   *)
(* that are no JSON, stops reading, or exits.  Under WSL the process the   *)
(* runner holds, and closes, is wsl.exe; what becomes of the server inside *)
(* is not modelled.                                                        *)
(***************************************************************************)
EXTENDS Naturals, FiniteSets, Sequences, SequencesExt

CONSTANTS
    Runner,     \* the runners looked at
    MaxNotes,   \* bound: notifications of the server
    MaxForeign  \* bound: requests of the server's own

ASSUME RunnerAssumption == Runner \subseteq {"dispatcher", "once", "smoke", "wsl"}
ASSUME BoundAssumption == MaxNotes \in Nat /\ MaxForeign \in Nat

VARIABLES
    runner,
    todo,       \* what the runner still has to do
    handling,   \* has an exception been raised
    requestId, waiting, \* the adapter's last request, and the one it waits for
    pending,    \* _pending_events
    events,     \* what receive_turn has collected
    status,     \* of the turn, as receive_turn returned it
    inbox,      \* requests the server has not answered
    wire,       \* messages of the server that were not received
    alive, reading, \* the server runs; the reader thread reads
    deaf,       \* the server reads no more, and the pipe to it is full
    turn,       \* of the worker
    told,       \* history: the notifications and foreign requests sent
    asked,      \* history: the worker asked for an approval
    handoff,    \* its state in the dispatch ledger
    lease,      \* the workspace's
    probe       \* the preflight and the server it tries

client == <<requestId, waiting, pending, events, status>>
server == <<inbox, wire, alive, reading, deaf, turn, told, asked>>
vars == <<runner, todo, handling, requestId, waiting, pending, events, status, inbox,
          wire, alive, reading, deaf, turn, told, asked, handoff, lease, probe>>

Method == {"thread", "started", "message", "tool", "completed", "failed",
           "interrupted", "foreign"}
Ending == {"completed", "failed", "interrupted"}
Kind == {"response", "error", "note", "request", "approval", "broken", "exit"}
Message == [kind : Kind, id : Nat, method : Method \cup {"none"}]
Msg(kind, id, method) == [kind |-> kind, id |-> id, method |-> method]
Notification(m) == m.kind \in {"note", "request"}

Requests == {"initialize", "thread", "turn"}

\* What the runners do, in order.
Dispatcher == <<"lease", "send", "preflight", "spawn", "initialize", "thread",
                "turn", "receive", "close", "record", "release">>
Once == <<"preflight", "lease", "verify", "send", "spawn", "initialize",
          "thread", "turn", "receive", "verify", "record", "close", "release">>
Smoke == <<"preflight", "verify", "spawn", "initialize", "thread", "bind", "send",
           "turn", "receive", "inspect", "record", "close", "resend">>
\* ... and under WSL, in a scratch workspace of its own.
WslSmoke == Smoke
Script == [dispatcher |-> Dispatcher, once |-> Once, smoke |-> Smoke, wsl |-> WslSmoke]

Init ==
    /\ runner \in Runner /\ todo = Script[runner]
    /\ handling = FALSE
    /\ requestId = 0 /\ waiting = 0 /\ pending = <<>> /\ events = <<>>
    /\ status = "none"
    /\ inbox = <<>> /\ wire = <<>> /\ alive = FALSE /\ reading = FALSE /\ deaf = FALSE
    /\ turn = "none" /\ told = <<>> /\ asked = FALSE
    /\ handoff = "PREPARED" /\ lease = FALSE /\ probe = "none"

-----------------------------------------------------------------------------
(* Helpers.                                                                *)

Methods(messages) == {messages[i].method : i \in DOMAIN messages}
Do(step) == todo # <<>> /\ Head(todo) = step
Done == todo' = Tail(todo)

\* The except and finally blocks.  The dispatcher's transport closes the server
\* in a finally block of its own, before the failure is recorded; the smoke runners
\* have such blocks from the server's launch to its close only.
InTry == ~Contains(todo, "spawn") /\ Contains(todo, "close")
Closing == IF alive THEN <<"close">> ELSE <<>>
Sent == IF handoff = "SENT" THEN <<"fail">> ELSE <<>>
\* Mutant: the failure is recorded first, as the other runners do.
HandlerFailsFirst ==
    CASE runner = "dispatcher" -> Sent \o Closing \o <<"release">>
      [] runner = "once" -> IF lease THEN <<"fail">> \o Closing \o <<"release">> ELSE <<>>
      [] runner \in {"smoke", "wsl"} -> IF InTry THEN <<"fail">> \o Closing ELSE <<>>
Handler ==
    CASE runner = "dispatcher" -> Closing \o Sent \o <<"release">>
      [] runner = "once" -> IF lease THEN <<"fail">> \o Closing \o <<"release">> ELSE <<>>
      [] runner \in {"smoke", "wsl"} -> IF InTry THEN <<"fail">> \o Closing ELSE <<>>
Raise ==
    /\ todo' = Handler /\ handling' = TRUE /\ waiting' = 0
    /\ UNCHANGED <<requestId, pending, events, status>>
Through(step) == Do(step) /\ Done /\ UNCHANGED <<runner, handling, client>>

-----------------------------------------------------------------------------
(* The steps that need no answer.                                          *)

Probing == probe \in {"up", "greeted"}

Lease ==
    /\ Through("lease") /\ lease' = TRUE
    /\ UNCHANGED <<server, handoff, probe>>
\* start_dispatch, or the smoke runners' transition.
Send ==
    /\ Through("send") /\ handoff' = "SENT"
    /\ UNCHANGED <<server, lease, probe>>
\* The smoke runners send again, to see it refused: only a PREPARED handoff moves.
Resend ==
    /\ Through("resend") /\ handoff' = IF handoff = "PREPARED" THEN "SENT" ELSE handoff
    /\ UNCHANGED <<server, lease, probe>>
\* Workspace checks, bind and inspect change nothing.
Look ==
    /\ \/ Through("verify") \/ Through("bind")
       \/ Through("inspect") /\ "started" \in Methods(events) /\ "tool" \notin Methods(events)
    /\ UNCHANGED <<server, handoff, lease, probe>>
Spawn ==
    /\ Through("spawn")
    /\ alive' = TRUE /\ reading' = TRUE
    /\ UNCHANGED <<inbox, wire, deaf, turn, told, asked, handoff, lease, probe>>
\* Only a completed turn is recorded as one.
Record ==
    /\ Through("record") /\ status = "completed"
    /\ handoff' = "COMPLETED"
    /\ UNCHANGED <<server, lease, probe>>
Fail ==
    /\ Through("fail")
    /\ handoff' = IF handoff \in {"PREPARED", "SENT"} THEN "FAILED" ELSE handoff
    /\ UNCHANGED <<server, lease, probe>>
\* The process is terminated, or killed.
Close ==
    /\ Through("close")
    /\ alive' = FALSE /\ reading' = FALSE
    /\ UNCHANGED <<inbox, wire, deaf, turn, told, asked, handoff, lease, probe>>
Release ==
    /\ Through("release") /\ lease' = FALSE
    /\ UNCHANGED <<server, handoff, probe>>

\* Most of them may fail, and the console's lease may be another's.
Breaks ==
    /\ ~handling
    /\ \E step \in {"send", "preflight", "verify", "bind", "spawn", "inspect", "record", "resend"} :
        Do(step) /\ (step = "preflight" => ~Probing)
    /\ Raise
    /\ UNCHANGED <<runner, server, handoff, lease, probe>>
LeaseBusy ==
    /\ runner = "dispatcher" /\ Do("lease") /\ todo' = <<>>
    /\ UNCHANGED <<runner, handling, client, server, handoff, lease, probe>>

-----------------------------------------------------------------------------
(* The preflight, which tries the handshake with a server of its own.      *)

InPreflight(from, to) ==
    /\ Do("preflight") /\ probe \in from /\ probe' = to
    /\ UNCHANGED <<runner, server, handoff, lease>>
\* The protocol of the installed command and, under WSL, its login are looked up.
Discover == InPreflight({"none"}, "found") /\ UNCHANGED <<todo, handling, client>>
Try == InPreflight({"found"}, "up") /\ UNCHANGED <<todo, handling, client>>
\* It answers and is still there a moment later (what it is sent fits in a new pipe) ...
Greet == InPreflight({"up"}, "greeted") /\ UNCHANGED <<todo, handling, client>>
\* ... or it does not; the finally block closes it.
CloseProbe ==
    /\ InPreflight({"up", "greeted"}, "closed")
    /\ IF probe = "greeted" THEN Done /\ UNCHANGED <<handling, client>> ELSE Raise

-----------------------------------------------------------------------------
(* CodexAppServerAdapter.                                                  *)

\* _request sends; a server that has exited is noticed.  A message the pipe has no
\* room for waits until the server reads or exits: send has no deadline.  (The
\* notice that initialize sends behind its answer waits with the next request.)
Request(r) ==
    /\ Do(r) /\ waiting = 0
    /\ IF alive
       THEN /\ ~deaf
            /\ requestId' = requestId + 1 /\ waiting' = requestId + 1
            /\ inbox' = Append(inbox, r)
            /\ UNCHANGED <<todo, handling, pending, events, status>>
       ELSE Raise /\ UNCHANGED inbox
    /\ UNCHANGED <<runner, wire, alive, reading, deaf, turn, told, asked, handoff, lease, probe>>

\* ... and receives until its answer is there.  Whatever has a method and is not
\* an approval request is kept for the turn.
\* Mutant: notifications that come before the answer are dropped.
KeepNothing(m) == UNCHANGED pending
Keep(m) == pending' = IF Notification(m) THEN Append(pending, m) ELSE pending
\* Mutant: approval requests are dropped as well.
StopsUnasked(m) == m.kind \in {"broken", "exit"}
Stops(m) == m.kind \in {"broken", "exit", "approval"}
ReceiveAnswer ==
    /\ waiting > 0 /\ wire # <<>>
    /\ LET m == Head(wire) IN
        /\ wire' = Tail(wire)
        /\ CASE Stops(m) -> Raise
             [] m.kind = "response" /\ m.id = waiting ->
                    Done /\ waiting' = 0 /\ UNCHANGED <<handling, requestId, pending, events, status>>
             [] m.kind \in {"error", "request"} /\ m.id = waiting -> Raise
             [] OTHER -> Keep(m) /\ UNCHANGED <<todo, handling, requestId, waiting, events, status>>
    /\ UNCHANGED <<runner, inbox, alive, reading, deaf, turn, told, asked, handoff, lease, probe>>

\* receive_turn takes what was kept first.
ReceiveEvent ==
    /\ Do("receive") /\ pending \o wire # <<>>
    /\ LET m == Head(pending \o wire) IN
        /\ IF pending # <<>> THEN wire' = wire ELSE wire' = Tail(wire)
        /\ IF m.method \in Method \ {"foreign"} /\ Notification(m)
           THEN /\ events' = Append(events, m)
                /\ pending' = IF pending # <<>> THEN Tail(pending) ELSE pending
                /\ IF m.method \in Ending
                   THEN status' = m.method /\ Done
                   ELSE UNCHANGED <<status, todo>>
                /\ UNCHANGED <<handling, requestId, waiting>>
           ELSE Raise
    /\ UNCHANGED <<runner, inbox, alive, reading, deaf, turn, told, asked, handoff, lease, probe>>

\* The deadline is looked at before the pipe.
\* Mutant: only answers have a deadline.
TimeOutAnswer ==
    /\ waiting > 0
    /\ Raise
    /\ UNCHANGED <<runner, server, handoff, lease, probe>>
TimeOut ==
    /\ waiting > 0 \/ (Do("receive") /\ pending = <<>>)
    /\ Raise
    /\ UNCHANGED <<runner, server, handoff, lease, probe>>

-----------------------------------------------------------------------------
(* The app server.                                                         *)

\* Every line goes through the reader thread, until it stops reading; what comes
\* after an exception is never received.
Write(m) ==
    /\ alive
    /\ IF reading /\ ~handling
       THEN /\ wire' = Append(wire, m)
            /\ told' = IF Notification(m) THEN Append(told, m) ELSE told
       ELSE UNCHANGED <<wire, told>>
Answer ==
    /\ inbox # <<>> /\ inbox' = Tail(inbox)
    /\ \E kind \in {"response", "error"} :
        /\ Write(Msg(kind, requestId, "none"))
        /\ turn' = IF kind = "error" /\ Head(inbox) = "turn" /\ turn = "none" THEN "refused" ELSE turn
    /\ UNCHANGED <<runner, todo, handling, client, alive, reading, deaf, asked, handoff, lease, probe>>
\* The worker starts as soon as it is asked to, before or after the answer.
Begin ==
    /\ turn = "none" /\ requestId = 3
    /\ Write(Msg("note", 0, "started")) /\ turn' = "running"
    /\ UNCHANGED <<runner, todo, handling, client, inbox, alive, reading, deaf, asked, handoff, lease, probe>>
\* Notifications of the thread, the worker's items, the end of another turn.
Notify ==
    /\ ~handling /\ Len(told) < MaxNotes
    /\ \E method \in {"thread", "message", "tool", "foreign"} :
        /\ IF method = "thread" THEN requestId > 0 /\ turn = "none" ELSE turn = "running"
        /\ Write(Msg("note", 0, method))
    /\ UNCHANGED <<runner, todo, handling, client, inbox, alive, reading, deaf, turn, asked, handoff, lease, probe>>
Finish ==
    /\ turn = "running"
    /\ turn' \in Ending /\ Write(Msg("note", 0, turn'))
    /\ UNCHANGED <<runner, todo, handling, client, inbox, alive, reading, deaf, asked, handoff, lease, probe>>
Ask ==
    /\ turn = "running" /\ ~asked /\ asked' = TRUE
    /\ Write(Msg("approval", 0, "none"))
    /\ UNCHANGED <<runner, todo, handling, client, inbox, alive, reading, deaf, turn, handoff, lease, probe>>
\* A request of its own, under a number of its own that may be the adapter's too.
Foreign ==
    /\ ~handling /\ Len(SelectSeq(told, LAMBDA m : m.kind = "request")) < MaxForeign
    /\ requestId > 0
    /\ \E id \in {0, requestId} : Write(Msg("request", id, "thread"))
    /\ UNCHANGED <<runner, todo, handling, client, inbox, alive, reading, deaf, turn, asked, handoff, lease, probe>>
\* A line that is no JSON stops the reader, an exit ends it.
Break ==
    /\ reading /\ reading' = FALSE
    /\ \/ Write(Msg("broken", 0, "none")) /\ alive' = alive
       \/ Write(Msg("exit", 0, "none")) /\ alive' = FALSE
    /\ UNCHANGED <<runner, todo, handling, client, inbox, deaf, turn, asked, handoff, lease, probe>>
\* It stops reading, and what is written fills the pipe.
Stall ==
    /\ alive /\ ~deaf /\ deaf' = TRUE
    /\ UNCHANGED <<runner, todo, handling, client, inbox, wire, alive, reading, turn, told, asked,
                   handoff, lease, probe>>

RunnerNext ==
    \/ Lease \/ Send \/ Resend \/ Look \/ Spawn \/ Record \/ Fail \/ Close \/ Release
    \/ Breaks \/ LeaseBusy
    \/ Discover \/ Try \/ Greet \/ CloseProbe
    \/ (\E r \in Requests : Request(r)) \/ ReceiveAnswer \/ ReceiveEvent \/ TimeOut
Tells == Answer \/ Begin \/ Notify \/ Finish \/ Ask \/ Foreign \/ Break
ServerNext == Tells \/ Stall
\* The runner waits for room in the pipe of a server that lives and reads nothing.
Stuck == alive /\ deaf /\ \E r \in Requests : Do(r) /\ waiting = 0

\* The runner is through, or waits for good.
Over == (todo = <<>> \/ Stuck) /\ UNCHANGED vars
Next == RunnerNext \/ ServerNext \/ Over

\* The runner is one thread that is scheduled, and whatever it waits to receive has
\* a deadline; a send has none.  Nothing is expected of the server.
SessionSpec == Init /\ [][Next]_vars /\ WF_vars(RunnerNext)

-----------------------------------------------------------------------------
(* Properties.                                                             *)

TypeOK ==
    /\ runner \in Runner
    /\ \A i \in DOMAIN todo : todo[i] \in Range(Script[runner]) \cup {"fail"}
    /\ requestId \in 0..3 /\ waiting \in {0, requestId}
    /\ pending \in Seq(Message) /\ events \in Seq(Message) /\ wire \in Seq(Message)
    /\ inbox \in Seq(Requests) /\ status \in Ending \cup {"none"}
    /\ turn \in Ending \cup {"none", "running", "refused"}
    /\ handoff \in {"PREPARED", "SENT", "COMPLETED", "FAILED"}
    /\ probe \in {"none", "found", "up", "greeted", "closed"}
    /\ {handling, alive, reading, deaf, asked, lease} \subseteq BOOLEAN

\* The notifications among the first i messages of s.
Notes(s, i) == {j \in 1 .. i : Notification(s[j])}

\* As long as the adapter has raised nothing, no notification is lost, repeated or
\* moved before another, whether it came while an answer was awaited or the turn:
\* what was told is what was collected, then what is kept, then, one by one, the
\* notifications on the wire.
EventsComplete ==
    ~handling =>
        LET taken == events \o pending
            place(i) == Len(taken) + Cardinality(Notes(wire, i))
        IN /\ Len(told) = place(Len(wire))
           /\ \A i \in DOMAIN taken : told[i] = taken[i]
           /\ \A i \in DOMAIN wire : Notification(wire[i]) => told[place(i)] = wire[i]

\* A worker acts under the lease of its workspace, and the dispatcher, which
\* serves further requests, settles a handoff only when its worker is stopped.  The
\* preflight's server is gone before the worker's is launched, and neither outlives
\* the runner, whatever failed on the way.
WorkerIsStopped ==
    /\ alive /\ runner \notin {"smoke", "wsl"} => lease
    /\ runner = "dispatcher" /\ handoff \in {"COMPLETED", "FAILED"} => ~alive
    /\ Probing => ~alive
    /\ todo = <<>> => ~alive /\ ~Probing

\* A turn is recorded as completed only if the worker completed it and asked for
\* no approval on the way: a request for the user's decision is never passed over.
CompletedUnasked == handoff = "COMPLETED" => turn = "completed" /\ ~asked

\* Whatever the server does or leaves undone, the runner comes to its end, unless
\* the server stops reading for ever and a send waits for it: that is the one wait
\* of the adapter without a deadline, and the exit of the server ends it.
SessionEnds == <>(todo = <<>>) \/ <>[]Stuck
=============================================================================
