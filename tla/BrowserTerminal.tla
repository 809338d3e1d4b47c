-------------------------- MODULE BrowserTerminal --------------------------
(***************************************************************************)
(* One browser terminal session: TerminalHandler._open_terminal between a  *)
(* WebSocket client and a shell on a pseudo-terminal (PtySession).         *)
(*                                                                         *)
(* The handler loops: is the shell alive, select, at most one read of      *)
(* output, at most one frame; every way out of the loop goes through the   *)
(* finally block.  The client and the shell act in between.  A frame is    *)
(* what the handler makes of it; "part" is one whose rest may never come.  *)
(* The sockets have no timeout: a send to a client that has stopped        *)
(* reading, and a receive in the middle of a frame, wait for the client.   *)
(***************************************************************************)
EXTENDS Naturals, Sequences

CONSTANTS
    MaxFrame,       \* bound on the frames the client sends
    MaxOutput       \* bound on the chunks the shell prints

ASSUME TerminalAssumption == MaxFrame \in Nat /\ MaxOutput \in Nat

Frame == {"input", "resize", "ping", "close", "bad"}

VARIABLES
    at,         \* the handler's next step
    ready,      \* what select found readable
    fd,         \* the master side of the pseudo-terminal, "lost" if nothing will close it
    shell,      \* the child process; an exited one is a zombie until reaped
    output,     \* chunks printed and not read yet
    inbox,      \* frames sent and not received yet
    client,     \* "open", "stalled" (it stays and never reads again) or "gone"
    sent, printed,      \* how much the client and the shell have done
    audit       \* the session's lines in the audit file

terminalVars == <<at, ready, fd, shell, output, inbox, client, sent, printed, audit>>
outside == <<shell, output, inbox, client, sent, printed>>

TerminalInit ==
    /\ at = "opening" /\ ready = {} /\ fd = "none" /\ shell = "none"
    /\ output = 0 /\ inbox = <<>> /\ client = "open"
    /\ sent = 0 /\ printed = 0 /\ audit = <<>>

-----------------------------------------------------------------------------
(* The handler.                                                            *)

Goto(step) == at' = step
Reap == shell' = IF shell = "exited" THEN "reaped" ELSE shell

\* The session is audited, then forked.  The fork may fail; so may what follows it
\* (set_blocking, resize), and then no PtySession is there to be closed.
Open ==
    /\ at = "opening"
    /\ audit' = Append(audit, "opened")
    /\ \/ Goto("alive") /\ fd' = "open" /\ shell' = "running"
       \/ Goto("telling") /\ UNCHANGED <<fd, shell>>
       \/ Goto("telling") /\ fd' = "lost" /\ shell' = "running"
    /\ UNCHANGED <<ready, output, inbox, client, sent, printed>>

\* waitpid without waiting reaps a shell that has exited.
Alive ==
    /\ at = "alive" /\ Reap
    /\ Goto(IF shell = "running" THEN "select" ELSE "hangup")
    /\ UNCHANGED <<ready, fd, output, inbox, client, sent, printed, audit>>

\* A terminal whose shell is gone, and a socket whose peer is gone, are readable.
Readable ==
    {x \in {"fd", "socket"} :
        \/ x = "fd" /\ (output > 0 \/ shell # "running")
        \/ x = "socket" /\ (inbox # <<>> \/ client = "gone")}
StepFor(found) == IF "fd" \in found THEN "output" ELSE IF "socket" \in found THEN "frame" ELSE "alive"
Select ==
    /\ at = "select"
    /\ ready' = Readable /\ Goto(StepFor(Readable))
    /\ UNCHANGED <<fd, outside, audit>>

AfterOutput == IF "socket" \in ready THEN "frame" ELSE "alive"

\* One chunk goes to the client; a send to a client that is gone may raise, one to
\* a client that does not read does not return.
RelayOutput ==
    /\ at = "output" /\ output > 0 /\ client # "stalled"
    /\ output' = output - 1
    /\ \/ Goto(AfterOutput)
       \/ client = "gone" /\ Goto("hangup")
    /\ UNCHANGED <<ready, fd, shell, inbox, client, sent, printed, audit>>
\* Nothing to read: the end of the terminal, if the shell is gone.
EndOfOutput ==
    /\ at = "output" /\ output = 0 /\ Reap
    /\ Goto(IF shell = "running" THEN AfterOutput ELSE "hangup")
    /\ UNCHANGED <<ready, fd, output, inbox, client, sent, printed, audit>>

\* One frame is received whole and answered, a ping with a pong.  A bad frame, and
\* input that finds the terminal full or closed, raise; so may a pong to nobody.
ReceiveFrame ==
    /\ at = "frame" /\ inbox # <<>> /\ Head(inbox) \in Frame
    /\ Head(inbox) = "ping" => client # "stalled"
    /\ inbox' = Tail(inbox)
    /\ \/ Head(inbox) \in {"input", "resize", "ping"} /\ Goto("alive")
       \/ Head(inbox) \in {"close", "bad"} /\ Goto("hangup")
       \/ Head(inbox) \in {"bad", "input"} /\ Goto("telling")
       \/ Head(inbox) = "ping" /\ client = "gone" /\ Goto("hangup")
    /\ UNCHANGED <<ready, fd, shell, output, client, sent, printed, audit>>
\* Mutant: in the middle of a frame, the end of the socket is not noticed.
LostBetween ==
    /\ at = "frame" /\ client = "gone" /\ inbox = <<>>
    /\ Goto("hangup")
    /\ UNCHANGED <<ready, fd, outside, audit>>
\* The socket ends where a frame, or the rest of one, should be.
LostClient ==
    /\ at = "frame" /\ client = "gone"
    /\ inbox \in {<<>>, <<"part">>}
    /\ Goto("hangup")
    /\ UNCHANGED <<ready, fd, outside, audit>>

\* The handler of the errors that are the session's own sends a close frame.
Tell ==
    /\ at = "telling" /\ client # "stalled"
    /\ Goto(IF fd = "open" THEN "hangup" ELSE "closed")
    /\ UNCHANGED <<ready, fd, outside, audit>>

-----------------------------------------------------------------------------
(* The finally block: PtySession.close, if there is one, and the audit.    *)

\* SIGHUP; a shell may exit of it, or trap it.
HangUp ==
    /\ at = "hangup" /\ Goto("polling")
    /\ \/ shell = "running" /\ shell' = "exited"
       \/ UNCHANGED shell
    /\ UNCHANGED <<ready, fd, output, inbox, client, sent, printed, audit>>
Gone ==
    /\ at = "polling" /\ shell # "running"
    /\ Reap /\ Goto("closing")
    /\ UNCHANGED <<ready, fd, output, inbox, client, sent, printed, audit>>
\* Mutant: the killed shell is not waited for.
KillOnly ==
    /\ at = "polling" /\ shell = "running"
    /\ shell' = "exited" /\ Goto("closing")
    /\ UNCHANGED <<ready, fd, output, inbox, client, sent, printed, audit>>
\* A second later: SIGKILL and waitpid.
Kill ==
    /\ at = "polling" /\ shell = "running"
    /\ shell' = "reaped" /\ Goto("closing")
    /\ UNCHANGED <<ready, fd, output, inbox, client, sent, printed, audit>>
CloseFd ==
    /\ at = "closing" /\ fd' = "closed" /\ Goto("closed")
    /\ UNCHANGED <<ready, outside, audit>>
AuditClosed ==
    /\ at = "closed" /\ audit' = Append(audit, "closed") /\ Goto("done")
    /\ UNCHANGED <<ready, fd, outside>>

Handler ==
    \/ Open \/ Alive \/ Select \/ RelayOutput \/ EndOfOutput
    \/ ReceiveFrame \/ LostClient \/ Tell
    \/ HangUp \/ Gone \/ Kill \/ CloseFd \/ AuditClosed

-----------------------------------------------------------------------------
(* The client and the shell.                                               *)

Unfinished == inbox # <<>> /\ inbox[Len(inbox)] = "part"
Send ==
    /\ client # "gone" /\ sent < MaxFrame /\ sent' = sent + 1
    /\ ~ Unfinished
    /\ \E frame \in Frame \cup {"part"} : inbox' = Append(inbox, frame)
    /\ UNCHANGED <<at, ready, fd, shell, output, client, printed, audit>>
SendRest ==
    /\ client # "gone" /\ Unfinished
    /\ \E frame \in Frame : inbox' = [inbox EXCEPT ![Len(inbox)] = frame]
    /\ UNCHANGED <<at, ready, fd, shell, output, client, sent, printed, audit>>
Stall ==
    /\ client = "open" /\ client' = "stalled"
    /\ UNCHANGED <<at, ready, fd, shell, output, inbox, sent, printed, audit>>
Leave ==
    /\ client # "gone" /\ client' = "gone"
    /\ UNCHANGED <<at, ready, fd, shell, output, inbox, sent, printed, audit>>
ShellPrints ==
    /\ shell = "running" /\ printed < MaxOutput
    /\ printed' = printed + 1 /\ output' = output + 1
    /\ UNCHANGED <<at, ready, fd, shell, inbox, client, sent, audit>>
ShellExits ==
    /\ shell = "running" /\ shell' = "exited"
    /\ UNCHANGED <<at, ready, fd, output, inbox, client, sent, printed, audit>>

TerminalNext == Handler \/ Send \/ SendRest \/ Stall \/ Leave \/ ShellPrints \/ ShellExits

\* The handler is scheduled; nothing is assumed of the client.
TerminalSpec == TerminalInit /\ [][TerminalNext]_terminalVars /\ WF_terminalVars(Handler)

-----------------------------------------------------------------------------
(* Properties.                                                             *)

\* Whichever way a session ends (the shell exits, the client closes, vanishes
\* or sends nonsense, the terminal refuses input, the fork fails), no child and
\* no descriptor outlives it, and its two audit lines are paired.  Only an error
\* between the fork and the return of PtySession.open leaves a child behind.
NothingOutlives ==
    at = "done" =>
        /\ audit = <<"opened", "closed">>
        /\ \/ fd = "lost"
           \/ shell = "none" /\ fd = "none"
           \/ shell = "reaped" /\ fd = "closed"

\* The handler waits for a client that is there and does not do its part: it sends
\* to one that does not read, or has received half a frame.
Waiting ==
    /\ client # "gone"
    /\ \/ client = "stalled" /\ at = "telling"
       \/ client = "stalled" /\ at = "output" /\ output > 0
       \/ client = "stalled" /\ at = "frame" /\ inbox # <<>> /\ Head(inbox) = "ping"
       \/ at = "frame" /\ inbox # <<>> /\ Head(inbox) = "part"

\* A session whose client left comes to its end, whatever is still in the terminal
\* or in the socket; so does one whose shell exited, unless the handler waits for
\* the rest of time for a client that stays.
TerminalEnds ==
    [](shell = "exited" \/ client = "gone" => <>(at = "done") \/ <>[]Waiting)
=============================================================================
