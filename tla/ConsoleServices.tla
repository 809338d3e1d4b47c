-------------------------- MODULE ConsoleServices --------------------------
(***************************************************************************)
(* The two HTTP servers beside the orchestration: the terminal server with *)
(* one session, and the console with its overview cache.  They are two     *)
(* processes that share nothing, so a behaviour is one of one or the other.*)
(***************************************************************************)
EXTENDS BrowserTerminal, OverviewCache

VARIABLE server     \* the process the behaviour is about

vars == <<server, terminalVars, cacheVars>>

Init ==
    /\ server \in {"terminal", "console"} /\ TerminalInit /\ CacheInit
    /\ server = "terminal" => refreshing = {}

InTerminal(A) == server = "terminal" /\ A /\ UNCHANGED <<server, cacheVars>>
InConsole(A) == server = "console" /\ A /\ UNCHANGED <<server, terminalVars>>

Next == InTerminal(TerminalNext) \/ InConsole(CacheNext)

\* The fairness of TerminalSpec and of CacheSpec.
Spec ==
    /\ Init /\ [][Next]_vars
    /\ WF_vars(InTerminal(Handler))
    /\ \A t \in Thread :
         /\ WF_vars(InConsole(Serve(t)))
         /\ \A k \in Public : WF_vars(InConsole(Refresh(t, k)))
=============================================================================
