------------------------ MODULE CodexSession_proofs ------------------------
(***************************************************************************)
(* For any server, any number of messages, broken lines and deadlines, and *)
(* each of the four runners: no notification is lost, doubled or moved;    *)
(* the server runs under the lease only, is closed before its handoff is   *)
(* settled and outlives no runner, nor does the preflight's; and nothing   *)
(* is recorded as completed over a request for approval.  The invariant    *)
(* says where in its script a runner stands, what may be left of its       *)
(* except and finally blocks, and what the pipe holds.                     *)
(***************************************************************************)
EXTENDS CodexSession, FiniteSetTheorems, SequenceTheorems, TLAPS

\* Where each runner's script spawns the server.
SpawnAt == [dispatcher |-> 4, once |-> 5, smoke |-> 3, wsl |-> 3]

\* The runner has taken the first k - 1 steps of its script.
At(k) ==
    /\ k \in 1 .. Len(Script[runner]) + 1
    /\ todo = SubSeq(Script[runner], k, Len(Script[runner]))

\* What holds at a place of the script: nothing was asked of a server that was
\* not spawned, and the lease is held and the server closed where it must be.
PlaceOK(k) ==
    /\ k <= SpawnAt[runner] => requestId = 0 /\ inbox = <<>> /\ turn = "none" /\ ~asked
    /\ runner = "dispatcher" =>
        /\ alive => k \in 5 .. 9
        /\ k \in 2 .. 11 => lease
        /\ handoff \in {"PREPARED", "SENT", "COMPLETED"}
        /\ handoff = "COMPLETED" => k \in 11 .. 12
    /\ runner = "once" =>
        /\ alive => k \in 6 .. 12
        /\ k \in 3 .. 13 => lease
    /\ runner \in {"smoke", "wsl"} => (alive => k \in 4 .. 12)

OnScript == ~handling => \E k \in 1 .. 15 : At(k) /\ PlaceOK(k)

\* What may be left of an except or a finally block.
HandlerRest ==
    {<<"close", "fail", "release">>, <<"fail", "close", "release">>,
     <<"close", "release">>, <<"fail", "release">>, <<"fail", "close">>,
     <<"close">>, <<"fail">>, <<"release">>, <<>>}

\* A server that runs is closed before its lease is released, and the dispatcher
\* closes it before it records the failure.
OnHandler ==
    handling =>
        /\ waiting = 0 /\ todo \in HandlerRest
        /\ runner \in {"dispatcher", "once"} =>
            /\ todo \in {<<"close", "fail", "release">>, <<"fail", "close", "release">>,
                         <<"close", "release">>, <<"fail", "release">>, <<"release">>, <<>>}
            /\ todo # <<>> => lease
        /\ alive => todo \notin {<<"fail", "release">>, <<"release">>, <<"fail">>, <<>>}
        /\ runner = "dispatcher" =>
            /\ todo # <<"fail", "close", "release">>
            /\ handoff \in {"PREPARED", "SENT", "FAILED"}
            /\ handoff = "FAILED" => todo \in {<<"release">>, <<>>}

WaitOK == waiting > 0 => todo # <<>> /\ Head(todo) \in Requests

\* The preflight's server is the preflight's.
ProbeOK == Probing => Do("preflight") /\ ~handling

\* The end of the turn is noted behind an approval request that came before it.
NoticeOK ==
    /\ status = "completed" => turn = "completed" /\ ~asked
    /\ ~handling =>
        /\ \A i \in DOMAIN wire : wire[i].method = "completed" =>
            /\ turn = "completed"
            /\ asked => \E j \in 1 .. i - 1 : wire[j].kind = "approval"
        /\ \A i \in DOMAIN pending : pending[i].method = "completed" => turn = "completed" /\ ~asked
        /\ asked /\ reading => \E j \in DOMAIN wire : wire[j].kind = "approval"

SeqOK ==
    /\ wire \in Seq(Message) /\ pending \in Seq(Message)
    /\ events \in Seq(Message) /\ told \in Seq(Message)
    /\ inbox \in Seq(Requests) /\ requestId \in Nat /\ waiting \in Nat
    /\ runner \in Runner /\ handling \in BOOLEAN
    /\ turn \in Ending \cup {"none", "running", "refused"}

\* The invariant of a session.
SessionInv ==
    /\ SeqOK /\ OnScript /\ OnHandler /\ WaitOK /\ ProbeOK
    /\ EventsComplete /\ NoticeOK /\ CompletedUnasked

(***************************************************************************)
(* The scripts                                                             *)
(***************************************************************************)

\* What the scripts are made of.
Steps == {"lease", "preflight", "verify", "bind", "send", "spawn", "initialize", "thread",
          "turn", "receive", "inspect", "record", "close", "release", "resend"}

LEMMA DispatcherSteps ==
    /\ Len(Dispatcher) = 11 /\ Dispatcher \in Seq(Steps)
    /\ Dispatcher[1] = "lease" /\ Dispatcher[2] = "send" /\ Dispatcher[3] = "preflight"
    /\ Dispatcher[4] = "spawn" /\ Dispatcher[5] = "initialize" /\ Dispatcher[6] = "thread"
    /\ Dispatcher[7] = "turn" /\ Dispatcher[8] = "receive" /\ Dispatcher[9] = "close"
    /\ Dispatcher[10] = "record" /\ Dispatcher[11] = "release"
<1>1. Dispatcher \in Seq(Steps)
    BY DEF Dispatcher, Steps
<1> QED
    BY <1>1 DEF Dispatcher

LEMMA OnceSteps ==
    /\ Len(Once) = 13 /\ Once \in Seq(Steps)
    /\ Once[1] = "preflight" /\ Once[2] = "lease" /\ Once[3] = "verify" /\ Once[4] = "send"
    /\ Once[5] = "spawn" /\ Once[6] = "initialize" /\ Once[7] = "thread" /\ Once[8] = "turn"
    /\ Once[9] = "receive" /\ Once[10] = "verify" /\ Once[11] = "record" /\ Once[12] = "close"
    /\ Once[13] = "release"
<1>1. Once \in Seq(Steps)
    BY DEF Once, Steps
<1> QED
    BY <1>1 DEF Once

LEMMA SmokeSteps ==
    /\ Len(Smoke) = 13 /\ Smoke \in Seq(Steps)
    /\ Smoke[1] = "preflight" /\ Smoke[2] = "verify" /\ Smoke[3] = "spawn"
    /\ Smoke[4] = "initialize" /\ Smoke[5] = "thread" /\ Smoke[6] = "bind"
    /\ Smoke[7] = "send" /\ Smoke[8] = "turn" /\ Smoke[9] = "receive"
    /\ Smoke[10] = "inspect" /\ Smoke[11] = "record" /\ Smoke[12] = "close"
    /\ Smoke[13] = "resend"
<1>1. Smoke \in Seq(Steps)
    BY DEF Smoke, Steps
<1> QED
    BY <1>1 DEF Smoke

LEMMA Scripts ==
    /\ Script["dispatcher"] = Dispatcher /\ Script["once"] = Once
    /\ Script["smoke"] = Smoke /\ Script["wsl"] = Smoke
BY DEF Script, WslSmoke

LEMMA ScriptsAreSequences ==
    ASSUME NEW r \in Runner
    PROVE  Script[r] \in Seq(Steps) /\ Len(Script[r]) \in 11 .. 13
<1>1. r \in {"dispatcher", "once", "smoke", "wsl"}
    BY RunnerAssumption
<1> QED
    BY <1>1, Scripts, DispatcherSteps, OnceSteps, SmokeSteps

LEMMA SpawnPlaces ==
    /\ SpawnAt["dispatcher"] = 4 /\ SpawnAt["once"] = 5
    /\ SpawnAt["smoke"] = 3 /\ SpawnAt["wsl"] = 3
BY DEF SpawnAt

\* The step a runner takes is the one at its place, and leads to the next place.
LEMMA StepAtPlace ==
    ASSUME NEW k, At(k), runner \in Runner, NEW step, Do(step)
    PROVE  /\ k \in 1 .. Len(Script[runner]) /\ Script[runner][k] = step
           /\ Tail(todo) = SubSeq(Script[runner], k + 1, Len(Script[runner]))
<1> DEFINE s == Script[runner]
<1>1. s \in Seq(Steps) /\ Len(s) \in 11 .. 13
    BY ScriptsAreSequences
<1>2. k \in 1 .. Len(s) + 1 /\ todo = SubSeq(s, k, Len(s))
    BY DEF At
<1>3. todo # <<>> /\ Head(todo) = step
    BY DEF Do
<1> HIDE DEF s
<1>4. k <= Len(s)
    <2>1. CASE k = Len(s) + 1
        <3>1. SubSeq(s, k, Len(s)) = <<>>
            BY <1>1, <2>1, SubSeqEmpty
        <3> QED
            BY <3>1, <1>2, <1>3
    <2> QED
        BY <2>1, <1>1, <1>2
<1>5. k \in 1 .. Len(s) /\ Len(s) \in k .. Len(s)
    BY <1>1, <1>2, <1>4
<1>6. Head(todo) = s[k] /\ Tail(todo) = SubSeq(s, k + 1, Len(s))
    BY <1>1, <1>2, <1>5, HeadTailOfSubSeq
<1> QED
    BY <1>3, <1>5, <1>6 DEF s

LEMMA NextPlace ==
    ASSUME NEW k, At(k), runner \in Runner, NEW step, Do(step), Done, runner' = runner
    PROVE  k + 1 \in 1 .. 15 /\ At(k + 1)'
<1>1. Len(Script[runner]) \in 11 .. 13
    BY ScriptsAreSequences
<1>2. k \in 1 .. Len(Script[runner]) /\ Tail(todo) = SubSeq(Script[runner], k + 1, Len(Script[runner]))
    BY StepAtPlace
<1>3. k + 1 \in 1 .. Len(Script[runner]) + 1 /\ k + 1 \in 1 .. 15
    <2> DEFINE n == Len(Script[runner])
    <2>1. n \in 11 .. 13 /\ k \in 1 .. n
        BY <1>1, <1>2
    <2> HIDE DEF n
    <2>2. k + 1 \in 1 .. n + 1 /\ k + 1 \in 1 .. 15
        BY <2>1
    <2> QED
        BY <2>2 DEF n
<1> QED
    BY <1>2, <1>3 DEF At, Done

\* Where a step stands in a script.
LEMMA PlaceOfStep ==
    ASSUME NEW k, At(k), runner \in Runner, NEW step, Do(step)
    PROVE  /\ step = "spawn" => k = SpawnAt[runner]
           /\ step = "preflight" => k < SpawnAt[runner]
           /\ step \in Requests \cup {"receive"} => k > SpawnAt[runner]
           /\ runner \in {"smoke", "wsl"} =>
               /\ step \notin {"lease", "release", "fail"}
               /\ step = "close" <=> k = 12
           /\ runner = "dispatcher" =>
               /\ step = "lease" => k = 1
               /\ step = "send" => k = 2
               /\ step = "spawn" => k = 4
               /\ step \in Requests \cup {"receive"} => k \in 5 .. 8
               /\ step = "close" => k = 9
               /\ step = "record" => k = 10
               /\ step = "release" => k = 11
               /\ step \notin {"lease", "close", "release"} => k \in {2, 3, 4, 5, 6, 7, 8, 10}
               /\ step \notin {"fail", "resend"}
           /\ runner = "once" =>
               /\ step = "lease" => k = 2
               /\ step = "spawn" => k = 5
               /\ step \in Requests \cup {"receive"} => k \in 6 .. 9
               /\ step = "close" => k = 12
               /\ step = "release" => k = 13
               /\ step \notin {"lease", "close", "release"} => k = 1 \/ k \in 3 .. 11
<1>1. k \in 1 .. Len(Script[runner]) /\ Script[runner][k] = step
    BY StepAtPlace
<1>2. CASE runner = "dispatcher"
    <2>1. k \in 1 .. 11 /\ Dispatcher[k] = step
        BY <1>1, <1>2, Scripts, DispatcherSteps
    <2> QED
        BY <1>2, <2>1, DispatcherSteps, SpawnPlaces DEF Requests
<1>3. CASE runner = "once"
    <2>1. k \in 1 .. 13 /\ Once[k] = step
        BY <1>1, <1>3, Scripts, OnceSteps
    <2> QED
        BY <1>3, <2>1, OnceSteps, SpawnPlaces DEF Requests
<1>4. CASE runner \in {"smoke", "wsl"}
    <2>1. k \in 1 .. 13 /\ Smoke[k] = step
        BY <1>1, <1>4, Scripts, SmokeSteps
    <2> QED
        BY <1>4, <2>1, SmokeSteps, SpawnPlaces DEF Requests
<1> QED
    BY <1>2, <1>3, <1>4, RunnerAssumption

(***************************************************************************)
(* The except and finally blocks                                           *)
(***************************************************************************)

LEMMA ConcatPair == ASSUME NEW a, NEW b PROVE <<a>> \o <<b>> = <<a, b>>
<1> DEFINE S == {a, b}
           s == <<a>> \o <<b>>
           t == <<a, b>>
<1>1. <<a>> \in Seq(S) /\ <<b>> \in Seq(S) /\ t \in Seq(S)
    OBVIOUS
<1>2. /\ Len(t) = 2 /\ t[1] = a /\ t[2] = b
      /\ Len(<<a>>) = 1 /\ Len(<<b>>) = 1 /\ <<a>>[1] = a /\ <<b>>[1] = b
    OBVIOUS
<1> HIDE DEF S
<1>3. s \in Seq(S) /\ Len(s) = 2 /\ s[1] = a /\ s[2] = b
    BY <1>1, <1>2, ConcatProperties
<1> HIDE DEF s, t
<1>4. \A i \in 1 .. Len(s) : s[i] = t[i]
    BY <1>2, <1>3
<1>5. s = t
    BY <1>1, <1>2, <1>3, <1>4, SeqEqual
<1> QED
    BY <1>5 DEF s, t

LEMMA ConcatThird == ASSUME NEW a, NEW b, NEW c PROVE <<a, b>> \o <<c>> = <<a, b, c>>
<1> DEFINE S == {a, b, c}
           s == <<a, b>> \o <<c>>
           t == <<a, b, c>>
<1>1. <<a, b>> \in Seq(S) /\ <<c>> \in Seq(S) /\ t \in Seq(S)
    OBVIOUS
<1>2. /\ Len(t) = 3 /\ t[1] = a /\ t[2] = b /\ t[3] = c
      /\ Len(<<a, b>>) = 2 /\ Len(<<c>>) = 1
      /\ <<a, b>>[1] = a /\ <<a, b>>[2] = b /\ <<c>>[1] = c
    OBVIOUS
<1> HIDE DEF S
<1>3. s \in Seq(S) /\ Len(s) = 3 /\ s[1] = a /\ s[2] = b /\ s[3] = c
    BY <1>1, <1>2, ConcatProperties
<1> HIDE DEF s, t
<1>4. \A i \in 1 .. Len(s) : s[i] = t[i]
    BY <1>2, <1>3
<1>5. s = t
    BY <1>1, <1>2, <1>3, <1>4, SeqEqual
<1> QED
    BY <1>5 DEF s, t

LEMMA ConcatNothing == ASSUME NEW a PROVE <<>> \o <<a>> = <<a>> /\ <<a>> \o <<>> = <<a>> /\ <<>> \o <<>> = <<>>
OBVIOUS

\* What an exception leaves to do.
LEMMA HandlerOf ==
    /\ runner = "dispatcher" =>
        /\ alive /\ handoff = "SENT" => Handler = <<"close", "fail", "release">>
        /\ alive /\ handoff # "SENT" => Handler = <<"close", "release">>
        /\ ~alive /\ handoff = "SENT" => Handler = <<"fail", "release">>
        /\ ~alive /\ handoff # "SENT" => Handler = <<"release">>
    /\ runner = "once" =>
        /\ lease /\ alive => Handler = <<"fail", "close", "release">>
        /\ lease /\ ~alive => Handler = <<"fail", "release">>
        /\ ~lease => Handler = <<>>
    /\ runner \in {"smoke", "wsl"} =>
        /\ Handler \in {<<"fail", "close">>, <<"fail">>, <<>>}
        /\ alive /\ InTry => Handler = <<"fail", "close">>
<1>1. ASSUME runner = "dispatcher"
      PROVE  /\ alive /\ handoff = "SENT" => Handler = <<"close", "fail", "release">>
             /\ alive /\ handoff # "SENT" => Handler = <<"close", "release">>
             /\ ~alive /\ handoff = "SENT" => Handler = <<"fail", "release">>
             /\ ~alive /\ handoff # "SENT" => Handler = <<"release">>
    <2>1. Handler = (Closing \o Sent) \o <<"release">>
        BY <1>1 DEF Handler
    <2>2. Closing = IF alive THEN <<"close">> ELSE <<>>
        BY DEF Closing
    <2>3. Sent = IF handoff = "SENT" THEN <<"fail">> ELSE <<>>
        BY DEF Sent
    <2>4. /\ <<"close">> \o <<"fail">> = <<"close", "fail">>
          /\ <<"close">> \o <<"release">> = <<"close", "release">>
          /\ <<"fail">> \o <<"release">> = <<"fail", "release">>
        BY ConcatPair
    <2>5. <<"close", "fail">> \o <<"release">> = <<"close", "fail", "release">>
        BY ConcatThird
    <2>6. CASE alive /\ handoff = "SENT"
        BY <2>1, <2>2, <2>3, <2>4, <2>5, <2>6, Zenon
    <2>7. CASE alive /\ handoff # "SENT"
        BY <2>1, <2>2, <2>3, <2>4, <2>7, ConcatNothing, Zenon
    <2>8. CASE ~alive /\ handoff = "SENT"
        BY <2>1, <2>2, <2>3, <2>4, <2>8, ConcatNothing, Zenon
    <2>9. CASE ~alive /\ handoff # "SENT"
        BY <2>1, <2>2, <2>3, <2>9, ConcatNothing, Zenon
    <2> QED
        BY <2>6, <2>7, <2>8, <2>9, Zenon
<1>2. ASSUME runner = "once"
      PROVE  /\ lease /\ alive => Handler = <<"fail", "close", "release">>
             /\ lease /\ ~alive => Handler = <<"fail", "release">>
             /\ ~lease => Handler = <<>>
    <2>1. Handler = IF lease THEN (<<"fail">> \o Closing) \o <<"release">> ELSE <<>>
        BY <1>2 DEF Handler
    <2>2. Closing = IF alive THEN <<"close">> ELSE <<>>
        BY DEF Closing
    <2>3. /\ <<"fail">> \o <<"close">> = <<"fail", "close">>
          /\ <<"fail">> \o <<"release">> = <<"fail", "release">>
        BY ConcatPair
    <2>4. <<"fail", "close">> \o <<"release">> = <<"fail", "close", "release">>
        BY ConcatThird
    <2>5. CASE lease /\ alive
        BY <2>1, <2>2, <2>3, <2>4, <2>5, Zenon
    <2>6. CASE lease /\ ~alive
        BY <2>1, <2>2, <2>3, <2>6, ConcatNothing, Zenon
    <2>7. CASE ~lease
        BY <2>1, <2>7, Zenon
    <2> QED
        BY <2>5, <2>6, <2>7, Zenon
<1>3. ASSUME runner \in {"smoke", "wsl"}
      PROVE  /\ Handler \in {<<"fail", "close">>, <<"fail">>, <<>>}
             /\ alive /\ InTry => Handler = <<"fail", "close">>
    <2>1. Handler = IF InTry THEN <<"fail">> \o Closing ELSE <<>>
        BY <1>3 DEF Handler
    <2>2. Closing = IF alive THEN <<"close">> ELSE <<>>
        BY DEF Closing
    <2>3. <<"fail">> \o <<"close">> = <<"fail", "close">> /\ <<"fail">> \o <<>> = <<"fail">>
        BY ConcatPair, ConcatNothing
    <2>4. Handler = <<>> \/ Handler = <<"fail", "close">> \/ Handler = <<"fail">>
        BY <2>1, <2>2, <2>3, Zenon
    <2>5. alive /\ InTry => Handler = <<"fail", "close">>
        BY <2>1, <2>2, <2>3, Zenon
    <2> QED
        BY <2>4, <2>5
<1> QED
    BY <1>1, <1>2, <1>3, Zenon

\* A step of such a block, and what is left after it.
LEMMA RestSteps ==
    ASSUME todo \in HandlerRest, NEW step, Do(step)
    PROVE  /\ step \in {"close", "fail", "release"} /\ Tail(todo) \in HandlerRest
           /\ todo = <<"close", "fail", "release">> => step = "close" /\ Tail(todo) = <<"fail", "release">>
           /\ todo = <<"fail", "close", "release">> => step = "fail" /\ Tail(todo) = <<"close", "release">>
           /\ todo = <<"close", "release">> => step = "close" /\ Tail(todo) = <<"release">>
           /\ todo = <<"fail", "release">> => step = "fail" /\ Tail(todo) = <<"release">>
           /\ todo = <<"fail", "close">> => step = "fail" /\ Tail(todo) = <<"close">>
           /\ todo = <<"close">> => step = "close" /\ Tail(todo) = <<>>
           /\ todo = <<"release">> => step = "release" /\ Tail(todo) = <<>>
<1>1. todo # <<>> /\ step = Head(todo)
    BY DEF Do
<1>2. CASE todo = <<"close", "fail", "release">>
    <2>1. step = "close" /\ Tail(todo) = <<"fail", "release">>
        BY <1>1, <1>2
    <2> QED
        BY <1>2, <2>1, Zenon DEF HandlerRest
<1>3. CASE todo = <<"fail", "close", "release">>
    <2>1. step = "fail" /\ Tail(todo) = <<"close", "release">>
        BY <1>1, <1>3
    <2> QED
        BY <1>3, <2>1, Zenon DEF HandlerRest
<1>4. CASE todo = <<"close", "release">>
    <2>1. step = "close" /\ Tail(todo) = <<"release">>
        BY <1>1, <1>4
    <2> QED
        BY <1>4, <2>1, Zenon DEF HandlerRest
<1>5. CASE todo = <<"fail", "release">>
    <2>1. step = "fail" /\ Tail(todo) = <<"release">>
        BY <1>1, <1>5
    <2> QED
        BY <1>5, <2>1, Zenon DEF HandlerRest
<1>6. CASE todo = <<"fail", "close">>
    <2>1. step = "fail" /\ Tail(todo) = <<"close">>
        BY <1>1, <1>6
    <2> QED
        BY <1>6, <2>1, Zenon DEF HandlerRest
<1>7. CASE todo = <<"close">>
    <2>1. step = "close" /\ Tail(todo) = <<>>
        BY <1>1, <1>7
    <2> QED
        BY <1>7, <2>1, Zenon DEF HandlerRest
<1>8. CASE todo = <<"fail">>
    <2>1. step = "fail" /\ Tail(todo) = <<>>
        BY <1>1, <1>8
    <2> QED
        BY <1>8, <2>1, Zenon DEF HandlerRest
<1>9. CASE todo = <<"release">>
    <2>1. step = "release" /\ Tail(todo) = <<>>
        BY <1>1, <1>9
    <2> QED
        BY <1>9, <2>1, Zenon DEF HandlerRest
<1> QED
    BY <1>1, <1>2, <1>3, <1>4, <1>5, <1>6, <1>7, <1>8, <1>9 DEF HandlerRest

(***************************************************************************)
(* Where the runner is                                                     *)
(***************************************************************************)

\* Where a smoke runner's server runs, its finally block is ahead.
LEMMA AliveInTry ==
    ASSUME NEW k \in 4 .. 12, At(k), runner \in {"smoke", "wsl"}
    PROVE  InTry
<1>1. Script[runner] = Smoke /\ Len(Smoke) = 13 /\ Smoke \in Seq(Steps)
    BY Scripts, SmokeSteps
<1>2. todo = SubSeq(Smoke, k, 13)
    BY <1>1 DEF At
<1> DEFINE s == Smoke
<1> HIDE DEF s
<1>5. s \in Seq(Steps) /\ Len(s) = 13
    BY <1>1 DEF s
<1>6. /\ Len(SubSeq(s, k, 13)) = 13 - k + 1
      /\ \A i \in 1 .. 13 - k + 1 : SubSeq(s, k, 13)[i] = s[k + i - 1]
    BY <1>5, SubSeqProperties
<1>3. /\ Len(todo) = 14 - k
      /\ \A i \in 1 .. 14 - k : todo[i] = Smoke[k + i - 1]
    <2>1. 13 - k + 1 = 14 - k
        OBVIOUS
    <2> QED
        BY <1>2, <1>6, <2>1 DEF s
<1>4. \A i \in 1 .. Len(todo) : todo[i] # "spawn"
    <2>1. \A j \in 4 .. 13 : Smoke[j] # "spawn"
        BY SmokeSteps
    <2>2. \A i \in 1 .. 14 - k : k + i - 1 \in 4 .. 13
        OBVIOUS
    <2> QED
        BY <1>3, <2>1, <2>2
<1>7. \E i \in 1 .. Len(todo) : todo[i] = "close"
    <2>1. 13 - k \in 1 .. 14 - k /\ k + (13 - k) - 1 = 12
        OBVIOUS
    <2>2. todo[13 - k] = Smoke[12]
        BY <1>3, <2>1
    <2> QED
        BY <1>3, <2>1, <2>2, SmokeSteps
<1> QED
    BY <1>4, <1>7 DEF InTry, Contains

\* The first exception leads into the handler.
LEMMA RaiseOnHandler ==
    ASSUME NEW k, At(k), PlaceOK(k), runner \in Runner, Raise, UNCHANGED <<runner, handoff, lease, alive>>,
           runner = "dispatcher" => k \in 2 .. 10
    PROVE  (OnScript /\ OnHandler /\ WaitOK)'
<1>1. todo' = Handler /\ handling' = TRUE /\ waiting' = 0
    BY DEF Raise
<1>2. runner \in {"dispatcher", "once", "smoke", "wsl"}
    BY RunnerAssumption
<1>3. (OnScript /\ WaitOK)'
    BY <1>1 DEF OnScript, WaitOK
<1>4. CASE runner = "dispatcher"
    <2>1. lease /\ handoff \in {"PREPARED", "SENT"}
        BY <1>4 DEF PlaceOK
    <2>2. \/ Handler = <<"close", "fail", "release">>
          \/ Handler = <<"close", "release">>
          \/ ~alive /\ Handler \in {<<"fail", "release">>, <<"release">>}
        BY <1>4, HandlerOf, Zenon
    <2>3. todo' # <<"fail", "close", "release">>
        BY <1>1, <2>2
    <2> QED
        BY <1>1, <1>3, <1>4, <2>1, <2>2, <2>3 DEF OnHandler, HandlerRest
<1>5. CASE runner = "once"
    <2>1. alive => lease
        BY <1>5 DEF PlaceOK
    <2>2. \/ lease /\ Handler = <<"fail", "close", "release">>
          \/ lease /\ ~alive /\ Handler = <<"fail", "release">>
          \/ ~lease /\ Handler = <<>>
        BY <1>5, HandlerOf, Zenon
    <2> QED
        BY <1>1, <1>3, <1>5, <2>1, <2>2 DEF OnHandler, HandlerRest
<1>6. CASE runner \in {"smoke", "wsl"}
    <2>1. alive => Handler = <<"fail", "close">>
        BY <1>6, AliveInTry, HandlerOf DEF PlaceOK
    <2>2. Handler \in {<<"fail", "close">>, <<"fail">>, <<>>}
        BY <1>6, HandlerOf
    <2>3. alive => todo' \notin {<<"fail", "release">>, <<"release">>, <<"fail">>, <<>>}
        BY <1>1, <2>1
    <2> QED
        BY <1>1, <1>3, <1>6, <2>2, <2>3 DEF OnHandler, HandlerRest
<1> QED
    BY <1>2, <1>4, <1>5, <1>6

\* A step of the script that leaves the server, the lease and the handoff alone.
LEMMA PlainStep ==
    ASSUME NEW k \in 1 .. 15, At(k), PlaceOK(k), runner \in Runner, ~handling, WaitOK, waiting \in Nat,
           NEW step, Do(step), step \notin {"lease", "spawn", "close", "record", "release"}, Done,
           UNCHANGED <<runner, handling, requestId, inbox, alive, turn, asked, lease>>,
           runner = "dispatcher" => handoff' = handoff,
           waiting' = 0 \/ (step \notin Requests /\ waiting' = waiting)
    PROVE  (OnScript /\ OnHandler /\ WaitOK)'
<1>1. k + 1 \in 1 .. 15 /\ At(k + 1)'
    BY NextPlace
<1>2. /\ k # SpawnAt[runner]
      /\ runner = "dispatcher" => k \in {2, 3, 4, 5, 6, 7, 8, 10}
      /\ runner = "dispatcher" => k # 10 /\ k # 4
      /\ runner = "once" => k = 1 \/ k \in 3 .. 11
      /\ runner = "once" => k # 5
      /\ runner \in {"smoke", "wsl"} => k # 12
    <2>1. k \in 1 .. Len(Script[runner]) /\ Script[runner][k] = step
        BY StepAtPlace
    <2>2. CASE runner = "dispatcher"
        BY <2>1, <2>2, PlaceOfStep, Scripts, DispatcherSteps, SpawnPlaces
    <2>3. CASE runner = "once"
        BY <2>1, <2>3, PlaceOfStep, Scripts, OnceSteps, SpawnPlaces
    <2>4. CASE runner \in {"smoke", "wsl"}
        BY <2>1, <2>4, PlaceOfStep, Scripts, SmokeSteps, SpawnPlaces
    <2> QED
        BY <2>2, <2>3, <2>4, RunnerAssumption
<1>3. SpawnAt[runner] \in 3 .. 5
    BY SpawnPlaces, RunnerAssumption
<1>4. PlaceOK(k + 1)'
    <2>1. (k + 1 <= SpawnAt[runner] => requestId = 0 /\ inbox = <<>> /\ turn = "none" /\ ~asked)'
        BY <1>3 DEF PlaceOK
    <2>2. CASE runner = "dispatcher"
        BY <1>2, <2>1, <2>2 DEF PlaceOK
    <2>3. CASE runner = "once"
        BY <1>2, <2>1, <2>3 DEF PlaceOK
    <2>4. CASE runner \in {"smoke", "wsl"}
        BY <1>2, <2>1, <2>4 DEF PlaceOK
    <2> QED
        BY <2>2, <2>3, <2>4, RunnerAssumption
<1>5. OnScript'
    BY <1>1, <1>4 DEF OnScript
<1>6. waiting' = 0
    BY DEF WaitOK, Do
<1> QED
    BY <1>5, <1>6 DEF OnHandler, WaitOK

\* The steps that disturb what holds at a place.
LEMMA LeaseStep ==
    ASSUME NEW k \in 1 .. 15, At(k), PlaceOK(k), runner \in Runner, ~handling, WaitOK, waiting \in Nat, Lease
    PROVE  (OnScript /\ OnHandler /\ WaitOK)'
<1>1. k + 1 \in 1 .. 15 /\ At(k + 1)'
    BY NextPlace DEF Lease, Through
<1>2. /\ k # SpawnAt[runner] /\ (runner = "dispatcher" => k = 1) /\ (runner = "once" => k = 2)
      /\ runner \notin {"smoke", "wsl"}
    <2>1. k \in 1 .. Len(Script[runner]) /\ Script[runner][k] = "lease"
        BY StepAtPlace DEF Lease, Through
    <2>2. CASE runner = "dispatcher"
        BY <2>1, <2>2, PlaceOfStep, SpawnPlaces DEF Lease, Through
    <2>3. CASE runner = "once"
        BY <2>1, <2>3, PlaceOfStep, SpawnPlaces DEF Lease, Through
    <2>4. CASE runner \in {"smoke", "wsl"}
        BY <2>4, PlaceOfStep DEF Lease, Through
    <2> QED
        BY <2>2, <2>3, <2>4, RunnerAssumption
<1>3. PlaceOK(k + 1)'
    <2>1. (k + 1 <= SpawnAt[runner] => requestId = 0 /\ inbox = <<>> /\ turn = "none" /\ ~asked)'
        BY <1>2, SpawnPlaces, RunnerAssumption DEF PlaceOK, Lease, client, server, Through
    <2>2. CASE runner = "dispatcher"
        BY <1>2, <2>1, <2>2 DEF PlaceOK, Lease, server, Through
    <2>3. CASE runner = "once"
        BY <1>2, <2>1, <2>3 DEF PlaceOK, Lease, server, Through
    <2> QED
        BY <1>2, <2>2, <2>3, RunnerAssumption
<1>4. OnScript'
    BY <1>1, <1>3 DEF OnScript
<1> QED
    BY <1>4 DEF OnHandler, WaitOK, Lease, client, Do, Requests, Through

LEMMA SpawnStep ==
    ASSUME NEW k \in 1 .. 15, At(k), PlaceOK(k), runner \in Runner, ~handling, WaitOK, waiting \in Nat, Spawn
    PROVE  (OnScript /\ OnHandler /\ WaitOK)'
<1>1. k + 1 \in 1 .. 15 /\ At(k + 1)'
    BY NextPlace DEF Spawn, Through
<1>2. k = SpawnAt[runner] /\ (runner = "dispatcher" => k = 4) /\ (runner = "once" => k = 5)
    BY PlaceOfStep DEF Spawn, Through
<1>3. PlaceOK(k + 1)'
    BY <1>2, SpawnPlaces, RunnerAssumption DEF PlaceOK, Spawn, Through
<1>4. OnScript'
    BY <1>1, <1>3 DEF OnScript
<1> QED
    BY <1>4 DEF OnHandler, WaitOK, Spawn, client, Do, Requests, Through

LEMMA CloseStep ==
    ASSUME NEW k \in 1 .. 15, At(k), PlaceOK(k), runner \in Runner, ~handling, WaitOK, waiting \in Nat, Close
    PROVE  (OnScript /\ OnHandler /\ WaitOK)'
<1>1. k + 1 \in 1 .. 15 /\ At(k + 1)'
    BY NextPlace DEF Close, Through
<1>2. (runner = "dispatcher" => k = 9) /\ (runner = "once" => k = 12)
    BY PlaceOfStep DEF Close, Through
<1>3. PlaceOK(k + 1)'
    <2>1. (k + 1 <= SpawnAt[runner] => requestId = 0 /\ inbox = <<>> /\ turn = "none" /\ ~asked)'
        BY SpawnPlaces, RunnerAssumption DEF PlaceOK, Close, client, Through
    <2> QED
        BY <1>2, <2>1 DEF PlaceOK, Close, Through
<1>4. OnScript'
    BY <1>1, <1>3 DEF OnScript
<1> QED
    BY <1>4 DEF OnHandler, WaitOK, Close, client, Do, Requests, Through

LEMMA RecordStep ==
    ASSUME NEW k \in 1 .. 15, At(k), PlaceOK(k), runner \in Runner, ~handling, WaitOK, waiting \in Nat, Record
    PROVE  (OnScript /\ OnHandler /\ WaitOK)'
<1>1. k + 1 \in 1 .. 15 /\ At(k + 1)'
    BY NextPlace DEF Record, Through
<1>2. /\ (runner = "dispatcher" => k = 10) /\ (runner = "once" => k \in 3 .. 11)
      /\ (runner \in {"smoke", "wsl"} => k # 12)
    <2>1. (runner = "once" => k = 1 \/ k \in 3 .. 11)
        BY PlaceOfStep DEF Record, Through
    <2>2. runner = "once" => k # 1
        BY StepAtPlace, Scripts, OnceSteps DEF Record, Through
    <2> QED
        BY <2>1, <2>2, PlaceOfStep DEF Record, Through
<1>3. PlaceOK(k + 1)'
    <2>1. (k + 1 <= SpawnAt[runner] => requestId = 0 /\ inbox = <<>> /\ turn = "none" /\ ~asked)'
        BY SpawnPlaces, RunnerAssumption DEF PlaceOK, Record, client, server, Through
    <2>2. CASE runner = "dispatcher"
        BY <1>2, <2>1, <2>2 DEF PlaceOK, Record, server, Through
    <2>3. CASE runner = "once"
        BY <1>2, <2>1, <2>3 DEF PlaceOK, Record, server, Through
    <2>4. CASE runner \in {"smoke", "wsl"}
        BY <1>2, <2>1, <2>4 DEF PlaceOK, Record, server, Through
    <2> QED
        BY <2>2, <2>3, <2>4, RunnerAssumption
<1>4. OnScript'
    BY <1>1, <1>3 DEF OnScript
<1> QED
    BY <1>4 DEF OnHandler, WaitOK, Record, client, Do, Requests, Through

LEMMA ReleaseStep ==
    ASSUME NEW k \in 1 .. 15, At(k), PlaceOK(k), runner \in Runner, ~handling, WaitOK, waiting \in Nat, Release
    PROVE  (OnScript /\ OnHandler /\ WaitOK)'
<1>1. k + 1 \in 1 .. 15 /\ At(k + 1)'
    BY NextPlace DEF Release, Through
<1>2. /\ (runner = "dispatcher" => k = 11) /\ (runner = "once" => k = 13)
      /\ runner \notin {"smoke", "wsl"}
    BY PlaceOfStep DEF Release, Through
<1>3. PlaceOK(k + 1)'
    <2>1. (k + 1 <= SpawnAt[runner] => requestId = 0 /\ inbox = <<>> /\ turn = "none" /\ ~asked)'
        BY SpawnPlaces, RunnerAssumption DEF PlaceOK, Release, client, server, Through
    <2> QED
        BY <1>2, <2>1 DEF PlaceOK, Release, server, Through
<1>4. OnScript'
    BY <1>1, <1>3 DEF OnScript
<1> QED
    BY <1>4 DEF OnHandler, WaitOK, Release, client, Do, Requests, Through

\* Another's lease ends the request before anything was done.
LEMMA BusyStep ==
    ASSUME NEW k \in 1 .. 15, At(k), PlaceOK(k), runner \in Runner, ~handling, WaitOK, waiting \in Nat, LeaseBusy
    PROVE  (OnScript /\ OnHandler /\ WaitOK)'
<1>1. k = 1 /\ Len(Script[runner]) = 11 /\ Script[runner] \in Seq(Steps)
    BY PlaceOfStep, Scripts, DispatcherSteps DEF LeaseBusy
<1>2. SubSeq(Script[runner], 12, 11) = <<>>
    BY <1>1, SubSeqEmpty
<1>3. At(12)'
    BY <1>1, <1>2 DEF At, LeaseBusy
<1>4. PlaceOK(12)'
    BY <1>1, SpawnPlaces DEF PlaceOK, LeaseBusy, client, server
<1>5. OnScript'
    BY <1>3, <1>4 DEF OnScript
<1> QED
    BY <1>5 DEF OnHandler, WaitOK, LeaseBusy, client, Do, Requests

\* The server changes nothing of the runner, and is idle until it is spawned.
LEMMA ServerStep ==
    ASSUME SeqOK, OnScript, OnHandler, WaitOK, ServerNext
    PROVE  (OnScript /\ OnHandler /\ WaitOK)'
<1>1. UNCHANGED <<runner, todo, handling, requestId, waiting, handoff, lease>> /\ (alive' => alive)
    BY DEF ServerNext, Tells, Answer, Begin, Notify, Finish, Ask, Foreign, Break, Stall, Write, client
<1>2. requestId = 0 /\ inbox = <<>> /\ turn = "none" /\ ~asked => UNCHANGED <<inbox, turn, asked>>
    BY DEF ServerNext, Tells, Answer, Begin, Notify, Finish, Ask, Foreign, Break, Stall
<1>3. ASSUME NEW k, At(k), PlaceOK(k)
      PROVE  At(k)' /\ PlaceOK(k)'
    <2>1. At(k)'
        BY <1>1, <1>3 DEF At
    <2>2. (k <= SpawnAt[runner] => requestId = 0 /\ inbox = <<>> /\ turn = "none" /\ ~asked)'
        BY <1>1, <1>2, <1>3 DEF PlaceOK
    <2> QED
        BY <1>1, <1>3, <2>1, <2>2 DEF PlaceOK
<1> QED
    BY <1>1, <1>3 DEF OnScript, OnHandler, WaitOK

\* In the handler only its own steps are taken.
LEMMA HandlingStep ==
    ASSUME SeqOK, OnHandler, handling, RunnerNext
    PROVE  /\ Fail \/ Close \/ Release
           /\ (OnScript /\ OnHandler /\ WaitOK)'
<1>1. waiting = 0 /\ todo \in HandlerRest
    BY DEF OnHandler
<1>2. \A step : Do(step) => step \in {"close", "fail", "release"} /\ Tail(todo) \in HandlerRest
    BY <1>1, RestSteps
<1>3. \/ Fail \/ Close \/ Release
    <2>1. \A step \in {"lease", "send", "preflight", "verify", "bind", "inspect", "spawn",
                       "record", "receive", "resend"} \cup Requests : ~Do(step)
        BY <1>2 DEF Requests
    <2>2. /\ ~Lease /\ ~Send /\ ~Resend /\ ~Look /\ ~Spawn /\ ~Record
          /\ ~Discover /\ ~Try /\ ~Greet /\ ~CloseProbe
        BY <2>1 DEF Lease, Send, Resend, Look, Spawn, Record, Discover, Try, Greet, CloseProbe, Through,
                    Through, InPreflight
    <2>3. ~Breaks /\ ~LeaseBusy /\ ~ReceiveAnswer /\ ~ReceiveEvent /\ ~TimeOut
        <3>1. ReceiveAnswer => waiting > 0
            BY DEF ReceiveAnswer
        <3>2. ReceiveEvent => Do("receive")
            BY DEF ReceiveEvent
        <3>3. TimeOut => waiting > 0 \/ Do("receive")
            BY DEF TimeOut
        <3>4. ~Breaks /\ ~LeaseBusy
            BY <2>1 DEF Breaks, LeaseBusy
        <3>5. ~(waiting > 0) /\ ~Do("receive")
            BY <1>1, <2>1
        <3> QED
            BY <3>1, <3>2, <3>3, <3>4, <3>5
    <2>4. \A r \in Requests : ~Request(r)
        BY <2>1 DEF Request
    <2> QED
        BY <2>2, <2>3, <2>4 DEF RunnerNext
<1>4. UNCHANGED <<runner, handling, waiting>> /\ todo' = Tail(todo)
    BY <1>3 DEF Fail, Close, Release, Done, client, Through
<1>5. OnScript' /\ WaitOK'
    BY <1>1, <1>4 DEF OnScript, WaitOK
<1> DEFINE Rests == {<<"close", "fail", "release">>, <<"fail", "close", "release">>,
                     <<"close", "release">>, <<"fail", "release">>, <<"release">>, <<>>}
<1>6. ASSUME runner \in {"dispatcher", "once"}, NEW step, Do(step)
      PROVE  /\ todo' \in Rests /\ lease
             /\ step = "fail" => todo' = <<"close", "release">> \/ (todo' = <<"release">> /\ ~alive)
             /\ step = "close" => todo' \in {<<"fail", "release">>, <<"release">>}
             /\ step = "release" => todo' = <<>> /\ ~alive
    <2>1. todo \in Rests /\ todo # <<>> /\ lease /\ (alive => todo \notin {<<"fail", "release">>, <<"release">>, <<>>})
        BY <1>6 DEF OnHandler, Do
    <2>2. CASE todo = <<"close", "fail", "release">>
        BY <1>1, <1>4, <1>6, <2>1, <2>2, RestSteps
    <2>3. CASE todo = <<"fail", "close", "release">>
        BY <1>1, <1>4, <1>6, <2>1, <2>3, RestSteps
    <2>4. CASE todo = <<"close", "release">>
        BY <1>1, <1>4, <1>6, <2>1, <2>4, RestSteps
    <2>5. CASE todo = <<"fail", "release">>
        BY <1>1, <1>4, <1>6, <2>1, <2>5, RestSteps
    <2>6. CASE todo = <<"release">>
        BY <1>1, <1>4, <1>6, <2>1, <2>6, RestSteps
    <2> QED
        BY <2>1, <2>2, <2>3, <2>4, <2>5, <2>6
<1>7. ASSUME runner = "dispatcher", NEW step, Do(step)
      PROVE  todo' # <<"close", "release">> \/ step # "fail"
    <2>1. todo \in Rests \ {<<"fail", "close", "release">>}
        BY <1>7 DEF OnHandler
    <2>2. CASE todo = <<"close", "fail", "release">>
        BY <1>1, <1>4, <1>7, <2>2, RestSteps
    <2>3. CASE todo = <<"close", "release">>
        BY <1>1, <1>4, <1>7, <2>3, RestSteps
    <2>4. CASE todo = <<"fail", "release">>
        BY <1>1, <1>4, <1>7, <2>4, RestSteps
    <2>5. CASE todo = <<"release">>
        BY <1>1, <1>4, <1>7, <2>5, RestSteps
    <2>6. CASE todo = <<>>
        BY <1>7, <2>6 DEF Do
    <2> QED
        BY <2>1, <2>2, <2>3, <2>4, <2>5, <2>6
<1>8. todo' \in HandlerRest
    BY <1>2, <1>3, <1>4 DEF Fail, Close, Release, Through
<1>12. ASSUME NEW step \in {"fail", "release"}, Do(step), alive
       PROVE  todo' \notin {<<"fail", "release">>, <<"release">>, <<"fail">>, <<>>}
    <2>1. todo \in {<<"close", "fail", "release">>, <<"fail", "close", "release">>,
                   <<"close", "release">>, <<"fail", "close">>, <<"close">>}
        BY <1>1, <1>12 DEF OnHandler, HandlerRest
    <2>2. CASE todo = <<"fail", "close", "release">>
        <3>1. todo' = <<"close", "release">>
            BY <1>1, <1>4, <1>12, <2>2, RestSteps
        <3> QED
            BY <3>1
    <2>3. CASE todo = <<"fail", "close">>
        <3>1. todo' = <<"close">>
            BY <1>1, <1>4, <1>12, <2>3, RestSteps
        <3> QED
            BY <3>1
    <2>4. CASE todo \in {<<"close", "fail", "release">>, <<"close", "release">>, <<"close">>}
        <3>1. step = "close"
            BY <1>1, <1>12, <2>4, RestSteps
        <3> QED
            BY <1>12, <3>1
    <2> QED
        BY <2>1, <2>2, <2>3, <2>4
<1>9. CASE Fail
    <2>1. UNCHANGED <<alive, lease>> /\ Do("fail")
        BY <1>9 DEF Fail, server, Through
    <2>2. runner = "dispatcher" => todo' = <<"release">> /\ handoff' \in {"PREPARED", "SENT", "FAILED"}
        BY <1>6, <1>7, <1>9, <2>1 DEF Fail, OnHandler, Through
    <2> QED
        BY <1>1, <1>3, <1>4, <1>5, <1>6, <1>8, <1>12, <2>1, <2>2 DEF OnHandler
<1>10. CASE Close
    <2>1. UNCHANGED <<handoff, lease>> /\ ~alive' /\ Do("close")
        BY <1>10 DEF Close, Through
    <2>2. runner = "dispatcher" => handoff # "FAILED"
        <3>1. ASSUME runner = "dispatcher", handoff = "FAILED" PROVE FALSE
            <4>1. todo \in {<<"release">>, <<>>}
                BY <3>1 DEF OnHandler
            <4> QED
                BY <1>1, <2>1, <4>1, RestSteps DEF Do
        <3> QED
            BY <3>1
    <2> QED
        BY <1>1, <1>3, <1>4, <1>5, <1>6, <1>8, <2>1, <2>2 DEF OnHandler
<1>11. CASE Release
    <2>1. UNCHANGED <<handoff, alive>> /\ Do("release")
        BY <1>11 DEF Release, server, Through
    <2> QED
        BY <1>1, <1>3, <1>4, <1>5, <1>6, <1>8, <1>12, <2>1 DEF OnHandler
<1> QED
    BY <1>3, <1>9, <1>10, <1>11

\* On the script each step leads to the next place, or into the handler.
LEMMA ScriptStep ==
    ASSUME SeqOK, OnScript, OnHandler, WaitOK, ~handling, RunnerNext
    PROVE  (OnScript /\ OnHandler /\ WaitOK)'
<1> PICK k \in 1 .. 15 : At(k) /\ PlaceOK(k)
    BY DEF OnScript
<1>1. runner \in Runner /\ waiting \in Nat /\ requestId \in Nat
    BY DEF SeqOK
<1>2. ASSUME NEW step, Do(step), step \notin {"lease", "close", "release"}, Raise,
             UNCHANGED <<runner, handoff, lease, alive>>
      PROVE  (OnScript /\ OnHandler /\ WaitOK)'
    <2>1. runner = "dispatcher" => k \in 2 .. 10
        BY <1>1, <1>2, PlaceOfStep
    <2> QED
        BY <1>1, <1>2, <2>1, RaiseOnHandler
<1>3. waiting > 0 => \E r \in Requests : Do(r)
    BY DEF WaitOK, Do
<1>4. \A r \in Requests : r \notin {"lease", "spawn", "close", "record", "release"}
    BY DEF Requests
<1>5. CASE Lease
    BY <1>1, <1>5, LeaseStep
<1>6. CASE Spawn
    BY <1>1, <1>6, SpawnStep
<1>7. CASE Close
    BY <1>1, <1>7, CloseStep
<1>8. CASE Record
    BY <1>1, <1>8, RecordStep
<1>9. CASE Release
    BY <1>1, <1>9, ReleaseStep
<1>10. CASE LeaseBusy
    BY <1>1, <1>10, BusyStep
<1>11. CASE Look \/ Resend \/ (CloseProbe /\ probe = "greeted")
    <2>1. PICK step \in {"preflight", "verify", "bind", "inspect", "resend"} :
            Do(step) /\ (Resend => step = "resend")
        BY <1>11 DEF Look, Resend, CloseProbe, Through, InPreflight
    <2>2. /\ Done /\ UNCHANGED <<runner, handling, client, server, lease>>
          /\ runner = "dispatcher" => handoff' = handoff
        <3>1. CASE Resend
            <4>1. Do("resend")
                BY <3>1 DEF Resend, Through
            <4>2. runner # "dispatcher"
                BY <1>1, <4>1, PlaceOfStep
            <4> QED
                BY <3>1, <4>2 DEF Resend, Through
        <3> QED
            BY <1>11, <3>1 DEF Look, CloseProbe, Through, InPreflight
    <2>3. step \notin {"lease", "spawn", "close", "record", "release"} \cup Requests
        BY <2>1 DEF Requests
    <2>4. UNCHANGED <<runner, handling, requestId, inbox, alive, turn, asked, lease, waiting>>
        BY <2>2 DEF client, server
    <2> QED
        BY <1>1, <2>1, <2>2, <2>3, <2>4, PlainStep
<1>19. CASE Discover \/ Try \/ Greet
    <2>1. UNCHANGED <<runner, todo, handling, requestId, waiting, inbox, alive, turn, asked, handoff, lease>>
        BY <1>19 DEF Discover, Try, Greet, InPreflight, client, server
    <2>2. At(k)' /\ PlaceOK(k)'
        BY <2>1 DEF At, PlaceOK
    <2> QED
        BY <2>1, <2>2 DEF OnScript, OnHandler, WaitOK
<1>20. CASE CloseProbe /\ probe # "greeted"
    <2>1. Do("preflight") /\ Raise /\ UNCHANGED <<runner, handoff, lease, alive>>
        BY <1>20 DEF CloseProbe, InPreflight, server
    <2> QED
        BY <1>2, <2>1
<1>12. CASE Send
    <2>1. k + 1 \in 1 .. 15 /\ At(k + 1)'
        BY <1>1, <1>12, NextPlace DEF Send, Through
    <2>2. /\ k # SpawnAt[runner] /\ (runner = "dispatcher" => k = 2) /\ (runner = "once" => k \in 3 .. 11 /\ k # 5)
          /\ (runner \in {"smoke", "wsl"} => k # 12)
        <3>1. k \in 1 .. Len(Script[runner]) /\ Script[runner][k] = "send"
            BY <1>1, <1>12, StepAtPlace DEF Send, Through
        <3>2. CASE runner = "dispatcher"
            BY <1>1, <1>12, <3>1, <3>2, PlaceOfStep, SpawnPlaces DEF Send, Through
        <3>3. CASE runner = "once"
            BY <1>1, <1>12, <3>1, <3>3, PlaceOfStep, Scripts, OnceSteps, SpawnPlaces DEF Send, Through
        <3>4. CASE runner \in {"smoke", "wsl"}
            BY <1>1, <1>12, <3>1, <3>4, PlaceOfStep, Scripts, SmokeSteps, SpawnPlaces DEF Send, Through
        <3> QED
            BY <1>1, <3>2, <3>3, <3>4, RunnerAssumption
    <2>3. PlaceOK(k + 1)'
        <3>1. (k + 1 <= SpawnAt[runner] => requestId = 0 /\ inbox = <<>> /\ turn = "none" /\ ~asked)'
            BY <1>1, <1>12, SpawnPlaces, RunnerAssumption DEF PlaceOK, Send, client, server, Through
        <3>2. CASE runner = "dispatcher"
            BY <1>12, <2>2, <3>1, <3>2 DEF PlaceOK, Send, server, Through
        <3>3. CASE runner = "once"
            BY <1>12, <2>2, <3>1, <3>3 DEF PlaceOK, Send, server, Through
        <3>4. CASE runner \in {"smoke", "wsl"}
            BY <1>12, <2>2, <3>1, <3>4 DEF PlaceOK, Send, server, Through
        <3> QED
            BY <1>1, <3>2, <3>3, <3>4, RunnerAssumption
    <2>4. OnScript'
        BY <2>1, <2>3 DEF OnScript
    <2> QED
        BY <1>12, <2>4 DEF OnHandler, WaitOK, Send, client, Do, Requests, Through
<1>13. CASE Fail
    <2>1. k \in 1 .. Len(Script[runner]) /\ Script[runner][k] = "fail"
        BY <1>1, <1>13, StepAtPlace DEF Fail, Through
    <2>2. "fail" \notin Steps /\ Script[runner] \in Seq(Steps)
        BY <1>1, ScriptsAreSequences DEF Steps
    <2> QED
        BY <2>1, <2>2, ElementOfSeq
<1>14. CASE Breaks
    BY <1>2, <1>14 DEF Breaks, server
<1>15. CASE \E r \in Requests : Request(r)
    <2> PICK r \in Requests : Request(r)
        BY <1>15
    <2>1. CASE ~alive
        BY <1>2, <1>4, <2>1 DEF Request
    <2>2. CASE alive
        <3>1. UNCHANGED <<runner, todo, handling, alive, turn, asked, handoff, lease>> /\ Do(r)
            BY <2>2 DEF Request
        <3>2. k > SpawnAt[runner]
            BY <1>1, <3>1, PlaceOfStep
        <3>3. At(k)' /\ PlaceOK(k)'
            BY <1>1, <3>1, <3>2, SpawnPlaces, RunnerAssumption DEF At, PlaceOK
        <3>4. OnScript'
            BY <3>3 DEF OnScript
        <3> QED
            BY <3>1, <3>4 DEF OnHandler, WaitOK, Do
    <2> QED
        BY <2>1, <2>2
<1>16. CASE ReceiveAnswer
    <2>1. PICK r \in Requests : Do(r)
        BY <1>1, <1>3, <1>16 DEF ReceiveAnswer
    <2>2. UNCHANGED <<runner, inbox, alive, turn, asked, handoff, lease>>
        BY <1>16 DEF ReceiveAnswer
    <2>3. CASE Raise
        BY <1>2, <1>4, <2>1, <2>2, <2>3
    <2>4. CASE Done /\ waiting' = 0 /\ UNCHANGED <<handling, requestId>>
        BY <1>1, <1>4, <2>1, <2>2, <2>4, PlainStep
    <2>5. CASE UNCHANGED <<todo, handling, requestId, waiting>>
        <3>1. At(k)' /\ PlaceOK(k)'
            BY <2>2, <2>5 DEF At, PlaceOK
        <3> QED
            BY <2>2, <2>5, <3>1 DEF OnScript, OnHandler, WaitOK
    <2> QED
        BY <1>16, <2>3, <2>4, <2>5 DEF ReceiveAnswer
<1>17. CASE ReceiveEvent
    <2>1. Do("receive") /\ UNCHANGED <<runner, inbox, alive, turn, asked, handoff, lease>>
        BY <1>17 DEF ReceiveEvent
    <2>2. CASE Raise
        BY <1>2, <2>1, <2>2
    <2>3. CASE Done /\ UNCHANGED <<handling, requestId, waiting>>
        <3>1. "receive" \notin {"lease", "spawn", "close", "record", "release"} \cup Requests
            BY DEF Requests
        <3> QED
            BY <1>1, <2>1, <2>3, <3>1, PlainStep
    <2>4. CASE UNCHANGED <<todo, handling, requestId, waiting>>
        <3>1. At(k)' /\ PlaceOK(k)'
            BY <2>1, <2>4 DEF At, PlaceOK
        <3> QED
            BY <2>1, <2>4, <3>1 DEF OnScript, OnHandler, WaitOK
    <2> QED
        BY <1>17, <2>2, <2>3, <2>4 DEF ReceiveEvent
<1>18. CASE TimeOut
    <2>1. \E step : Do(step) /\ step \notin {"lease", "close", "release"}
        BY <1>3, <1>4, <1>18 DEF TimeOut
    <2> QED
        BY <1>2, <1>18, <2>1 DEF TimeOut, server
<1> QED
    BY <1>5, <1>6, <1>7, <1>8, <1>9, <1>10, <1>11, <1>12, <1>13, <1>14, <1>15, <1>16, <1>17, <1>18,
       <1>19, <1>20 DEF RunnerNext

\* The preflight's server never outlives it.
LEMMA ProbeStep ==
    ASSUME SeqOK, OnHandler, WaitOK, ProbeOK, RunnerNext \/ ServerNext
    PROVE  ProbeOK'
<1>1. waiting \in Nat
    BY DEF SeqOK
<1>2. CASE UNCHANGED <<todo, handling, probe>>
    BY <1>2 DEF ProbeOK, Probing, Do
<1>3. CASE ~Probing'
    BY <1>3 DEF ProbeOK
<1>4. ASSUME NEW step, Do(step), step # "preflight", probe' = probe
      PROVE  ProbeOK'
    BY <1>4 DEF ProbeOK, Probing, Do
<1>5. ASSUME waiting > 0, probe' = probe
      PROVE  ProbeOK'
    BY <1>4, <1>5 DEF WaitOK, Do, Requests
<1>6. CASE Lease \/ Send \/ Resend \/ Look \/ Spawn \/ Record \/ Fail \/ Close \/ Release \/ LeaseBusy
    <2>1. PICK step \in Steps \cup {"fail"} : Do(step) /\ step # "preflight"
        BY <1>6 DEF Lease, Send, Resend, Look, Spawn, Record, Fail, Close, Release, LeaseBusy, Through, Steps
    <2>2. probe' = probe
        BY <1>6 DEF Lease, Send, Resend, Look, Spawn, Record, Fail, Close, Release, LeaseBusy, Through
    <2> QED
        BY <1>4, <2>1, <2>2
<1>7. CASE Breaks
    <2>1. probe' = probe /\ \E step : Do(step) /\ (step = "preflight" => ~Probing)
        BY <1>7 DEF Breaks
    <2> QED
        BY <1>3, <1>4, <2>1 DEF Probing
<1>8. CASE Discover \/ CloseProbe
    BY <1>3, <1>8 DEF Discover, CloseProbe, InPreflight, Probing
<1>9. CASE Try \/ Greet
    <2>1. Do("preflight") /\ UNCHANGED <<todo, handling>>
        BY <1>9 DEF Try, Greet, InPreflight
    <2>2. ~handling
        BY <2>1, RestSteps DEF OnHandler
    <2> QED
        BY <2>1, <2>2 DEF ProbeOK, Do
<1>10. CASE \E r \in Requests : Request(r)
    <2>1. PICK r \in Requests : Do(r) /\ probe' = probe
        BY <1>10 DEF Request
    <2> QED
        BY <1>4, <2>1 DEF Requests
<1>11. CASE ReceiveAnswer
    <2>1. waiting > 0 /\ probe' = probe
        BY <1>11 DEF ReceiveAnswer
    <2> QED
        BY <1>5, <2>1
<1>12. CASE ReceiveEvent
    <2>1. Do("receive") /\ probe' = probe
        BY <1>12 DEF ReceiveEvent
    <2> QED
        BY <1>4, <2>1
<1>13. CASE TimeOut
    <2>1. (waiting > 0 \/ Do("receive")) /\ probe' = probe
        BY <1>13 DEF TimeOut
    <2> QED
        BY <1>4, <1>5, <2>1
<1>14. CASE ServerNext
    BY <1>2, <1>14 DEF ServerNext, Tells, Answer, Begin, Notify, Finish, Ask, Foreign, Break, Stall
<1> QED
    BY <1>6, <1>7, <1>8, <1>9, <1>10, <1>11, <1>12, <1>13, <1>14 DEF RunnerNext

\* The end of a script is behind its close.
LEMMA EndPlace ==
    ASSUME NEW k \in 1 .. 15, At(k), PlaceOK(k), runner \in Runner, todo = <<>>
    PROVE  ~alive
<1> DEFINE s == Script[runner]
<1>1. s \in Seq(Steps) /\ Len(s) \in 11 .. 13
    BY ScriptsAreSequences
<1>2. k \in 1 .. Len(s) + 1 /\ todo = SubSeq(s, k, Len(s))
    BY DEF At
<1> HIDE DEF s
<1>3. k = Len(s) + 1
    <2>1. CASE k <= Len(s)
        <3>1. k \in 1 .. Len(s) /\ Len(s) \in k .. Len(s)
            BY <1>1, <1>2, <2>1
        <3> DEFINE n == Len(s)
        <3>2. k \in Int /\ n \in Int /\ k <= n /\ \A i \in k .. n : s[i] \in Steps
            BY <1>1, <3>1, ElementOfSeq
        <3> HIDE DEF n
        <3>3. Len(SubSeq(s, k, n)) = n - k + 1
            BY <3>2, SubSeqProperties
        <3>4. Len(<<>>) = 0 /\ n - k + 1 # 0
            BY <3>2
        <3> QED
            BY <1>2, <3>3, <3>4 DEF n
    <2> QED
        BY <1>1, <1>2, <2>1
<1>6. /\ runner = "dispatcher" => k = 12
      /\ runner \in {"once", "smoke", "wsl"} => k = 14
    <2>1. /\ runner = "dispatcher" => Len(s) = 11
          /\ runner \in {"once", "smoke", "wsl"} => Len(s) = 13
        <3>1. runner = "dispatcher" => s = Dispatcher
            BY Scripts DEF s
        <3>2. runner = "once" => s = Once
            BY Scripts DEF s
        <3>3. runner \in {"smoke", "wsl"} => s = Smoke
            BY Scripts DEF s
        <3> QED
            BY <3>1, <3>2, <3>3, DispatcherSteps, OnceSteps, SmokeSteps
    <2> DEFINE n == Len(s)
    <2>2. k = n + 1 /\ (runner = "dispatcher" => n = 11)
          /\ (runner \in {"once", "smoke", "wsl"} => n = 13)
        BY <1>3, <2>1
    <2> HIDE DEF n
    <2> QED
        BY <2>2
<1> QED
    BY <1>6, RunnerAssumption DEF PlaceOK

\* The server runs under the lease, a settled handoff has none, and neither the
\* worker's nor the preflight's is left at the end.
LEMMA StoppedInPlace ==
    ASSUME runner \in Runner, OnScript, OnHandler, ProbeOK
    PROVE  WorkerIsStopped
<1>1. runner \in {"dispatcher", "once"} /\ alive => lease
    BY DEF OnScript, PlaceOK, OnHandler
<1>2. ASSUME runner = "dispatcher", handoff \in {"COMPLETED", "FAILED"}
      PROVE  ~alive
    <2>1. CASE handling
        BY <1>2, <2>1 DEF OnHandler
    <2>2. CASE ~handling
        BY <1>2, <2>2 DEF OnScript, PlaceOK
    <2> QED
        BY <2>1, <2>2
<1>3. ASSUME Probing PROVE ~alive
    <2>1. Do("preflight") /\ ~handling
        BY <1>3 DEF ProbeOK
    <2> PICK k \in 1 .. 15 : At(k) /\ PlaceOK(k)
        BY <2>1 DEF OnScript
    <2>2. k < SpawnAt[runner]
        BY <2>1, PlaceOfStep
    <2> QED
        BY <2>2, SpawnPlaces, RunnerAssumption DEF PlaceOK
<1>4. ASSUME todo = <<>> PROVE ~alive /\ ~Probing
    <2>1. ~Probing
        BY <1>4 DEF ProbeOK, Do
    <2>2. CASE handling
        BY <1>4, <2>1, <2>2 DEF OnHandler
    <2>3. CASE ~handling
        BY <1>4, <2>1, <2>3, EndPlace DEF OnScript
    <2> QED
        BY <2>2, <2>3
<1> QED
    BY <1>1, <1>2, <1>3, <1>4, RunnerAssumption DEF WorkerIsStopped

(***************************************************************************)
(* Counting the notifications on the wire                                  *)
(***************************************************************************)

LEMMA NotesCount ==
    ASSUME NEW s, NEW i \in Nat, NEW k \in 0 .. i
    PROVE  /\ IsFiniteSet(Notes(s, i)) /\ Cardinality(Notes(s, i)) \in Nat
           /\ Cardinality(Notes(s, k)) <= Cardinality(Notes(s, i))
           /\ k > 0 /\ Notification(s[k]) => Cardinality(Notes(s, k)) >= 1
<1>1. IsFiniteSet(1 .. i)
    BY FS_Interval
<1>2. Notes(s, i) \in SUBSET (1 .. i) /\ Notes(s, k) \in SUBSET Notes(s, i)
    BY DEF Notes
<1>3. IsFiniteSet(Notes(s, i)) /\ IsFiniteSet(Notes(s, k))
      /\ Cardinality(Notes(s, k)) <= Cardinality(Notes(s, i))
    BY <1>1, <1>2, FS_Subset
<1>4. Cardinality(Notes(s, i)) \in Nat /\ Cardinality(Notes(s, k)) \in Nat
    BY <1>3, FS_CardinalityType
<1>5. ASSUME k > 0, Notification(s[k]) PROVE Cardinality(Notes(s, k)) >= 1
    <2>1. k \in Notes(s, k)
        BY <1>5 DEF Notes
    <2>2. Cardinality(Notes(s, k)) # 0
        BY <2>1, <1>3, FS_EmptySet
    <2> QED
        BY <2>2, <1>4
<1> QED
    BY <1>3, <1>4, <1>5

LEMMA NotesOfAppend ==
    ASSUME NEW S, NEW s \in Seq(S), NEW m \in S
    PROVE  /\ \A i \in 0 .. Len(s) : Notes(Append(s, m), i) = Notes(s, i)
           /\ Cardinality(Notes(Append(s, m), Len(s) + 1)) =
                  IF Notification(m) THEN Cardinality(Notes(s, Len(s))) + 1
                  ELSE Cardinality(Notes(s, Len(s)))
<1>1. /\ Len(s) \in Nat /\ Append(s, m)[Len(s) + 1] = m
      /\ \A j \in 1 .. Len(s) : Append(s, m)[j] = s[j]
    BY AppendProperties, LenProperties
<1>2. ASSUME NEW i \in 0 .. Len(s) PROVE Notes(Append(s, m), i) = Notes(s, i)
    <2>1. \A j \in 1 .. i : Append(s, m)[j] = s[j]
        BY <1>1
    <2> QED
        BY <2>1, Zenon DEF Notes
<1> DEFINE old == Notes(s, Len(s))
           new == Notes(Append(s, m), Len(s) + 1)
<1>3. new = IF Notification(m) THEN old \cup {Len(s) + 1} ELSE old
    <2>1. \A j : j \in 1 .. Len(s) + 1 <=> j \in 1 .. Len(s) \/ j = Len(s) + 1
        BY <1>1
    <2>2. \A j : j \in new <=> (j \in old \/ (j = Len(s) + 1 /\ Notification(m)))
        BY <1>1, <2>1, Zenon DEF Notes
    <2> QED
        BY <2>2
<1>4. IsFiniteSet(old) /\ Len(s) + 1 \notin old
    <2>1. \A j \in old : j \in 1 .. Len(s)
        BY DEF Notes
    <2>2. IsFiniteSet(old)
        BY <1>1, NotesCount
    <2> QED
        BY <1>1, <2>1, <2>2
<1>5. Cardinality(old \cup {Len(s) + 1}) = Cardinality(old) + 1
    BY <1>4, FS_AddElement
<1> QED
    BY <1>2, <1>3, <1>5

LEMMA NotesOfTail ==
    ASSUME NEW S, NEW s \in Seq(S), s # <<>>, NEW i \in 0 .. Len(s) - 1
    PROVE  Cardinality(Notes(s, i + 1)) =
               IF Notification(Head(s)) THEN Cardinality(Notes(Tail(s), i)) + 1
               ELSE Cardinality(Notes(Tail(s), i))
<1>1. /\ Len(s) \in Nat /\ Len(s) >= 1 /\ Head(s) = s[1]
      /\ \A j \in 1 .. Len(s) - 1 : Tail(s)[j] = s[j + 1]
    BY HeadTailProperties, LenProperties, EmptySeq
<1> DEFINE all == Notes(s, i + 1)
           rest == Notes(Tail(s), i)
           later == all \ {1}
           shift == [j \in rest |-> j + 1]
<1>2. \A j \in rest : j \in 1 .. i /\ j + 1 \in later
    BY <1>1 DEF Notes
<1>3. \A j \in later : j - 1 \in rest /\ j \in 2 .. i + 1
    BY <1>1 DEF Notes
<1>4. shift \in Bijection(rest, later)
    <2>1. shift \in [rest -> later]
        BY <1>2
    <2>2. \A a, b \in rest : shift[a] = shift[b] => a = b
        BY <1>2
    <2>3. \A b \in later : \E a \in rest : shift[a] = b
        <3> TAKE b \in later
        <3>1. b - 1 \in rest /\ shift[b - 1] = b
            BY <1>3
        <3> QED
            BY <3>1
    <2> QED
        BY <2>1, <2>2, <2>3 DEF Bijection, Injection, Surjection, IsInjective
<1>5. IsFiniteSet(rest) /\ IsFiniteSet(all) /\ Cardinality(rest) \in Nat /\ Cardinality(all) \in Nat
    BY <1>1, NotesCount
<1>6. Cardinality(later) = Cardinality(rest)
    BY <1>4, <1>5, FS_Bijection DEF ExistsBijection
<1>7. Cardinality(later) = IF 1 \in all THEN Cardinality(all) - 1 ELSE Cardinality(all)
    BY <1>5, FS_RemoveElement
<1>8. 1 \in all <=> Notification(Head(s))
    BY <1>1 DEF Notes
<1> QED
    BY <1>5, <1>6, <1>7, <1>8

\* The notifications of all are those taken, then those in w.
Complete(taken, w, all) ==
    /\ Len(all) = Len(taken) + Cardinality(Notes(w, Len(w)))
    /\ \A i \in DOMAIN taken : all[i] = taken[i]
    /\ \A i \in DOMAIN w : Notification(w[i]) => all[Len(taken) + Cardinality(Notes(w, i))] = w[i]

\* A notification is told and goes on the wire ...
LEMMA CompleteTold ==
    ASSUME NEW S, NEW t \in Seq(S), NEW w \in Seq(S), NEW a \in Seq(S), NEW m \in S,
           Complete(t, w, a), Notification(m)
    PROVE  Complete(t, Append(w, m), Append(a, m))
<1> DEFINE v == Append(w, m)
           b == Append(a, m)
           n == Cardinality(Notes(w, Len(w)))
<1>1. /\ Len(w) \in Nat /\ DOMAIN w = 1 .. Len(w) /\ DOMAIN v = 1 .. Len(w) + 1
      /\ Len(v) = Len(w) + 1 /\ v[Len(w) + 1] = m /\ \A i \in 1 .. Len(w) : v[i] = w[i]
    BY AppendProperties, LenProperties
<1>2. /\ Len(a) \in Nat /\ Len(b) = Len(a) + 1
      /\ b[Len(a) + 1] = m /\ \A i \in 1 .. Len(a) : b[i] = a[i]
    BY AppendProperties, LenProperties
<1>3. Len(t) \in Nat /\ DOMAIN t = 1 .. Len(t)
    BY LenProperties
<1>4. n \in Nat /\ Len(a) = Len(t) + n
    BY <1>1, NotesCount DEF Complete
<1>5. /\ Cardinality(Notes(v, Len(w) + 1)) = n + 1
      /\ \A i \in 1 .. Len(w) : Notes(v, i) = Notes(w, i)
    BY <1>1, NotesOfAppend
<1>6. Len(b) = Len(t) + Cardinality(Notes(v, Len(v)))
    BY <1>1, <1>2, <1>3, <1>4, <1>5
<1>7. \A i \in DOMAIN t : b[i] = t[i]
    <2> SUFFICES ASSUME NEW i \in 1 .. Len(t) PROVE b[i] = t[i]
        BY <1>3
    <2>1. i \in 1 .. Len(a)
        BY <1>3, <1>4
    <2>2. a[i] = t[i]
        BY <1>3 DEF Complete
    <2> QED
        BY <1>2, <2>1, <2>2
<1>8. ASSUME NEW i \in DOMAIN v, Notification(v[i])
      PROVE  b[Len(t) + Cardinality(Notes(v, i))] = v[i]
    <2>1. CASE i = Len(w) + 1
        BY <1>1, <1>2, <1>3, <1>4, <1>5, <2>1
    <2>2. CASE i \in 1 .. Len(w)
        <3> DEFINE c == Cardinality(Notes(w, i))
        <3>1. v[i] = w[i] /\ Notification(w[i]) /\ Notes(v, i) = Notes(w, i)
            BY <1>1, <1>5, <1>8, <2>2
        <3>2. c \in Nat /\ c <= n /\ c >= 1
            <4>1. i \in Nat /\ i \in 0 .. Len(w) /\ i \in 0 .. i /\ i > 0
                BY <1>1, <2>2
            <4>2. Cardinality(Notes(w, i)) <= Cardinality(Notes(w, Len(w)))
                BY <1>1, <4>1, NotesCount
            <4>3. Cardinality(Notes(w, i)) \in Nat /\ Cardinality(Notes(w, i)) >= 1
                BY <3>1, <4>1, NotesCount
            <4> QED
                BY <4>2, <4>3
        <3>3. a[Len(t) + c] = w[i]
            BY <1>1, <2>2, <3>1 DEF Complete
        <3> HIDE DEF c, n
        <3>4. Len(t) + c \in 1 .. Len(a)
            BY <1>3, <1>4, <3>2
        <3>5. b[Len(t) + c] = w[i]
            BY <1>2, <3>3, <3>4
        <3> QED
            BY <3>1, <3>5 DEF c
    <2>3. i \in 1 .. Len(w) + 1
        BY <1>1
    <2>4. i \in 1 .. Len(w) \/ i = Len(w) + 1
        <3> HIDE DEF v
        <3> QED
            BY <1>1, <2>3
    <2> QED
        BY <2>1, <2>2, <2>4
<1> QED
    BY <1>6, <1>7, <1>8 DEF Complete

\* ... any other message is not.
LEMMA CompleteUntold ==
    ASSUME NEW S, NEW t \in Seq(S), NEW w \in Seq(S), NEW a \in Seq(S), NEW m \in S,
           Complete(t, w, a), ~Notification(m)
    PROVE  Complete(t, Append(w, m), a)
<1> DEFINE v == Append(w, m)
<1>1. /\ Len(w) \in Nat /\ DOMAIN w = 1 .. Len(w) /\ DOMAIN v = 1 .. Len(w) + 1
      /\ Len(v) = Len(w) + 1 /\ v[Len(w) + 1] = m /\ \A i \in 1 .. Len(w) : v[i] = w[i]
    BY AppendProperties, LenProperties
<1>2. /\ Cardinality(Notes(v, Len(w) + 1)) = Cardinality(Notes(w, Len(w)))
      /\ \A i \in 1 .. Len(w) : Notes(v, i) = Notes(w, i)
    BY <1>1, NotesOfAppend
<1>3. Len(a) = Len(t) + Cardinality(Notes(v, Len(v)))
    BY <1>1, <1>2 DEF Complete
<1>4. ASSUME NEW i \in DOMAIN v, Notification(v[i])
      PROVE  a[Len(t) + Cardinality(Notes(v, i))] = v[i]
    <2>1. i \in 1 .. Len(w)
        BY <1>1, <1>4
    <2> QED
        BY <1>1, <1>2, <1>4, <2>1 DEF Complete
<1> QED
    BY <1>3, <1>4 DEF Complete

\* The first message on the wire is taken, if it is a notification ...
LEMMA CompleteTaken ==
    ASSUME NEW S, NEW t \in Seq(S), NEW w \in Seq(S), NEW a \in Seq(S),
           Complete(t, w, a), w # <<>>, Notification(Head(w))
    PROVE  Complete(Append(t, Head(w)), Tail(w), a)
<1> DEFINE v == Tail(w)
           u == Append(t, Head(w))
<1>1. /\ Len(w) \in Nat /\ Len(w) >= 1 /\ DOMAIN w = 1 .. Len(w) /\ Head(w) = w[1] /\ Head(w) \in S
      /\ DOMAIN v = 1 .. Len(w) - 1 /\ Len(v) = Len(w) - 1
      /\ \A i \in 1 .. Len(w) - 1 : v[i] = w[i + 1]
    BY HeadTailProperties, LenProperties, EmptySeq
<1>2. /\ Len(t) \in Nat /\ DOMAIN t = 1 .. Len(t) /\ DOMAIN u = 1 .. Len(t) + 1
      /\ Len(u) = Len(t) + 1 /\ u[Len(t) + 1] = Head(w) /\ \A i \in 1 .. Len(t) : u[i] = t[i]
    BY <1>1, AppendProperties, LenProperties
<1>3. \A i \in 0 .. Len(w) - 1 : Cardinality(Notes(w, i + 1)) = Cardinality(Notes(v, i)) + 1
    BY NotesOfTail
<1>4. \A i \in 0 .. Len(w) - 1 : Cardinality(Notes(v, i)) \in Nat
    BY <1>1, NotesCount
<1>5. Len(a) = Len(u) + Cardinality(Notes(v, Len(v)))
    <2>1. Len(w) - 1 \in 0 .. Len(w) - 1 /\ (Len(w) - 1) + 1 = Len(w)
        BY <1>1
    <2>2. Cardinality(Notes(w, Len(w))) = Cardinality(Notes(v, Len(w) - 1)) + 1
        BY <1>3, <2>1
    <2>3. Cardinality(Notes(v, Len(w) - 1)) \in Nat
        BY <1>4, <2>1
    <2> QED
        BY <1>1, <1>2, <2>2, <2>3 DEF Complete
<1>6. a[Len(t) + 1] = Head(w)
    <2>1. Notes(v, 0) = {}
        BY DEF Notes
    <2>2. Cardinality(Notes(w, 1)) = 1
        <3>1. 0 \in 0 .. Len(w) - 1 /\ 0 + 1 = 1
            BY <1>1
        <3>2. Cardinality(Notes(w, 1)) = Cardinality(Notes(v, 0)) + 1
            BY <1>3, <3>1
        <3>3. Cardinality(Notes(v, 0)) = 0
            BY <2>1, FS_EmptySet
        <3> QED
            BY <3>2, <3>3
    <2> QED
        BY <1>1, <2>2 DEF Complete
<1>7. \A i \in DOMAIN u : a[i] = u[i]
    BY <1>2, <1>6 DEF Complete
<1>8. ASSUME NEW i \in DOMAIN v, Notification(v[i])
      PROVE  a[Len(u) + Cardinality(Notes(v, i))] = v[i]
    <2>1. i \in 0 .. Len(w) - 1 /\ i + 1 \in DOMAIN w /\ v[i] = w[i + 1]
        BY <1>1
    <2>2. a[Len(t) + Cardinality(Notes(w, i + 1))] = w[i + 1]
        BY <1>8, <2>1 DEF Complete
    <2>3. Len(t) + Cardinality(Notes(w, i + 1)) = Len(u) + Cardinality(Notes(v, i))
        <3>1. Cardinality(Notes(w, i + 1)) = Cardinality(Notes(v, i)) + 1 /\ Cardinality(Notes(v, i)) \in Nat
            BY <1>3, <1>4, <2>1
        <3> HIDE DEF u, v
        <3> QED
            BY <1>2, <3>1
    <2> QED
        BY <2>1, <2>2, <2>3
<1> QED
    BY <1>5, <1>7, <1>8 DEF Complete

\* ... and dropped if not.
LEMMA CompleteDropped ==
    ASSUME NEW S, NEW t \in Seq(S), NEW w \in Seq(S), NEW a \in Seq(S),
           Complete(t, w, a), w # <<>>, ~Notification(Head(w))
    PROVE  Complete(t, Tail(w), a)
<1> DEFINE v == Tail(w)
<1>1. /\ Len(w) \in Nat /\ Len(w) >= 1 /\ DOMAIN w = 1 .. Len(w)
      /\ DOMAIN v = 1 .. Len(w) - 1 /\ Len(v) = Len(w) - 1
      /\ \A i \in 1 .. Len(w) - 1 : v[i] = w[i + 1]
    BY HeadTailProperties, LenProperties, EmptySeq
<1>2. \A i \in 0 .. Len(w) - 1 : Cardinality(Notes(w, i + 1)) = Cardinality(Notes(v, i))
    BY NotesOfTail
<1>3. Len(a) = Len(t) + Cardinality(Notes(v, Len(v)))
    <2>1. Len(w) - 1 \in 0 .. Len(w) - 1 /\ (Len(w) - 1) + 1 = Len(w)
        BY <1>1
    <2>2. Cardinality(Notes(w, Len(w))) = Cardinality(Notes(v, Len(w) - 1))
        BY <1>2, <2>1
    <2> QED
        BY <1>1, <2>2 DEF Complete
<1>4. ASSUME NEW i \in DOMAIN v, Notification(v[i])
      PROVE  a[Len(t) + Cardinality(Notes(v, i))] = v[i]
    <2>1. i \in 0 .. Len(w) - 1 /\ i + 1 \in DOMAIN w /\ v[i] = w[i + 1]
        BY <1>1
    <2>2. a[Len(t) + Cardinality(Notes(w, i + 1))] = w[i + 1]
        BY <1>4, <2>1 DEF Complete
    <2> QED
        BY <1>2, <2>1, <2>2
<1> QED
    BY <1>3, <1>4 DEF Complete

(***************************************************************************)
(* The adapter and the wire                                                *)
(***************************************************************************)

LEMMA AppendToSecond ==
    ASSUME NEW S, NEW s \in Seq(S), NEW t \in Seq(S), NEW m \in S
    PROVE  s \o Append(t, m) = Append(s \o t, m)
<1>1. Append(t, m) = t \o <<m>> /\ <<m>> \in Seq(S) /\ s \o t \in Seq(S)
    BY AppendIsConcat, ConcatProperties
<1>2. Append(s \o t, m) = (s \o t) \o <<m>>
    BY <1>1, AppendIsConcat
<1>3. (s \o t) \o <<m>> = s \o (t \o <<m>>)
    BY <1>1, ConcatAssociative
<1> QED
    BY <1>1, <1>2, <1>3

LEMMA HeadThenTail ==
    ASSUME NEW S, NEW t \in Seq(S), t # <<>>
    PROVE  Head(t) \in S /\ Tail(t) \in Seq(S) /\ t = <<Head(t)>> \o Tail(t)
<1>1. Head(t) \in S /\ Tail(t) \in Seq(S) /\ Tail(t) = SubSeq(t, 2, Len(t)) /\ Head(t) = t[1]
    BY HeadTailProperties, TailIsSubSeq
<1>2. Len(t) \in Nat \ {0}
    BY EmptySeq
<1>3. 1 \in 1 .. Len(t) /\ Len(t) \in 1 .. Len(t)
    BY <1>2
<1>4. SubSeq(t, 1, Len(t)) = <<t[1]>> \o SubSeq(t, 1 + 1, Len(t))
    BY <1>3, SubSeqRecursiveFirst
<1>5. SubSeq(t, 1, Len(t)) = t
    BY SubSeqFull
<1> QED
    BY <1>1, <1>4, <1>5

LEMMA MoveHead ==
    ASSUME NEW S, NEW s \in Seq(S), NEW t \in Seq(S), t # <<>>
    PROVE  Append(s, Head(t)) \o Tail(t) = s \o t
<1>1. Head(t) \in S /\ Tail(t) \in Seq(S) /\ t = <<Head(t)>> \o Tail(t) /\ <<Head(t)>> \in Seq(S)
    BY HeadThenTail
<1>2. Append(s, Head(t)) = s \o <<Head(t)>>
    BY <1>1, AppendIsConcat
<1>3. (s \o <<Head(t)>>) \o Tail(t) = s \o (<<Head(t)>> \o Tail(t))
    BY <1>1, ConcatAssociative
<1> QED
    BY <1>1, <1>2, <1>3

LEMMA HeadOfConcat ==
    ASSUME NEW S, NEW s \in Seq(S), NEW t \in Seq(S)
    PROVE  /\ s # <<>> => Head(s \o t) = Head(s)
           /\ s = <<>> => s \o t = t
<1>1. ASSUME s # <<>> PROVE Head(s \o t) = Head(s)
    <2>1. Len(s) \in Nat \ {0} /\ Len(t) \in Nat
        BY <1>1, EmptySeq, LenProperties
    <2>2. s \o t \in Seq(S) /\ s \o t # <<>> /\ (s \o t)[1] = s[1]
        BY <2>1, ConcatProperties, EmptySeq
    <2> QED
        BY <1>1, <2>2, HeadTailProperties
<1> QED
    BY <1>1, ConcatEmptySeq

LEMMA MsgIsMessage ==
    ASSUME NEW kind \in Kind, NEW id \in Nat, NEW method \in Method \cup {"none"}
    PROVE  /\ Msg(kind, id, method) \in Message
           /\ Msg(kind, id, method).kind = kind /\ Msg(kind, id, method).method = method
BY DEF Msg, Message

\* What EventsComplete says, in terms of Complete.
LEMMA CompleteIsComplete ==
    EventsComplete <=> (~handling => Complete(events \o pending, wire, told))
BY DEF EventsComplete, Complete

\* Each step of the server writes one message; a turn that is completed stays so.
LEMMA ServerWrites ==
    ASSUME SeqOK, Tells
    PROVE  /\ UNCHANGED <<handling, pending, events, status, requestId, waiting, runner, handoff>>
           /\ inbox' \in Seq(Requests) /\ turn' \in Ending \cup {"none", "running", "refused"}
           /\ turn = "completed" => turn' = turn /\ asked' = asked
           /\ reading' => reading
           /\ \E m \in Message :
               /\ Write(m)
               /\ asked' = asked \/ m.kind = "approval"
               /\ m.method = "completed" => turn' = "completed" /\ asked' = asked
<1>1. requestId \in Nat /\ inbox \in Seq(Requests) /\ turn \in Ending \cup {"none", "running", "refused"}
    BY DEF SeqOK
<1>2. CASE Answer
    <2>1. inbox' \in Seq(Requests)
        BY <1>1, <1>2, HeadTailProperties DEF Answer
    <2> PICK kind \in {"response", "error"} :
            /\ Write(Msg(kind, requestId, "none"))
            /\ turn' = IF kind = "error" /\ Head(inbox) = "turn" /\ turn = "none" THEN "refused" ELSE turn
        BY <1>2 DEF Answer
    <2>2. LET m == Msg(kind, requestId, "none") IN m \in Message /\ m.method = "none"
        BY <1>1, MsgIsMessage DEF Kind
    <2>3. UNCHANGED <<runner, handling, client, reading, asked, handoff>>
        BY <1>2 DEF Answer
    <2> QED
        BY <1>1, <2>1, <2>2, <2>3 DEF client
<1>3. CASE Begin
    <2>1. LET m == Msg("note", 0, "started") IN m \in Message /\ m.method = "started"
        BY MsgIsMessage DEF Kind, Method
    <2> QED
        BY <1>1, <1>3, <2>1 DEF Begin, client
<1>4. CASE Notify
    <2> PICK method \in {"thread", "message", "tool", "foreign"} : Write(Msg("note", 0, method))
        BY <1>4 DEF Notify
    <2>1. LET m == Msg("note", 0, method) IN m \in Message /\ m.method = method
        BY MsgIsMessage DEF Kind, Method
    <2> QED
        BY <1>1, <1>4, <2>1 DEF Notify, client
<1>5. CASE Finish
    <2>1. turn' \in Ending /\ Ending \subseteq Method
        BY <1>5 DEF Finish, Ending, Method
    <2>2. LET m == Msg("note", 0, turn') IN m \in Message /\ m.method = turn'
        BY <2>1, MsgIsMessage DEF Kind
    <2> QED
        BY <1>1, <1>5, <2>1, <2>2 DEF Finish, client
<1>6. CASE Ask
    <2>1. LET m == Msg("approval", 0, "none") IN m \in Message /\ m.method = "none" /\ m.kind = "approval"
        BY MsgIsMessage DEF Kind
    <2> QED
        BY <1>1, <1>6, <2>1 DEF Ask, client
<1>7. CASE Foreign
    <2> PICK id \in {0, requestId} : Write(Msg("request", id, "thread"))
        BY <1>7 DEF Foreign
    <2>1. LET m == Msg("request", id, "thread") IN m \in Message /\ m.method = "thread"
        BY <1>1, MsgIsMessage DEF Kind, Method
    <2>2. UNCHANGED <<runner, handling, client, inbox, reading, turn, asked, handoff>>
        BY <1>7 DEF Foreign
    <2> QED
        BY <1>1, <2>1, <2>2 DEF client
<1>8. CASE Break
    <2> PICK kind \in {"broken", "exit"} : Write(Msg(kind, 0, "none"))
        BY <1>8 DEF Break
    <2>1. LET m == Msg(kind, 0, "none") IN m \in Message /\ m.method = "none"
        BY MsgIsMessage DEF Kind
    <2>2. ~reading' /\ UNCHANGED <<runner, handling, client, inbox, turn, asked, handoff>>
        BY <1>8 DEF Break
    <2> QED
        BY <1>1, <2>1, <2>2 DEF client
<1> QED
    BY <1>2, <1>3, <1>4, <1>5, <1>6, <1>7, <1>8 DEF Tells

LEMMA ServerTellsKeeps ==
    ASSUME SeqOK, EventsComplete, NoticeOK, CompletedUnasked, Tells
    PROVE  (SeqOK /\ EventsComplete /\ NoticeOK /\ CompletedUnasked)'
<1>1. /\ UNCHANGED <<handling, pending, events, status, requestId, waiting, runner, handoff>>
      /\ inbox' \in Seq(Requests) /\ turn' \in Ending \cup {"none", "running", "refused"}
      /\ turn = "completed" => turn' = turn /\ asked' = asked
      /\ reading' => reading
    BY ServerWrites
<1> PICK m \in Message :
      /\ Write(m)
      /\ asked' = asked \/ m.kind = "approval"
      /\ m.method = "completed" => turn' = "completed" /\ asked' = asked
    BY ServerWrites
<1>2. wire \in Seq(Message) /\ told \in Seq(Message) /\ pending \in Seq(Message) /\ events \in Seq(Message)
    BY DEF SeqOK
<1>3. \/ /\ reading /\ ~handling /\ wire' = Append(wire, m)
         /\ Notification(m) => told' = Append(told, m)
         /\ ~Notification(m) => told' = told
      \/ ~(reading /\ ~handling) /\ UNCHANGED <<wire, told>>
    BY DEF Write
<1>4. wire' \in Seq(Message) /\ told' \in Seq(Message)
    <2>1. Append(wire, m) \in Seq(Message) /\ Append(told, m) \in Seq(Message)
        BY <1>2, AppendProperties
    <2>2. wire' = wire \/ wire' = Append(wire, m)
        BY <1>3
    <2>3. told' = told \/ told' = Append(told, m)
        BY <1>3
    <2> QED
        BY <1>2, <2>1, <2>2, <2>3, Zenon
<1>5. SeqOK'
    BY <1>1, <1>4 DEF SeqOK
<1>6. EventsComplete'
    <2>1. (events \o pending)' = events \o pending /\ events \o pending \in Seq(Message)
        BY <1>1, <1>2, ConcatProperties
    <2>2. ASSUME ~handling' PROVE Complete(events \o pending, wire', told')
        <3>1. Complete(events \o pending, wire, told)
            BY <1>1, <2>2, CompleteIsComplete
        <3> DEFINE t == events \o pending
        <3>2. t \in Seq(Message) /\ Complete(t, wire, told)
            BY <2>1, <3>1
        <3> HIDE DEF t
        <3>3. CASE wire' = Append(wire, m) /\ Notification(m) /\ told' = Append(told, m)
            BY <1>2, <3>2, <3>3, CompleteTold DEF t
        <3>4. CASE wire' = Append(wire, m) /\ ~Notification(m) /\ told' = told
            BY <1>2, <3>2, <3>4, CompleteUntold DEF t
        <3>5. CASE UNCHANGED <<wire, told>>
            BY <3>1, <3>5
        <3> QED
            BY <1>3, <3>3, <3>4, <3>5
    <2> QED
        BY <2>1, <2>2 DEF EventsComplete, Complete
<1>7. (status = "completed" => turn = "completed" /\ ~asked)'
    BY <1>1 DEF NoticeOK
<1>8. ASSUME ~handling'
      PROVE  /\ \A i \in DOMAIN wire' : wire'[i].method = "completed" =>
                 /\ turn' = "completed"
                 /\ asked' => \E j \in 1 .. i - 1 : wire'[j].kind = "approval"
             /\ \A i \in DOMAIN pending : pending[i].method = "completed" => turn' = "completed" /\ ~asked'
             /\ asked' /\ reading' => \E j \in DOMAIN wire' : wire'[j].kind = "approval"
    <2>1. /\ \A i \in DOMAIN wire : wire[i].method = "completed" =>
                 /\ turn = "completed"
                 /\ asked => \E j \in 1 .. i - 1 : wire[j].kind = "approval"
          /\ asked /\ reading => \E j \in DOMAIN wire : wire[j].kind = "approval"
          /\ ~handling
        BY <1>1, <1>8 DEF NoticeOK
    <2>2. \A i \in DOMAIN pending : pending[i].method = "completed" => turn' = "completed" /\ ~asked'
        BY <1>1, <1>8 DEF NoticeOK
    <2>3. CASE UNCHANGED wire /\ ~reading
        BY <1>1, <2>1, <2>2, <2>3
    <2>4. CASE wire' = Append(wire, m) /\ reading
        <3>1. /\ Len(wire) \in Nat /\ DOMAIN wire = 1 .. Len(wire) /\ DOMAIN wire' = 1 .. Len(wire) + 1
              /\ wire'[Len(wire) + 1] = m /\ \A i \in 1 .. Len(wire) : wire'[i] = wire[i]
            BY <1>2, <2>4, AppendProperties, LenProperties
        <3>2. ASSUME NEW i \in DOMAIN wire', wire'[i].method = "completed"
              PROVE  turn' = "completed" /\ (asked' => \E j \in 1 .. i - 1 : wire'[j].kind = "approval")
            <4>1. CASE i \in 1 .. Len(wire)
                <5>1. wire[i].method = "completed" /\ i \in DOMAIN wire
                    BY <3>1, <3>2, <4>1
                <5>2. turn' = "completed" /\ asked' = asked
                    BY <1>1, <2>1, <5>1
                <5>3. ASSUME asked' PROVE \E j \in 1 .. i - 1 : wire'[j].kind = "approval"
                    <6> PICK j \in 1 .. i - 1 : wire[j].kind = "approval"
                        BY <2>1, <5>1, <5>2, <5>3
                    <6>1. j \in 1 .. Len(wire)
                        BY <3>1, <4>1
                    <6> QED
                        BY <3>1, <6>1
                <5> QED
                    BY <5>2, <5>3
            <4>2. CASE i = Len(wire) + 1
                <5>1. turn' = "completed" /\ asked' = asked
                    BY <3>1, <3>2, <4>2
                <5>2. ASSUME asked' PROVE \E j \in 1 .. i - 1 : wire'[j].kind = "approval"
                    <6> PICK j \in 1 .. Len(wire) : wire[j].kind = "approval"
                        BY <2>1, <2>4, <3>1, <5>1, <5>2
                    <6>1. wire'[j] = wire[j] /\ j \in 1 .. i - 1
                        BY <3>1, <4>2
                    <6> QED
                        BY <6>1
                <5> QED
                    BY <5>1, <5>2
            <4>3. i \in 1 .. Len(wire) \/ i = Len(wire) + 1
                BY <3>1
            <4> QED
                BY <4>1, <4>2, <4>3
        <3>3. ASSUME asked', reading' PROVE \E j \in DOMAIN wire' : wire'[j].kind = "approval"
            <4>1. CASE asked' = asked
                <5> PICK j \in 1 .. Len(wire) : wire[j].kind = "approval"
                    BY <2>1, <2>4, <3>1, <3>3, <4>1
                <5>1. wire'[j] = wire[j] /\ j \in DOMAIN wire'
                    BY <3>1
                <5> QED
                    BY <5>1
            <4>2. CASE m.kind = "approval"
                <5>1. Len(wire) + 1 \in DOMAIN wire'
                    BY <3>1
                <5> QED
                    BY <3>1, <4>2, <5>1
            <4> QED
                BY <4>1, <4>2
        <3> QED
            BY <2>2, <3>2, <3>3
    <2> QED
        BY <1>3, <2>1, <2>3, <2>4
<1>9. NoticeOK'
    BY <1>1, <1>7, <1>8 DEF NoticeOK
<1>10. CompletedUnasked'
    BY <1>1 DEF CompletedUnasked
<1> QED
    BY <1>5, <1>6, <1>9, <1>10

\* Steps of the runner that leave the wire and what was collected alone.
LEMMA QuietStep ==
    ASSUME SeqOK, EventsComplete, NoticeOK,
           UNCHANGED <<runner, requestId, pending, events, status, inbox, wire, turn, told, asked>>,
           waiting' \in Nat, handling' = TRUE \/ handling' = handling,
           (reading' => reading) \/ ~asked
    PROVE  (SeqOK /\ EventsComplete /\ NoticeOK)'
<1>1. SeqOK'
    BY DEF SeqOK
<1>2. EventsComplete'
    <2>1. CASE handling' = TRUE
        BY <2>1 DEF EventsComplete
    <2>2. CASE handling' = handling
        BY <2>2, Zenon DEF EventsComplete
    <2> QED
        BY <2>1, <2>2
<1>3. NoticeOK'
    BY DEF NoticeOK
<1> QED
    BY <1>1, <1>2, <1>3

LEMMA ServerKeeps ==
    ASSUME SeqOK, EventsComplete, NoticeOK, CompletedUnasked, ServerNext
    PROVE  (SeqOK /\ EventsComplete /\ NoticeOK /\ CompletedUnasked)'
<1>1. CASE Tells
    BY <1>1, ServerTellsKeeps
<1>2. CASE Stall
    <2>1. UNCHANGED <<handoff, turn, asked>>
        BY <1>2 DEF Stall
    <2>2. CompletedUnasked'
        BY <2>1 DEF CompletedUnasked
    <2> QED
        BY <1>2, <2>2, QuietStep DEF Stall, SeqOK, client
<1> QED
    BY <1>1, <1>2 DEF ServerNext

\* The message a request's wait takes from the wire is kept or dropped.
LEMMA AnswerStep ==
    ASSUME SeqOK, EventsComplete, NoticeOK, ~handling, ReceiveAnswer
    PROVE  (SeqOK /\ EventsComplete /\ NoticeOK)'
<1> DEFINE m == Head(wire)
<1>1. /\ wire # <<>> /\ wire' = Tail(wire)
      /\ UNCHANGED <<runner, inbox, reading, turn, told, asked, events, requestId, status>>
    BY DEF ReceiveAnswer, Raise
<1>2. /\ wire \in Seq(Message) /\ told \in Seq(Message) /\ pending \in Seq(Message) /\ events \in Seq(Message)
      /\ waiting \in Nat
    BY DEF SeqOK
<1>3. m \in Message /\ Tail(wire) \in Seq(Message)
    BY <1>1, <1>2, HeadTailProperties
<1> DEFINE Raised == Raise
           Answered == /\ m.kind = "response" /\ waiting' = 0
                       /\ UNCHANGED <<handling, requestId, pending, events, status>>
           Kept == Keep(m) /\ UNCHANGED <<todo, handling, requestId, waiting, events, status>>
<1>8. Raised \/ (~Stops(m) /\ Answered) \/ (~Stops(m) /\ Kept)
    <2>1. CASE Stops(m)
        BY <2>1 DEF ReceiveAnswer, Stops
    <2>2. CASE m.kind = "response" /\ m.id = waiting
        BY <2>2 DEF ReceiveAnswer, Stops
    <2>3. CASE m.kind \in {"error", "request"} /\ m.id = waiting
        BY <2>3 DEF ReceiveAnswer, Stops
    <2>4. CASE ~Stops(m) /\ m.id # waiting
        BY <2>4 DEF ReceiveAnswer
    <2>5. CASE ~Stops(m) /\ m.kind \notin {"response", "error", "request"}
        BY <2>5 DEF ReceiveAnswer
    <2> QED
        BY <2>1, <2>2, <2>3, <2>4, <2>5
<1>9. \/ handling' = TRUE /\ waiting' = 0 /\ pending' = pending
      \/ /\ ~Stops(m) /\ handling' = handling /\ waiting' \in {0, waiting}
         /\ Notification(m) => pending' = Append(pending, m)
         /\ ~Notification(m) => pending' = pending
    <2>1. CASE Raised
        BY <2>1 DEF Raise
    <2>2. CASE ~Stops(m) /\ Answered
        BY <2>2 DEF Notification
    <2>3. CASE ~Stops(m) /\ Kept
        BY <2>3 DEF Keep
    <2> QED
        BY <1>8, <2>1, <2>2, <2>3
<1>4. waiting' \in Nat /\ handling' \in BOOLEAN /\ pending' \in {pending, Append(pending, m)}
    <2>1. waiting' \in {0, waiting}
        BY <1>9
    <2>2. handling' = TRUE \/ handling' = handling
        BY <1>9
    <2>3. pending' = pending \/ pending' = Append(pending, m)
        BY <1>9
    <2>4. handling' \in BOOLEAN
        BY <2>2, Zenon DEF SeqOK
    <2>5. waiting' \in Nat
        BY <1>2, <2>1
    <2> QED
        BY <2>3, <2>4, <2>5
<1>5. SeqOK'
    <2>1. Append(pending, m) \in Seq(Message)
        BY <1>2, <1>3, AppendProperties
    <2> QED
        BY <1>1, <1>3, <1>4, <2>1 DEF SeqOK
<1>6. CASE handling' = TRUE
    BY <1>1, <1>5, <1>6 DEF EventsComplete, NoticeOK
<1>7. CASE ~handling'
    <2>1. ~Stops(m)
        BY <1>7, <1>9
    <2>2. /\ Notification(m) => pending' = Append(pending, m)
          /\ ~Notification(m) => pending' = pending
        BY <1>7, <1>9
    <2>3. EventsComplete'
        <3> DEFINE t == events \o pending
        <3>1. t \in Seq(Message) /\ Complete(t, wire, told)
            BY <1>2, CompleteIsComplete, ConcatProperties
        <3>2. CASE Notification(m)
            <4>1. events \o Append(pending, m) = Append(t, m)
                BY <1>2, <1>3, AppendToSecond
            <4>2. Complete(Append(t, m), Tail(wire), told)
                <5> HIDE DEF t
                <5> QED
                    BY <1>1, <1>2, <3>1, <3>2, CompleteTaken
            <4>3. Complete((events \o pending)', wire', told')
                BY <1>1, <2>2, <3>2, <4>1, <4>2
            <4> QED
                BY <4>3 DEF EventsComplete, Complete
        <3>3. CASE ~Notification(m)
            <4>1. Complete(t, Tail(wire), told)
                <5> HIDE DEF t
                <5> QED
                    BY <1>1, <1>2, <3>1, <3>3, CompleteDropped
            <4>2. Complete((events \o pending)', wire', told')
                BY <1>1, <2>2, <3>3, <4>1
            <4> QED
                BY <4>2 DEF EventsComplete, Complete
        <3> QED
            BY <3>2, <3>3
    <2>4. NoticeOK'
        <3>1. /\ Len(wire) \in Nat /\ Len(wire) >= 1 /\ DOMAIN wire = 1 .. Len(wire) /\ m = wire[1]
              /\ DOMAIN wire' = 1 .. Len(wire) - 1
              /\ \A i \in 1 .. Len(wire) - 1 : wire'[i] = wire[i + 1]
            BY <1>1, <1>2, HeadTailProperties, LenProperties, EmptySeq
        <3>2. m.kind # "approval"
            BY <2>1 DEF Stops
        <3>3. ASSUME NEW i \in DOMAIN wire', wire'[i].method = "completed"
              PROVE  turn = "completed" /\ (asked => \E j \in 1 .. i - 1 : wire'[j].kind = "approval")
            <4>1. i + 1 \in DOMAIN wire /\ wire[i + 1].method = "completed" /\ i \in Nat
                BY <3>1, <3>3
            <4>2. turn = "completed" /\ (asked => \E j \in 1 .. (i + 1) - 1 : wire[j].kind = "approval")
                BY <4>1 DEF NoticeOK
            <4>3. ASSUME asked PROVE \E j \in 1 .. i - 1 : wire'[j].kind = "approval"
                <5> PICK j \in 1 .. (i + 1) - 1 : wire[j].kind = "approval"
                    BY <4>2, <4>3
                <5>1. j # 1
                    BY <3>1, <3>2
                <5>2. j - 1 \in 1 .. i - 1 /\ j - 1 \in 1 .. Len(wire) - 1 /\ (j - 1) + 1 = j
                    BY <3>1, <4>1, <5>1
                <5>3. wire'[j - 1] = wire[j]
                    BY <3>1, <5>2
                <5> QED
                    BY <5>2, <5>3
            <4> QED
                BY <4>2, <4>3
        <3>4. ASSUME asked, reading PROVE \E j \in DOMAIN wire' : wire'[j].kind = "approval"
            <4> PICK j \in 1 .. Len(wire) : wire[j].kind = "approval"
                BY <3>1, <3>4 DEF NoticeOK
            <4>1. j # 1
                BY <3>1, <3>2
            <4>2. j - 1 \in 1 .. Len(wire) - 1 /\ (j - 1) + 1 = j
                BY <3>1, <4>1
            <4>3. wire'[j - 1] = wire[j]
                BY <3>1, <4>2
            <4> QED
                BY <3>1, <4>2, <4>3
        <3>5. ASSUME NEW i \in DOMAIN pending', pending'[i].method = "completed"
              PROVE  turn = "completed" /\ ~asked
            <4>1. CASE pending' = pending
                BY <3>5, <4>1 DEF NoticeOK
            <4>2. CASE pending' = Append(pending, m)
                <5>1. /\ DOMAIN pending = 1 .. Len(pending) /\ DOMAIN pending' = 1 .. Len(pending) + 1 /\ Len(pending) \in Nat
                      /\ pending'[Len(pending) + 1] = m /\ \A k \in 1 .. Len(pending) : pending'[k] = pending[k]
                    BY <1>2, <1>3, <4>2, AppendProperties, LenProperties
                <5>2. CASE i \in 1 .. Len(pending)
                    BY <3>5, <5>1, <5>2 DEF NoticeOK
                <5>3. CASE i = Len(pending) + 1
                    <6>1. wire[1].method = "completed" /\ 1 \in DOMAIN wire /\ 1 .. 1 - 1 = {}
                        BY <3>1, <3>5, <5>1, <5>3
                    <6> QED
                        BY <6>1 DEF NoticeOK
                <5>4. i \in 1 .. Len(pending) \/ i = Len(pending) + 1
                    BY <5>1
                <5> QED
                    BY <5>2, <5>3, <5>4
            <4> QED
                BY <1>4, <4>1, <4>2
        <3> QED
            BY <1>1, <3>3, <3>4, <3>5 DEF NoticeOK
    <2> QED
        BY <1>5, <2>3, <2>4
<1> QED
    BY <1>4, <1>6, <1>7

\* What receive_turn takes, from what was kept or from the wire, is collected.
LEMMA EventStep ==
    ASSUME SeqOK, EventsComplete, NoticeOK, ~handling, ReceiveEvent
    PROVE  (SeqOK /\ EventsComplete /\ NoticeOK)'
<1> DEFINE m == Head(pending \o wire)
<1>1. /\ wire \in Seq(Message) /\ told \in Seq(Message) /\ pending \in Seq(Message) /\ events \in Seq(Message)
      /\ waiting \in Nat
    BY DEF SeqOK
<1>2. /\ UNCHANGED <<runner, inbox, reading, turn, told, asked, requestId>> /\ pending \o wire # <<>>
      /\ pending # <<>> => wire' = wire
      /\ pending = <<>> => wire' = Tail(wire)
    BY DEF ReceiveEvent, Raise
<1>3. \/ /\ Notification(m) /\ events' = Append(events, m)
         /\ pending' = IF pending # <<>> THEN Tail(pending) ELSE pending
         /\ status' = IF m.method \in Ending THEN m.method ELSE status
         /\ UNCHANGED <<handling, waiting>>
      \/ Raise
    BY DEF ReceiveEvent
<1>4. /\ pending # <<>> => m = Head(pending) /\ m \in Message /\ Tail(pending) \in Seq(Message)
      /\ pending = <<>> => wire # <<>> /\ m = Head(wire) /\ m \in Message /\ Tail(wire) \in Seq(Message)
    BY <1>1, <1>2, HeadOfConcat, HeadThenTail
<1>5. waiting' \in Nat /\ wire' \in Seq(Message) /\ handling' \in BOOLEAN
    <2>1. wire' = wire \/ (pending = <<>> /\ wire' = Tail(wire))
        BY <1>2
    <2>2. waiting' \in {0, waiting}
        BY <1>3 DEF Raise
    <2>3. handling' = TRUE \/ handling' = handling
        BY <1>3 DEF Raise
    <2>4. handling' \in BOOLEAN
        BY <2>3, Zenon DEF SeqOK
    <2>5. waiting' \in Nat
        BY <1>1, <2>2
    <2>6. wire' \in Seq(Message)
        BY <1>1, <1>4, <2>1
    <2> QED
        BY <2>4, <2>5, <2>6
<1>6. CASE Raise
    <2>1. SeqOK'
        BY <1>2, <1>5, <1>6 DEF Raise, SeqOK
    <2> QED
        BY <1>2, <1>6, <2>1 DEF Raise, EventsComplete, NoticeOK
<1>7. CASE /\ Notification(m) /\ events' = Append(events, m)
           /\ pending' = IF pending # <<>> THEN Tail(pending) ELSE pending
           /\ status' = IF m.method \in Ending THEN m.method ELSE status
           /\ UNCHANGED <<handling, waiting>>
    <2>1. m \in Message /\ events' \in Seq(Message) /\ pending' \in Seq(Message)
        BY <1>1, <1>4, <1>7, AppendProperties
    <2>2. SeqOK'
        BY <1>2, <1>5, <1>7, <2>1 DEF SeqOK
    <2>3. Complete(events \o pending, wire, told)
        BY CompleteIsComplete
    <2>4. Complete((events \o pending)', wire', told')
        <3>1. CASE pending # <<>>
            <4>1. Append(events, m) \o Tail(pending) = events \o pending
                BY <1>1, <1>4, <3>1, MoveHead
            <4> QED
                BY <1>2, <1>7, <2>3, <3>1, <4>1
        <3>2. CASE pending = <<>>
            <4>1. events \o pending = events /\ Append(events, m) \o pending = Append(events, m)
                BY <1>1, <1>7, <2>1, <3>2, ConcatEmptySeq
            <4>2. Complete(events, wire, told)
                BY <2>3, <4>1
            <4>3. wire # <<>> /\ m = Head(wire)
                BY <1>4, <3>2
            <4>4. Complete(Append(events, m), Tail(wire), told)
                BY <1>1, <1>7, <4>2, <4>3, CompleteTaken
            <4>5. (events \o pending)' = Append(events, m) /\ wire' = Tail(wire) /\ told' = told
                BY <1>2, <1>7, <3>2, <4>1
            <4> QED
                BY <4>4, <4>5
        <3> QED
            BY <3>1, <3>2
    <2>5. EventsComplete'
        BY <2>4 DEF EventsComplete, Complete
    <2>6. m.method = "completed" => turn = "completed" /\ ~asked
        <3>1. CASE pending # <<>>
            <4>1. m = pending[1] /\ 1 \in DOMAIN pending
                BY <1>1, <1>4, <3>1, HeadTailProperties, LenProperties, EmptySeq
            <4> QED
                BY <4>1 DEF NoticeOK
        <3>2. CASE pending = <<>>
            <4>1. m = wire[1] /\ 1 \in DOMAIN wire /\ 1 .. 1 - 1 = {}
                BY <1>1, <1>4, <3>2, HeadTailProperties, LenProperties, EmptySeq
            <4> QED
                BY <4>1 DEF NoticeOK
        <3> QED
            BY <3>1, <3>2
    <2>7. status' = "completed" => turn = "completed" /\ ~asked
        BY <1>7, <2>6 DEF NoticeOK
    <2>8. ASSUME NEW i \in DOMAIN pending', pending'[i].method = "completed"
          PROVE  turn = "completed" /\ ~asked
        <3>1. CASE pending = <<>>
            BY <1>7, <2>8, <3>1 DEF NoticeOK
        <3>2. CASE pending # <<>>
            <4>1. pending' = Tail(pending) /\ Len(pending) \in Nat /\ DOMAIN pending = 1 .. Len(pending)
                  /\ DOMAIN pending' = 1 .. Len(pending) - 1
                  /\ \A k \in 1 .. Len(pending) - 1 : pending'[k] = pending[k + 1]
                BY <1>1, <1>7, <3>2, HeadTailProperties, LenProperties
            <4>2. i + 1 \in DOMAIN pending /\ pending[i + 1].method = "completed"
                BY <2>8, <4>1
            <4> QED
                BY <4>2 DEF NoticeOK
        <3> QED
            BY <3>1, <3>2
    <2>9. NoticeOK'
        <3>1. CASE pending # <<>>
            BY <1>2, <1>7, <2>7, <2>8, <3>1 DEF NoticeOK
        <3>2. CASE pending = <<>>
            <4>1. /\ Len(wire) \in Nat /\ Len(wire) >= 1 /\ DOMAIN wire = 1 .. Len(wire) /\ m = wire[1]
                  /\ DOMAIN wire' = 1 .. Len(wire) - 1
                  /\ \A i \in 1 .. Len(wire) - 1 : wire'[i] = wire[i + 1]
                BY <1>1, <1>2, <1>4, <3>2, HeadTailProperties, LenProperties, EmptySeq
            <4>2. wire[1].kind # "approval"
                BY <1>7, <4>1 DEF Notification
            <4>3. ASSUME NEW i \in DOMAIN wire', wire'[i].method = "completed"
                  PROVE  turn = "completed" /\ (asked => \E j \in 1 .. i - 1 : wire'[j].kind = "approval")
                <5>1. i + 1 \in DOMAIN wire /\ wire[i + 1].method = "completed" /\ i \in Nat
                    BY <4>1, <4>3
                <5>2. turn = "completed" /\ (asked => \E j \in 1 .. (i + 1) - 1 : wire[j].kind = "approval")
                    BY <5>1 DEF NoticeOK
                <5>3. ASSUME asked PROVE \E j \in 1 .. i - 1 : wire'[j].kind = "approval"
                    <6> PICK j \in 1 .. (i + 1) - 1 : wire[j].kind = "approval"
                        BY <5>2, <5>3
                    <6>1. j # 1
                        BY <4>2
                    <6>2. j - 1 \in 1 .. i - 1 /\ j - 1 \in 1 .. Len(wire) - 1 /\ (j - 1) + 1 = j
                        BY <4>1, <5>1, <6>1
                    <6>3. wire'[j - 1] = wire[j]
                        BY <4>1, <6>2
                    <6> QED
                        BY <6>2, <6>3
                <5> QED
                    BY <5>2, <5>3
            <4>4. ASSUME asked, reading PROVE \E j \in DOMAIN wire' : wire'[j].kind = "approval"
                <5> PICK j \in 1 .. Len(wire) : wire[j].kind = "approval"
                    BY <4>1, <4>4 DEF NoticeOK
                <5>1. j # 1
                    BY <4>2
                <5>2. j - 1 \in 1 .. Len(wire) - 1 /\ (j - 1) + 1 = j
                    BY <4>1, <5>1
                <5>3. wire'[j - 1] = wire[j]
                    BY <4>1, <5>2
                <5> QED
                    BY <4>1, <5>2, <5>3
            <4> QED
                BY <1>2, <2>7, <2>8, <4>3, <4>4 DEF NoticeOK
        <3> QED
            BY <3>1, <3>2
    <2> QED
        BY <2>2, <2>5, <2>9
<1> QED
    BY <1>3, <1>6, <1>7

(***************************************************************************)
(* The invariant                                                           *)
(***************************************************************************)

LEMMA RunnerKeeps ==
    ASSUME SeqOK, OnScript, OnHandler, EventsComplete, NoticeOK, CompletedUnasked, RunnerNext
    PROVE  (SeqOK /\ EventsComplete /\ NoticeOK /\ CompletedUnasked)'
<1>1. waiting \in Nat /\ requestId \in Nat /\ runner \in Runner /\ inbox \in Seq(Requests)
    BY DEF SeqOK
<1>2. ASSUME Raise, UNCHANGED <<runner, inbox, wire, reading, turn, told, asked>>
      PROVE  (SeqOK /\ EventsComplete /\ NoticeOK)'
    BY <1>2, QuietStep DEF Raise
<1>3. UNCHANGED <<turn, asked>> /\ (handoff' = "COMPLETED" => handoff = "COMPLETED" \/ status = "completed")
    BY DEF RunnerNext, Lease, Send, Resend, Look, Spawn, Record, Fail, Close, Release, Through,
           Discover, Try, Greet, CloseProbe, InPreflight, Breaks, LeaseBusy, Request, ReceiveAnswer, ReceiveEvent, TimeOut, server
<1>4. CompletedUnasked'
    BY <1>3 DEF CompletedUnasked, NoticeOK
<1>5. CASE \/ Lease \/ Send \/ Resend \/ Look \/ Record \/ Fail \/ Release \/ LeaseBusy
           \/ Discover \/ Try \/ Greet \/ (CloseProbe /\ probe = "greeted")
    <2>1. UNCHANGED <<runner, handling, client, server>>
        BY <1>5 DEF Lease, Send, Resend, Look, Record, Fail, Release, LeaseBusy, Through,
                    Discover, Try, Greet, CloseProbe, Through, InPreflight
    <2> QED
        BY <1>1, <1>4, <2>1, QuietStep DEF client, server
<1>6. CASE Close
    BY <1>1, <1>4, <1>6, QuietStep DEF Close, client, Through
<1>7. CASE Spawn
    <2>1. ~handling
        BY <1>7, RestSteps DEF OnHandler, Spawn, Through
    <2> PICK k \in 1 .. 15 : At(k) /\ PlaceOK(k)
        BY <2>1 DEF OnScript
    <2>2. k = SpawnAt[runner] /\ SpawnAt[runner] \in 3 .. 5
        BY <1>1, <1>7, PlaceOfStep, SpawnPlaces, RunnerAssumption DEF Spawn, Through
    <2>3. ~asked
        BY <2>2 DEF PlaceOK
    <2> QED
        BY <1>1, <1>4, <1>7, <2>3, QuietStep DEF Spawn, client, Through
<1>8. CASE Breaks \/ TimeOut \/ (CloseProbe /\ probe # "greeted")
    BY <1>2, <1>4, <1>8 DEF Breaks, TimeOut, CloseProbe, InPreflight, server
<1>9. CASE \E r \in Requests : Request(r)
    <2> PICK r \in Requests : Request(r)
        BY <1>9
    <2>1. CASE ~alive
        BY <1>2, <1>4, <2>1 DEF Request
    <2>2. CASE alive
        <3>1. requestId' \in Nat /\ waiting' \in Nat /\ inbox' \in Seq(Requests)
            BY <1>1, <2>2, AppendProperties DEF Request
        <3>2. UNCHANGED <<runner, handling, pending, events, status, wire, reading, turn, told, asked>>
            BY <2>2 DEF Request
        <3>3. SeqOK'
            BY <3>1, <3>2 DEF SeqOK
        <3>4. EventsComplete' /\ NoticeOK'
            BY <3>2, Zenon DEF EventsComplete, NoticeOK
        <3> QED
            BY <1>4, <3>3, <3>4
    <2> QED
        BY <2>1, <2>2
<1>10. CASE ReceiveAnswer \/ ReceiveEvent
    <2>1. ~handling
        <3>1. ~(waiting > 0 /\ handling)
            BY <1>1 DEF OnHandler
        <3>2. ~(Do("receive") /\ handling)
            BY RestSteps DEF OnHandler
        <3>3. ReceiveAnswer => waiting > 0
            BY DEF ReceiveAnswer
        <3>4. ReceiveEvent => Do("receive")
            BY DEF ReceiveEvent
        <3> QED
            BY <1>10, <3>1, <3>2, <3>3, <3>4
    <2> QED
        BY <1>4, <1>10, <2>1, AnswerStep, EventStep
<1> QED
    BY <1>5, <1>6, <1>7, <1>8, <1>9, <1>10 DEF RunnerNext

LEMMA InitSession == Init => SessionInv
<1> SUFFICES ASSUME Init PROVE SessionInv
    OBVIOUS
<1>1. SeqOK
    BY EmptySeq DEF Init, SeqOK
<1>2. At(1) /\ PlaceOK(1)
    <2>1. Script[runner] \in Seq(Steps) /\ Len(Script[runner]) \in 11 .. 13 /\ runner \in Runner
        BY ScriptsAreSequences DEF Init
    <2>2. SubSeq(Script[runner], 1, Len(Script[runner])) = Script[runner]
        BY <2>1, SubSeqFull
    <2>3. At(1)
        BY <2>1, <2>2 DEF At, Init
    <2> QED
        BY <2>3 DEF PlaceOK, Init
<1>3. OnScript /\ OnHandler /\ WaitOK /\ ProbeOK
    BY <1>2 DEF OnScript, OnHandler, WaitOK, ProbeOK, Probing, Init
<1>4. EventsComplete
    <2>1. events \o pending = <<>> /\ Len(<<>>) = 0 /\ DOMAIN <<>> = {}
        BY DEF Init
    <2>2. Notes(wire, 0) = {} /\ Cardinality({}) = 0
        BY FS_EmptySet DEF Notes
    <2>3. told = <<>> /\ wire = <<>> /\ DOMAIN (events \o pending) = {} /\ Len(events \o pending) = 0
        BY <2>1 DEF Init
    <2>4. Len(told) = 0 /\ Len(wire) = 0 /\ DOMAIN wire = {}
        BY <2>1, <2>3
    <2>5. Complete(events \o pending, wire, told)
        BY <2>2, <2>3, <2>4 DEF Complete
    <2> QED
        BY <2>5, CompleteIsComplete
<1>5. NoticeOK /\ CompletedUnasked
    BY DEF Init, NoticeOK, CompletedUnasked
<1> QED
    BY <1>1, <1>3, <1>4, <1>5 DEF SessionInv

LEMMA NextSession == SessionInv /\ [Next]_vars => SessionInv'
<1> SUFFICES ASSUME SessionInv, [Next]_vars PROVE SessionInv'
    OBVIOUS
<1> USE DEF SessionInv
<1>1. CASE RunnerNext
    <2>1. (OnScript /\ OnHandler /\ WaitOK)'
        BY <1>1, HandlingStep, ScriptStep
    <2> QED
        BY <1>1, <2>1, RunnerKeeps, ProbeStep
<1>2. CASE ServerNext
    BY <1>2, ServerStep, ServerKeeps, ProbeStep
<1>3. CASE UNCHANGED vars
    <2>1. (SeqOK /\ WaitOK /\ CompletedUnasked)'
        BY <1>3 DEF vars, SeqOK, WaitOK, CompletedUnasked
    <2>4. OnScript'
        BY <1>3 DEF vars, OnScript, At, PlaceOK
    <2>5. OnHandler'
        BY <1>3 DEF vars, OnHandler
    <2>3. ProbeOK'
        BY <1>3 DEF vars, ProbeOK, Probing, Do
    <2>2. EventsComplete' /\ NoticeOK'
        BY <1>3, Zenon DEF vars, EventsComplete, NoticeOK
    <2> QED
        BY <2>1, <2>2, <2>3, <2>4, <2>5
<1> QED
    BY <1>1, <1>2, <1>3 DEF Next, Over

\* A runner is at a place of its script or in its handler with what that place
\* guarantees, and the pipe holds what the server told and nobody took yet: the
\* inductive invariant behind the next three theorems.
THEOREM SessionInductive == SessionSpec => []SessionInv
BY InitSession, NextSession, PTL DEF SessionSpec

\* As long as the adapter has raised nothing, what receive_turn has collected,
\* what _request has kept for it and what is still in the pipe are together all
\* notifications of the server, each once and in order: for any number of them.
THEOREM NothingIsLost == SessionSpec => []EventsComplete
<1>1. SessionInv => EventsComplete
    BY DEF SessionInv
<1> QED
    BY <1>1, SessionInductive, PTL

\* In whatever order a runner's script and its except and finally blocks meet
\* the server's answers, its exit or a deadline: the server of the dispatcher
\* and of codex_dispatch_once runs under the lease only, the dispatcher settles
\* no handoff whose worker may still run, the preflight's server is gone before the
\* worker's is launched, and a runner that is through has left neither behind.
THEOREM WorkersAreStopped == SessionSpec => []WorkerIsStopped
<1>1. SessionInv => WorkerIsStopped
    BY StoppedInPlace DEF SessionInv, SeqOK
<1> QED
    BY <1>1, SessionInductive, PTL

\* No turn is recorded as completed over a request for approval: the end of the
\* turn stands in the pipe behind it.
THEOREM CompletedIsUnasked == SessionSpec => []CompletedUnasked
<1>1. SessionInv => CompletedUnasked
    BY DEF SessionInv
<1> QED
    BY <1>1, SessionInductive, PTL
=============================================================================
