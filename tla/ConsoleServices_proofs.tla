------------------------ MODULE ConsoleServices_proofs ------------------------
(***************************************************************************)
(* For any number of frames and any output: no child, no descriptor and no *)
(* unpaired audit line outlives a terminal session, but for an error that  *)
(* comes between the fork and the session's record.  For any number of     *)
(* threads, keys and versions: once the first collections are over, the    *)
(* cached overview never goes back to an older state.                      *)
(***************************************************************************)
EXTENDS ConsoleServices, SequenceTheorems, TLAPS

(***************************************************************************)
(* The terminal session                                                    *)
(***************************************************************************)

\* What the handler holds at each of its steps.
Held ==
    /\ at \in {"opening", "alive", "select", "output", "frame", "telling", "hangup",
               "polling", "closing", "closed", "done"}
    /\ shell \in {"none", "running", "exited", "reaped"}
    /\ at = "opening" => shell = "none" /\ fd = "none" /\ audit = <<>>
    /\ at \in {"alive", "select", "output", "frame", "hangup", "polling"} =>
           shell # "none" /\ fd = "open" /\ audit = <<"opened">>
    /\ at = "closing" => shell = "reaped" /\ fd = "open" /\ audit = <<"opened">>
    /\ at = "telling" =>
           \/ fd = "lost"
           \/ shell = "none" /\ fd = "none"
           \/ shell # "none" /\ fd = "open"
    /\ at \in {"closed", "done"} =>
           \/ fd = "lost"
           \/ shell = "none" /\ fd = "none"
           \/ shell = "reaped" /\ fd = "closed"
    /\ at \in {"telling", "closed"} => audit = <<"opened">>
    /\ at = "done" => audit = <<"opened", "closed">>

LEMMA AppendToOne == ASSUME NEW a, NEW b PROVE Append(<<a>>, b) = <<a, b>>
<1> DEFINE S == {a, b}
           s == Append(<<a>>, b)
           t == <<a, b>>
<1>1. <<a>> \in Seq(S) /\ b \in S /\ t \in Seq(S)
    OBVIOUS
<1>2. Len(t) = 2 /\ t[1] = a /\ t[2] = b
    OBVIOUS
<1> HIDE DEF S
<1>3. s \in Seq(S) /\ Len(s) = 2 /\ s[1] = a /\ s[2] = b
    BY <1>1, AppendProperties
<1> HIDE DEF s, t
<1>4. \A i \in 1 .. Len(s) : s[i] = t[i]
    BY <1>2, <1>3
<1>5. s = t
    BY <1>1, <1>2, <1>3, <1>4, SeqEqual
<1> QED
    BY <1>5 DEF s, t

\* Before the session ends the handler only moves between its waits.
Waits == {"alive", "select", "output", "frame", "hangup"}

LEMMA WaitsHeld ==
    ASSUME Held, at \in Waits, at' \in Waits \cup {"polling"}, UNCHANGED <<fd, audit>>,
           shell' \in {"running", "exited", "reaped"}
    PROVE  Held'
BY DEF Held, Waits

LEMMA ReapHeld ==
    ASSUME Held, at \in Waits \cup {"polling"}, Reap
    PROVE  shell' \in {"running", "exited", "reaped"}
BY DEF Held, Waits, Reap

LEMMA HeldInit == TerminalInit => Held
BY DEF TerminalInit, Held

LEMMA HeldStep == Held /\ [TerminalNext]_terminalVars => Held'
<1> SUFFICES ASSUME Held, [TerminalNext]_terminalVars PROVE Held'
    OBVIOUS
<1>1. CASE Open
    BY <1>1, SMT DEF Open, Goto, Held
<1>2. CASE Alive
    BY <1>2, WaitsHeld, ReapHeld DEF Alive, Goto, Waits
<1>3. CASE Select
    <2>1. at' \in {"output", "frame", "alive"}
        BY <1>3 DEF Select, Goto, StepFor
    <2> QED
        BY <1>3, <2>1, WaitsHeld DEF Select, outside, Waits, Held
<1>4. CASE RelayOutput \/ ReceiveFrame \/ LostClient
    <2>1. /\ at \in {"output", "frame"} /\ at' \in Waits \cup {"telling"}
          /\ UNCHANGED <<fd, shell, audit>>
        BY <1>4 DEF RelayOutput, ReceiveFrame, LostClient, outside, Goto, AfterOutput, Waits
    <2>2. CASE at' = "telling"
        BY <2>1, <2>2 DEF Held
    <2>3. CASE at' \in Waits
        BY <2>1, <2>3, WaitsHeld DEF Waits, Held
    <2> QED
        BY <2>1, <2>2, <2>3
<1>5. CASE EndOfOutput
    BY <1>5, WaitsHeld, ReapHeld DEF EndOfOutput, Goto, AfterOutput, Waits
<1>6. CASE HangUp
    <2>1. shell' \in {"running", "exited", "reaped"}
        BY <1>6 DEF HangUp, Held
    <2> QED
        BY <1>6, <2>1, WaitsHeld DEF HangUp, Goto, Waits
<1>7. CASE Gone
    BY <1>7 DEF Gone, Goto, Reap, Held
<1>8. CASE Kill
    BY <1>8 DEF Kill, Goto, Held
<1>9. CASE CloseFd
    BY <1>9 DEF CloseFd, Goto, outside, Held
<1>10. CASE AuditClosed
    <2>1. audit = <<"opened">> /\ audit' = Append(audit, "closed")
        BY <1>10 DEF AuditClosed, Held
    <2>2. Append(<<"opened">>, "closed") = <<"opened", "closed">>
        BY AppendToOne
    <2> QED
        BY <1>10, <2>1, <2>2 DEF AuditClosed, Goto, outside, Held
<1>11. CASE Send \/ SendRest \/ Stall \/ Leave \/ ShellPrints \/ UNCHANGED terminalVars
    <2>1. UNCHANGED <<at, fd, shell, audit>>
        BY <1>11 DEF Send, SendRest, Stall, Leave, ShellPrints, terminalVars
    <2> QED
        BY <2>1 DEF Held
<1>12. CASE ShellExits
    BY <1>12 DEF ShellExits, Held
<1>13. CASE Tell
    BY <1>13 DEF Tell, Goto, outside, Held
<1> QED
    BY <1>1, <1>2, <1>3, <1>4, <1>5, <1>6, <1>7, <1>8, <1>9, <1>10, <1>11, <1>12, <1>13
       DEF TerminalNext, Handler

\* Where the handler stands determines what is held: the inductive invariant.
THEOREM HeldAlways == TerminalSpec => []Held
BY HeldInit, HeldStep, PTL DEF TerminalSpec

\* However a session ends, its audit lines are paired and nothing of it is left,
\* unless PtySession.open failed after the fork.
THEOREM NothingEverOutlives == TerminalSpec => []NothingOutlives
<1>1. Held => NothingOutlives
    BY DEF Held, NothingOutlives
<1> QED
    BY <1>1, HeldAlways, PTL

(***************************************************************************)
(* The overview cache                                                      *)
(***************************************************************************)

\* The records of requests and refreshes.
RequestType == [step : Step, key : Public \cup {NoRequest.key}, value : 0 .. now]
RefreshType == [step : Work, value : 0 .. now, early : BOOLEAN]

CacheTypeOK ==
    /\ now \in Nat \ {0} /\ refreshing \subseteq Public
    /\ cache \in [Public -> 0 .. now]
    /\ request \in [Thread -> RequestType]
    /\ \A t \in Thread : request[t].step # "idle" => request[t].key \in Public
    /\ refresh \in [Thread -> [Public -> RefreshType]]

\* Who a refresh of k that was begun is with: a request that still has to start
\* the thread, or the thread of a request.
Spawning(t, k) == request[t].step = "spawning" /\ request[t].key = k
Refreshing(t, k) == refresh[t][k].step # "none"

\* A refresh is with one thread only.
OneRefresh ==
    \A t \in Thread, k \in Public :
        /\ Spawning(t, k) \/ Refreshing(t, k) => k \in refreshing
        /\ ~ (Spawning(t, k) /\ Refreshing(t, k))
        /\ \A u \in Thread : (Spawning(t, k) \/ Refreshing(t, k)) /\ (Spawning(u, k) \/ Refreshing(u, k)) => t = u

\* A value on its way into the cache is of something.
Collected ==
    /\ \A t \in Thread : request[t].step = "collected" => request[t].value # Empty
    /\ \A t \in Thread, k \in Public : refresh[t][k].step = "collected" => refresh[t][k].value # Empty

\* A refresh that began after the first overview was there finds it, and no request
\* that began before; what it has collected is not older than what is there.
LateOK ==
    \A t \in Thread, k \in Public : Refreshing(t, k) /\ ~refresh[t][k].early =>
        /\ cache[k] # Empty /\ ~Cold(k)
        /\ refresh[t][k].step = "collected" => refresh[t][k].value >= cache[k]

CacheInv == CacheTypeOK /\ OneRefresh /\ Collected /\ LateOK

LEMMA CacheInvInit == CacheInit => CacheInv
<1> SUFFICES ASSUME CacheInit PROVE CacheInv
    OBVIOUS
<1> DEFINE R == [step : Step, key : Public \cup {NoRequest.key}, value : 0 .. 1]
           W == [step : Work, value : 0 .. 1, early : BOOLEAN]
           S(k) == [step |-> "spawning", key |-> k, value |-> Empty]
<1>1. NoRequest \in R /\ NoRequest.step = "idle"
    BY DEF NoRequest, Step, Empty
<1>2. NoWork \in W /\ NoWork.step = "none"
    BY DEF NoWork, Work, Empty
<1>3. /\ \A t \in Thread, k \in Public : refresh[t][k] = NoWork
      /\ refresh \in [Thread -> [Public -> W]]
    BY <1>2 DEF CacheInit
<1>4. now = 1 /\ cache \in [Public -> 0 .. 1] /\ refreshing \subseteq Public
    BY DEF CacheInit, Empty
<1>5. \A k \in Public : S(k) \in R /\ S(k).step = "spawning" /\ S(k).key = k
    BY DEF Step, Empty
<1>6. \/ refreshing = {} /\ request = [t \in Thread |-> NoRequest]
      \/ \E t \in Thread, k \in Public :
            refreshing = {k} /\ request = [u \in Thread |-> IF u = t THEN S(k) ELSE NoRequest]
    BY DEF CacheInit
<1> HIDE DEF R, W, S
<1>7. /\ request \in [Thread -> R]
      /\ \A t \in Thread : request[t].step # "idle" =>
            request[t].step = "spawning" /\ request[t].key \in refreshing
      /\ \A t, u \in Thread : request[t].step # "idle" /\ request[u].step # "idle" => t = u
    BY <1>1, <1>5, <1>6
<1>8. CacheTypeOK
    BY <1>3, <1>4, <1>7 DEF CacheTypeOK, RequestType, RefreshType, R, W
<1>9. OneRefresh
    BY <1>2, <1>3, <1>7 DEF OneRefresh, Spawning, Refreshing
<1> QED
    BY <1>2, <1>3, <1>7, <1>8, <1>9 DEF CacheInv, Collected, LateOK, Refreshing

\* How a step of a request or of a refresh changes its record.
LEMMA RequestMoves ==
    ASSUME CacheTypeOK, NEW t \in Thread, NEW step, NEW k, NEW value, Do(t, step, k, value)
    PROVE  /\ request'[t] = [step |-> step, key |-> k, value |-> value]
           /\ \A u \in Thread : u # t => request'[u] = request[u]
           /\ request' = [u \in Thread |-> request'[u]]
BY DEF CacheTypeOK, Do

\* What a request does to its own record keeps the types.
LEMMA RequestTyped ==
    ASSUME CacheTypeOK, NEW t \in Thread, now' = now, refresh' \in [Thread -> [Public -> RefreshType]],
           refreshing' \subseteq Public, cache' \in [Public -> 0 .. now],
           request' = [u \in Thread |-> request'[u]],
           \A u \in Thread : u # t => request'[u] = request[u],
           request'[t] \in RequestType, request'[t].step # "idle" => request'[t].key \in Public
    PROVE  CacheTypeOK'
<1>1. RequestType' = RequestType /\ RefreshType' = RefreshType
    BY DEF RequestType, RefreshType
<1>2. \A u \in Thread : request'[u] \in RequestType /\ (request'[u].step # "idle" => request'[u].key \in Public)
    BY DEF CacheTypeOK
<1>3. request' \in [Thread -> RequestType]
    BY <1>2
<1> QED
    BY <1>1, <1>2, <1>3 DEF CacheTypeOK

LEMMA NoRequestTyped == CacheTypeOK => NoRequest \in RequestType
BY DEF CacheTypeOK, NoRequest, RequestType, Step, Empty

LEMMA RequestEnds ==
    ASSUME CacheTypeOK, NEW t \in Thread, Return(t)
    PROVE  /\ request'[t].step = "idle" /\ request'[t] = NoRequest
           /\ \A u \in Thread : u # t => request'[u] = request[u]
           /\ request' = [u \in Thread |-> request'[u]]
BY DEF CacheTypeOK, Return, NoRequest

LEMMA RefreshMoves ==
    ASSUME CacheTypeOK, NEW t \in Thread, NEW k \in Public, NEW step, NEW value, Works(t, k, step, value)
    PROVE  /\ refresh'[t][k] = [step |-> step, value |-> value, early |-> refresh[t][k].early]
           /\ \A u \in Thread, l \in Public : <<u, l>> # <<t, k>> => refresh'[u][l] = refresh[u][l]
           /\ refresh' = [u \in Thread |-> [l \in Public |-> refresh'[u][l]]]
<1> DEFINE W == [step : Work, value : 0 .. now, early : BOOLEAN]
           r == [refresh EXCEPT ![t][k].step = step]
<1>1. refresh \in [Thread -> [Public -> W]] /\ refresh' = [r EXCEPT ![t][k].value = value]
    BY DEF CacheTypeOK, RefreshType, Works
<1>2. refresh[t][k] = [step |-> refresh[t][k].step, value |-> refresh[t][k].value, early |-> refresh[t][k].early]
    BY <1>1
<1>3. /\ r = [u \in Thread |-> [l \in Public |-> r[u][l]]]
      /\ r[t][k] = [refresh[t][k] EXCEPT !.step = step]
      /\ \A u \in Thread, l \in Public : <<u, l>> # <<t, k>> => r[u][l] = refresh[u][l]
    BY <1>1
<1>4. r[t][k] = [step |-> step, value |-> refresh[t][k].value, early |-> refresh[t][k].early]
    BY <1>2, <1>3
<1> HIDE DEF r
<1>5. /\ refresh' = [u \in Thread |-> [l \in Public |-> refresh'[u][l]]]
      /\ refresh'[t][k] = [r[t][k] EXCEPT !.value = value]
      /\ \A u \in Thread, l \in Public : <<u, l>> # <<t, k>> => refresh'[u][l] = r[u][l]
    BY <1>1, <1>3
<1>6. refresh'[t][k] = [step |-> step, value |-> value, early |-> refresh[t][k].early]
    <2> DEFINE e == refresh[t][k].early
               x == refresh[t][k].value
    <2>1. refresh'[t][k] = [[step |-> step, value |-> x, early |-> e] EXCEPT !.value = value]
        BY <1>4, <1>5
    <2> HIDE DEF e, x
    <2>2. refresh'[t][k] = [step |-> step, value |-> value, early |-> e]
        BY <2>1
    <2> QED
        BY <2>2 DEF e
<1>7. \A u \in Thread, l \in Public : <<u, l>> # <<t, k>> => refresh'[u][l] = refresh[u][l]
    BY <1>3, <1>5
<1> QED
    BY <1>5, <1>6, <1>7

\* A request that only ends, whatever it was doing, changes nothing else.
LEMMA ReturnKeeps ==
    ASSUME CacheInv, NEW t \in Thread, Return(t), UNCHANGED <<cache, refreshing, now, refresh>>
    PROVE  CacheInv'
<1>1. /\ request'[t].step = "idle" /\ request'[t] = NoRequest
      /\ \A u \in Thread : u # t => request'[u] = request[u]
      /\ request' = [u \in Thread |-> request'[u]]
    BY RequestEnds DEF CacheInv
<1>2. CacheTypeOK'
    <2>1. request'[t] \in RequestType /\ (request'[t].step # "idle" => request'[t].key \in Public)
        BY <1>1, NoRequestTyped DEF CacheInv
    <2>2. /\ refresh' \in [Thread -> [Public -> RefreshType]] /\ refreshing' \subseteq Public
          /\ cache' \in [Public -> 0 .. now]
        BY DEF CacheInv, CacheTypeOK
    <2> QED
        BY <1>1, <2>1, <2>2, RequestTyped DEF CacheInv
<1>3. OneRefresh' /\ Collected'
    BY <1>1 DEF CacheInv, OneRefresh, Spawning, Refreshing, Collected
<1>4. \A l \in Public : Cold(l)' => Cold(l)
    BY <1>1 DEF Cold
<1>5. LateOK'
    BY <1>4 DEF CacheInv, LateOK, Refreshing
<1> QED
    BY <1>2, <1>3, <1>5 DEF CacheInv

\* The cache never goes back to nothing, and a late refresh stores nothing older.
LEMMA CacheStep ==
    ASSUME CacheInv, [CacheNext]_cacheVars
    PROVE  CacheInv' /\ \A k \in Public : ~ Early(k) => cache'[k] >= cache[k]
<1> USE DEF CacheInv
<1> DEFINE Kept == CacheInv' /\ \A k \in Public : ~ Early(k) => cache'[k] >= cache[k]
<1>0. now \in Nat \ {0} /\ \A k \in Public : cache[k] \in 0 .. now
    BY DEF CacheTypeOK
<1>1. ASSUME NEW t \in Thread, NEW k \in Public, AskCold(t, k) PROVE Kept
    <2>1. /\ request[t].step = "idle" /\ cache[k] = Empty /\ Do(t, "cold", k, Empty)
          /\ UNCHANGED <<cache, expired, refreshing, now, refresh>>
        BY <1>1 DEF AskCold
    <2>2. /\ request'[t] = [step |-> "cold", key |-> k, value |-> Empty]
          /\ \A u \in Thread : u # t => request'[u] = request[u]
          /\ request' = [u \in Thread |-> request'[u]]
        BY <2>1, RequestMoves
    <2>3. CacheTypeOK'
        <3>1. request'[t] \in RequestType /\ (request'[t].step # "idle" => request'[t].key \in Public)
            BY <1>0, <2>2 DEF RequestType, Step, Empty
        <3> QED
            BY <1>0, <2>1, <2>2, <3>1, RequestTyped DEF CacheTypeOK
    <2>4. OneRefresh' /\ Collected'
        BY <2>1, <2>2 DEF OneRefresh, Spawning, Refreshing, Collected
    <2>5. \A l \in Public : Cold(l)' => Cold(l) \/ (l = k)
        BY <2>1, <2>2 DEF Cold
    <2>6. LateOK'
        BY <2>1, <2>5 DEF LateOK, Refreshing
    <2> QED
        BY <1>0, <2>1, <2>3, <2>4, <2>6
<1>2. ASSUME NEW t \in Thread, NEW k \in Public, AskExpired(t, k) PROVE Kept
    <2>1. Do(t, "stale", k, Empty) /\ UNCHANGED <<cache, expired, refreshing, now, refresh>>
        BY <1>2 DEF AskExpired
    <2>2. /\ request'[t] = [step |-> "stale", key |-> k, value |-> Empty]
          /\ \A u \in Thread : u # t => request'[u] = request[u]
          /\ request' = [u \in Thread |-> request'[u]]
        BY <2>1, RequestMoves
    <2>3. CacheTypeOK'
        <3>1. request'[t] \in RequestType /\ (request'[t].step # "idle" => request'[t].key \in Public)
            BY <1>0, <2>2 DEF RequestType, Step, Empty
        <3> QED
            BY <1>0, <2>1, <2>2, <3>1, RequestTyped DEF CacheTypeOK
    <2>4. OneRefresh' /\ Collected'
        BY <2>1, <2>2 DEF OneRefresh, Spawning, Refreshing, Collected
    <2>5. \A l \in Public : Cold(l)' => Cold(l)
        BY <2>1, <2>2 DEF Cold
    <2>6. LateOK'
        BY <2>1, <2>5 DEF LateOK, Refreshing
    <2> QED
        BY <1>0, <2>1, <2>3, <2>4, <2>6
<1>3. ASSUME NEW t \in Thread, CollectCold(t) PROVE Kept
    <2> DEFINE k == request[t].key
    <2>1. /\ request[t].step = "cold" /\ k \in Public
          /\ Do(t, "collected", k, now) \/ Return(t)
          /\ UNCHANGED <<cache, expired, refreshing, now, refresh>>
        BY <1>3 DEF CollectCold, CacheTypeOK
    <2>2. /\ \/ request'[t] = [step |-> "collected", key |-> k, value |-> now]
             \/ request'[t] = NoRequest /\ request'[t].step = "idle"
          /\ \A u \in Thread : u # t => request'[u] = request[u]
          /\ request' = [u \in Thread |-> request'[u]]
        BY <2>1, RequestMoves, RequestEnds
    <2>3. CacheTypeOK'
        <3>1. request'[t] \in RequestType /\ (request'[t].step # "idle" => request'[t].key \in Public)
            BY <1>0, <2>1, <2>2, NoRequestTyped DEF RequestType, Step, Empty
        <3> QED
            BY <1>0, <2>1, <2>2, <3>1, RequestTyped DEF CacheTypeOK
    <2>4. OneRefresh' /\ Collected'
        BY <1>0, <2>1, <2>2 DEF OneRefresh, Spawning, Refreshing, Collected, Empty
    <2>5. \A l \in Public : Cold(l)' => Cold(l)
        BY <2>1, <2>2 DEF Cold
    <2>6. LateOK'
        BY <2>1, <2>5 DEF LateOK, Refreshing
    <2> QED
        BY <1>0, <2>1, <2>3, <2>4, <2>6
<1>4. ASSUME NEW t \in Thread, StoreCold(t) PROVE Kept
    <2> DEFINE k == request[t].key
               v == request[t].value
    <2>1. /\ request[t].step = "collected" /\ k \in Public /\ v \in 1 .. now
          /\ cache' = [cache EXCEPT ![k] = v] /\ Return(t)
          /\ UNCHANGED <<refreshing, now, refresh>>
        BY <1>0, <1>4 DEF StoreCold, Store, CacheTypeOK, RequestType, Collected, Empty
    <2>2. /\ request'[t] = NoRequest /\ request'[t].step = "idle"
          /\ \A u \in Thread : u # t => request'[u] = request[u]
          /\ request' = [u \in Thread |-> request'[u]]
        BY <2>1, RequestEnds
    <2>3. Cold(k)
        BY <2>1 DEF Cold
    <2>4. cache' \in [Public -> 0 .. now] /\ \A l \in Public : l # k => cache'[l] = cache[l]
        BY <1>0, <2>1 DEF CacheTypeOK
    <2>5. CacheTypeOK'
        <3>1. request'[t] \in RequestType /\ (request'[t].step # "idle" => request'[t].key \in Public)
            BY <2>2, NoRequestTyped DEF CacheTypeOK
        <3> QED
            BY <1>0, <2>1, <2>2, <2>4, <3>1, RequestTyped DEF CacheTypeOK
    <2>6. OneRefresh' /\ Collected'
        BY <2>1, <2>2 DEF OneRefresh, Spawning, Refreshing, Collected
    <2>7. \A l \in Public : Cold(l)' => Cold(l)
        BY <2>1, <2>2 DEF Cold
    <2>8. LateOK'
        BY <2>1, <2>3, <2>4, <2>7 DEF LateOK, Refreshing
    <2> QED
        BY <1>0, <2>3, <2>4, <2>5, <2>6, <2>8 DEF Early
<1>5. ASSUME NEW t \in Thread, Spawn(t) PROVE Kept
    <2> DEFINE k == request[t].key
               e == cache[k] = Empty \/ Cold(k)
               r == [step |-> "collecting", value |-> Empty, early |-> e]
    <2>1. /\ request[t].step = "spawning" /\ k \in Public
          /\ refresh' = [refresh EXCEPT ![t][k] = r] /\ Return(t)
          /\ UNCHANGED <<cache, expired, refreshing, now>>
        BY <1>5 DEF Spawn, CacheTypeOK
    <2>2. /\ request'[t] = NoRequest /\ request'[t].step = "idle"
          /\ \A u \in Thread : u # t => request'[u] = request[u]
          /\ request' = [u \in Thread |-> request'[u]]
        BY <2>1, RequestEnds
    <2>3. e \in BOOLEAN
        OBVIOUS
    <2>4. /\ refresh' = [u \in Thread |-> [l \in Public |-> refresh'[u][l]]]
          /\ refresh'[t][k] = r
          /\ \A u \in Thread, l \in Public : <<u, l>> # <<t, k>> => refresh'[u][l] = refresh[u][l]
        <3> HIDE DEF r, k
        <3> QED
            BY <2>1 DEF CacheTypeOK
    <2>5. r \in [step : Work, value : 0 .. now, early : BOOLEAN] /\ r.step = "collecting" /\ r.early = e
        <3> HIDE DEF e
        <3> QED
            BY <1>0, <2>3 DEF Work, Empty
    <2> HIDE DEF r
    <2>6. CacheTypeOK'
        <3>1. request'[t] \in RequestType /\ (request'[t].step # "idle" => request'[t].key \in Public)
            BY <2>2, NoRequestTyped DEF CacheTypeOK
        <3>2. refresh' \in [Thread -> [Public -> RefreshType]]
            <4>1. r \in RefreshType
                BY <2>5 DEF RefreshType
            <4>2. \A u \in Thread, l \in Public : refresh'[u][l] \in RefreshType
                BY <2>4, <4>1 DEF CacheTypeOK
            <4> QED
                BY <2>4, <4>2
        <3> QED
            BY <1>0, <2>1, <2>2, <3>2, <3>1, RequestTyped DEF CacheTypeOK
    <2>7. Spawning(t, k) /\ ~Refreshing(t, k)
        BY <2>1 DEF OneRefresh, Spawning
    <2>8. /\ \A u \in Thread, l \in Public : Spawning(u, l)' => Spawning(u, l) /\ u # t
          /\ \A u \in Thread, l \in Public : Refreshing(u, l)' => Refreshing(u, l) \/ (u = t /\ l = k)
        BY <2>1, <2>2, <2>4 DEF Spawning, Refreshing
    <2>9. OneRefresh'
        BY <2>1, <2>7, <2>8 DEF OneRefresh
    <2>10. Collected'
        <3>1. \A u \in Thread : request'[u].step = "collected" => request'[u] = request[u]
            BY <2>2
        <3>2. \A u \in Thread, l \in Public : refresh'[u][l].step = "collected" => refresh'[u][l] = refresh[u][l]
            BY <2>4, <2>5
        <3> QED
            BY <3>1, <3>2 DEF Collected
    <2>11. \A l \in Public : Cold(l)' => Cold(l)
        BY <2>1, <2>2 DEF Cold
    <2>12. LateOK'
        <3> SUFFICES ASSUME NEW u \in Thread, NEW l \in Public, refresh'[u][l].step # "none", ~refresh'[u][l].early
                     PROVE  /\ cache[l] # Empty /\ ~Cold(l)
                            /\ refresh'[u][l].step = "collected" => refresh'[u][l].value >= cache[l]
            BY <2>1, <2>11 DEF LateOK, Refreshing
        <3>1. CASE u = t /\ l = k
            BY <2>4, <2>5, <3>1
        <3>2. CASE <<u, l>> # <<t, k>>
            BY <2>4, <3>2 DEF LateOK, Refreshing
        <3> QED
            BY <3>1, <3>2
    <2> QED
        BY <1>0, <2>1, <2>6, <2>9, <2>10, <2>12
<1>6. ASSUME NEW t \in Thread, NEW k \in Public, Refresh(t, k) PROVE Kept
    <2> DEFINE old == refresh[t][k]
               new == refresh'[t][k]
    <2>0. old \in [step : Work, value : 0 .. now, early : BOOLEAN]
        BY DEF CacheTypeOK, RefreshType
    <2>1. /\ \/ /\ old.step = "collecting" /\ cache' = cache /\ refreshing' = refreshing
                /\ Works(t, k, "collected", now) \/ Works(t, k, "clearing", Empty)
             \/ /\ old.step = "collected" /\ cache' = [cache EXCEPT ![k] = old.value] /\ refreshing' = refreshing
                /\ Works(t, k, "clearing", Empty)
             \/ /\ old.step = "clearing" /\ cache' = cache /\ refreshing' = refreshing \ {k}
                /\ Works(t, k, "none", Empty)
          /\ UNCHANGED <<now, request>>
        BY <1>6 DEF Refresh, Collect, StoreRefreshed, Clear, Store
    <2>2. /\ \/ new = [step |-> "collected", value |-> now, early |-> old.early]
             \/ new = [step |-> "clearing", value |-> Empty, early |-> old.early]
             \/ new = [step |-> "none", value |-> Empty, early |-> old.early]
          /\ \A u \in Thread, l \in Public : <<u, l>> # <<t, k>> => refresh'[u][l] = refresh[u][l]
          /\ refresh' = [u \in Thread |-> [l \in Public |-> refresh'[u][l]]]
          /\ old.step = "clearing" => new.step = "none"
          /\ new.step = "collected" => cache' = cache
        BY <2>1, RefreshMoves
    <2>3. Refreshing(t, k) /\ k \in refreshing
        BY <2>1 DEF OneRefresh, Refreshing
    <2>4. /\ new \in [step : Work, value : 0 .. now, early : BOOLEAN] /\ new.early = old.early
          /\ new.step = "collected" => new.value = now
        BY <1>0, <2>0, <2>2 DEF Work, Empty
    <2>5. /\ cache' \in [Public -> 0 .. now] /\ \A l \in Public : l # k => cache'[l] = cache[l]
          /\ cache'[k] = cache[k] \/ (old.step = "collected" /\ cache'[k] = old.value /\ old.value # Empty)
        BY <2>0, <2>1 DEF CacheTypeOK, Collected
    <2> HIDE DEF old, new
    <2>6. CacheTypeOK'
        <3>1. RequestType' = RequestType /\ RefreshType' = RefreshType
            BY <2>1 DEF RequestType, RefreshType
        <3>2. \A u \in Thread, l \in Public : refresh'[u][l] \in RefreshType
            BY <2>2, <2>4 DEF CacheTypeOK, RefreshType, new
        <3>3. refresh' \in [Thread -> [Public -> RefreshType]]
            BY <2>2, <3>2
        <3>4. refreshing' \subseteq Public
            BY <2>1 DEF CacheTypeOK
        <3> QED
            BY <1>0, <2>1, <2>5, <3>1, <3>3, <3>4 DEF CacheTypeOK
    <2>7. /\ \A u \in Thread, l \in Public : Spawning(u, l)' <=> Spawning(u, l)
          /\ \A u \in Thread, l \in Public : Refreshing(u, l)' => Refreshing(u, l)
        BY <2>1, <2>2, <2>3 DEF Spawning, Refreshing
    <2>8. OneRefresh'
        <3>1. CASE old.step # "clearing"
            BY <2>1, <2>7, <3>1 DEF OneRefresh
        <3>2. CASE old.step = "clearing"
            <4>1. ~Refreshing(t, k)'
                BY <2>2, <3>2 DEF Refreshing, new
            <4>2. ~Spawning(t, k) /\ \A u \in Thread : Spawning(u, k) \/ Refreshing(u, k) => u = t
                BY <2>3 DEF OneRefresh
            <4>3. \A u \in Thread : ~Spawning(u, k)' /\ ~Refreshing(u, k)'
                BY <2>7, <4>1, <4>2
            <4>4. refreshing' = refreshing \ {k}
                BY <2>1, <3>2
            <4> QED
                BY <2>7, <4>3, <4>4 DEF OneRefresh
        <3> QED
            BY <3>1, <3>2
    <2>9. Collected'
        <3> SUFFICES ASSUME NEW u \in Thread, NEW l \in Public, refresh'[u][l].step = "collected"
                     PROVE  refresh'[u][l].value # Empty
            BY <2>1 DEF Collected
        <3>1. CASE <<u, l>> = <<t, k>>
            BY <1>0, <2>4, <3>1 DEF Empty, new
        <3> QED
            BY <2>2, <3>1 DEF Collected
    <2>10. \A l \in Public : Cold(l)' <=> Cold(l)
        BY <2>1 DEF Cold
    <2>11. LateOK'
        <3> SUFFICES ASSUME NEW u \in Thread, NEW l \in Public, refresh'[u][l].step # "none", ~refresh'[u][l].early
                     PROVE  /\ cache'[l] # Empty /\ ~Cold(l)
                            /\ refresh'[u][l].step = "collected" => refresh'[u][l].value >= cache'[l]
            BY <2>10 DEF LateOK, Refreshing
        <3>1. CASE <<u, l>> = <<t, k>>
            <4>1. cache[k] # Empty /\ ~Cold(k)
                BY <2>3, <2>4, <3>1 DEF LateOK, old, new
            <4>2. cache'[k] # Empty
                BY <2>5, <4>1
            <4>3. new.step = "collected" => new.value >= cache'[k]
                BY <1>0, <2>2, <2>4
            <4> QED
                BY <3>1, <4>1, <4>2, <4>3 DEF new
        <3>2. CASE <<u, l>> # <<t, k>>
            <4>1. refresh'[u][l] = refresh[u][l] /\ Refreshing(u, l)
                BY <2>2, <3>2 DEF Refreshing
            <4>2. l # k
                BY <2>3, <3>2, <4>1 DEF OneRefresh
            <4> QED
                BY <2>5, <4>1, <4>2 DEF LateOK, Refreshing
        <3> QED
            BY <3>1, <3>2
    <2>12. ASSUME NEW l \in Public, ~Early(l) PROVE cache'[l] >= cache[l]
        <3>1. CASE cache'[l] = cache[l]
            BY <1>0, <3>1
        <3>2. CASE cache'[l] # cache[l]
            <4>1. l = k /\ old.step = "collected" /\ cache'[k] = old.value
                BY <2>5, <3>2
            <4>2. ~old.early
                BY <2>3, <2>12, <4>1 DEF Early, Refreshing, old
            <4> QED
                BY <2>3, <4>1, <4>2 DEF LateOK, old
        <3> QED
            BY <3>1, <3>2
    <2> QED
        BY <2>6, <2>8, <2>9, <2>11, <2>12
<1>7. CASE Change
    <2>1. now' = now + 1 /\ UNCHANGED <<cache, refreshing, request, refresh>>
        BY <1>7 DEF Change
    <2>2. 0 .. now \subseteq 0 .. now' /\ now' \in Nat \ {0}
        BY <1>0, <2>1
    <2>3. CacheTypeOK'
        BY <2>1, <2>2 DEF CacheTypeOK, RequestType, RefreshType
    <2>4. OneRefresh' /\ Collected' /\ LateOK'
        BY <2>1 DEF OneRefresh, Spawning, Refreshing, Collected, LateOK, Cold
    <2> QED
        BY <1>0, <2>1, <2>3, <2>4
<1>8. CASE (\E k \in Public : Expire(k)) \/ UNCHANGED cacheVars
    <2>1. UNCHANGED <<cache, refreshing, now, request, refresh>>
        BY <1>8 DEF Expire, cacheVars
    <2> QED
        BY <1>0, <2>1 DEF CacheTypeOK, RequestType, RefreshType, OneRefresh, Spawning, Refreshing, Collected, LateOK, Cold
<1>9. ASSUME NEW t \in Thread, Start(t) PROVE Kept
    <2> DEFINE k == request[t].key
    <2>1. /\ request[t].step = "stale" /\ k \in Public /\ BeginRefresh(t, k)
          /\ UNCHANGED <<cache, expired, now, refresh>>
        BY <1>9 DEF Start, CacheTypeOK
    <2> HIDE DEF k
    <2>2. CASE k \in refreshing
        <3>1. UNCHANGED refreshing /\ Return(t)
            BY <2>1, <2>2 DEF BeginRefresh
        <3> QED
            BY <1>0, <2>1, <3>1, ReturnKeeps
    <2>3. CASE k \notin refreshing
        <3>1. refreshing' = refreshing \cup {k} /\ Do(t, "spawning", k, Empty)
            BY <2>1, <2>3 DEF BeginRefresh
        <3>2. /\ request'[t] = [step |-> "spawning", key |-> k, value |-> Empty]
              /\ \A u \in Thread : u # t => request'[u] = request[u]
              /\ request' = [u \in Thread |-> request'[u]]
            BY <3>1, RequestMoves
        <3>3. CacheTypeOK'
            <4>1. request'[t] \in RequestType /\ (request'[t].step # "idle" => request'[t].key \in Public)
                BY <1>0, <2>1, <3>2 DEF RequestType, Step, Empty
            <4>2. refreshing' \subseteq Public /\ cache' \in [Public -> 0 .. now]
                BY <2>1, <3>1 DEF CacheTypeOK
            <4> QED
                BY <1>0, <2>1, <3>2, <4>1, <4>2, RequestTyped DEF CacheTypeOK
        <3>4. OneRefresh' /\ Collected'
            BY <2>1, <2>3, <3>1, <3>2 DEF OneRefresh, Spawning, Refreshing, Collected
        <3>5. \A l \in Public : Cold(l)' => Cold(l)
            BY <2>1, <3>2 DEF Cold
        <3>6. LateOK'
            BY <2>1, <3>5 DEF LateOK, Refreshing
        <3> QED
            BY <1>0, <2>1, <3>3, <3>4, <3>6
    <2> QED
        BY <2>2, <2>3
<1>10. ASSUME NEW t \in Thread, SpawnFails(t) PROVE Kept
    <2>1. Return(t) /\ UNCHANGED <<cache, expired, refreshing, now, refresh>>
        BY <1>10 DEF SpawnFails
    <2> QED
        BY <1>0, <2>1, ReturnKeeps
<1> QED
    BY <1>1, <1>2, <1>3, <1>4, <1>5, <1>6, <1>7, <1>8, <1>9, <1>10 DEF CacheNext, Ask, Serve

\* A refresh is with one thread, and one that began late finds nothing of the time
\* before the first overview: the inductive invariant behind the next theorem.
THEOREM CacheInductive == CacheSpec => []CacheInv
BY CacheInvInit, CacheStep, PTL DEF CacheSpec

\* For any number of request threads, keys and versions, wherever collections fail
\* and however late a thread acts on the expiry it saw: once the first collections
\* are over, the overview never goes back to an older state.
THEOREM OverviewNeverBack == CacheSpec => NeverBack
<1>1. CacheInv /\ [CacheNext]_cacheVars
          => [\A k \in Public : ~ Early(k) => cache'[k] >= cache[k]]_cacheVars
    BY CacheStep
<1> QED
    BY <1>1, CacheInductive, PTL DEF CacheSpec, NeverBack

(***************************************************************************)
(* Both servers                                                            *)
(***************************************************************************)

\* A step of one server is no step of the other, so what is proved of each holds
\* of the two together: nothing of a terminal session is left when it has ended,
\* with the one exception above, and the overview never goes back once the first
\* collections are over.
THEOREM BothServers == Spec => []NothingOutlives /\ NeverBack
<1>1. Init => Held /\ CacheInv
    BY HeldInit, CacheInvInit DEF Init
<1>2. Held /\ CacheInv /\ [Next]_vars => Held' /\ CacheInv'
    BY HeldStep, CacheStep DEF Next, InTerminal, InConsole, vars
<1>3. Held /\ CacheInv /\ [Next]_vars
          => [\A k \in Public : ~ Early(k) => cache'[k] >= cache[k]]_cacheVars
    BY CacheStep DEF Next, InTerminal, InConsole, vars
<1>4. Held => NothingOutlives
    BY DEF Held, NothingOutlives
<1> QED
    BY <1>1, <1>2, <1>3, <1>4, PTL DEF Spec, NeverBack
=============================================================================
