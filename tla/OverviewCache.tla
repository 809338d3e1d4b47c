--------------------------- MODULE OverviewCache ---------------------------
(***************************************************************************)
(* The console's overview cache: ConsoleApplication.overview and its       *)
(* background refresh.                                                     *)
(*                                                                         *)
(* One entry per kind of visitor (public or not).  The lock covers the     *)
(* reads and writes of the cache and of _overview_refreshing, each in a    *)
(* section of its own; collecting, which takes seconds, and starting a     *)
(* thread are outside it.                                                  *)
(***************************************************************************)
EXTENDS Naturals

CONSTANTS
    Thread,     \* request threads, one of which may be the one that starts the server
    Public,     \* the keys of the cache
    MaxVersion  \* bound on the changes of what is collected

ASSUME CacheAssumption == MaxVersion \in Nat

Empty == 0      \* no entry; collected values are numbered by what they saw
Step == {"idle", "cold", "collected", "stale", "spawning"}
Work == {"none", "collecting", "collected", "clearing"}

VARIABLES
    cache,          \* the version an entry holds
    expired,        \* entries older than OVERVIEW_CACHE_SECONDS
    refreshing,     \* _overview_refreshing
    now,            \* the version a collection would see
    request,        \* what a thread's request is doing, for which key, with what
    lost,           \* keys whose refresher thread could not be started
    refresh         \* the background thread that a thread started, per key; it is early
                    \* if a first collection may still come before its own

cacheVars == <<cache, expired, refreshing, now, request, lost, refresh>>

NoRequest == [step |-> "idle", key |-> CHOOSE k \in Public : TRUE, value |-> Empty]
NoWork == [step |-> "none", value |-> Empty, early |-> FALSE]

\* create_server: nothing is cached; one entry may be being prewarmed.
CacheInit ==
    /\ cache = [k \in Public |-> Empty] /\ expired = {}
    /\ now = 1 /\ lost = {}
    /\ \/ refreshing = {} /\ request = [t \in Thread |-> NoRequest]
       \/ \E t \in Thread, k \in Public :
            /\ refreshing = {k}
            /\ request = [u \in Thread |->
                            IF u = t THEN [step |-> "spawning", key |-> k, value |-> Empty] ELSE NoRequest]
    /\ refresh = [t \in Thread |-> [k \in Public |-> NoWork]]

Store(k, value) == cache' = [cache EXCEPT ![k] = value] /\ expired' = expired \ {k}
Do(t, step, k, value) == request' = [request EXCEPT ![t] = [step |-> step, key |-> k, value |-> value]]
Return(t) == request' = [request EXCEPT ![t] = NoRequest]
Works(t, k, step, value) ==
    refresh' = [refresh EXCEPT ![t][k].step = step, ![t][k].value = value]

-----------------------------------------------------------------------------
(* Requests.                                                               *)

\* Mutant: the flag is not looked at.
BeginRefreshAlways(t, k) == refreshing' = refreshing \cup {k} /\ Do(t, "spawning", k, Empty)
\* _start_overview_refresh, under the lock.
BeginRefresh(t, k) ==
    IF k \in refreshing THEN Return(t) /\ UNCHANGED refreshing
    ELSE refreshing' = refreshing \cup {k} /\ Do(t, "spawning", k, Empty)

\* A visitor finds no entry, a fresh one, or an expired one, and is answered
\* from the cache in the last two cases.
AskCold(t, k) ==
    /\ request[t].step = "idle" /\ cache[k] = Empty
    /\ Do(t, "cold", k, Empty)
    /\ UNCHANGED <<cache, expired, refreshing, now, refresh, lost>>
AskExpired(t, k) ==
    /\ request[t].step = "idle" /\ k \in expired
    /\ Do(t, "stale", k, Empty)
    /\ UNCHANGED <<cache, expired, refreshing, now, lost, refresh>>
\* Another may have refreshed the entry since it was read.
Start(t) ==
    /\ request[t].step = "stale" /\ BeginRefresh(t, request[t].key)
    /\ UNCHANGED <<cache, expired, now, lost, refresh>>

\* A cold request collects and stores for itself; it may fail.
CollectCold(t) ==
    /\ request[t].step = "cold"
    /\ \/ Do(t, "collected", request[t].key, now)
       \/ Return(t)
    /\ UNCHANGED <<cache, expired, refreshing, now, refresh, lost>>
StoreCold(t) ==
    /\ request[t].step = "collected"
    /\ Store(request[t].key, request[t].value) /\ Return(t)
    /\ UNCHANGED <<refreshing, now, refresh, lost>>
\* A request that found no entry is under way.
Cold(k) == \E t \in Thread : request[t].key = k /\ request[t].step \in {"cold", "collected"}
\* The refresher thread is started outside the lock.
Spawn(t) ==
    /\ request[t].step = "spawning"
    /\ LET k == request[t].key IN
       refresh' = [refresh EXCEPT ![t][k] =
                      [step |-> "collecting", value |-> Empty, early |-> cache[k] = Empty \/ Cold(k)]]
    /\ Return(t)
    /\ UNCHANGED <<cache, expired, refreshing, now, lost>>
\* Thread.start raises: nothing takes the flag back.
SpawnFails(t) ==
    /\ request[t].step = "spawning"
    /\ lost' = lost \cup {request[t].key} /\ Return(t)
    /\ UNCHANGED <<cache, expired, refreshing, now, refresh>>

-----------------------------------------------------------------------------
(* The refresher.                                                          *)

\* Mutant: a failed collection ends the thread where it is.
CollectOnce(t, k) ==
    /\ refresh[t][k].step = "collecting"
    /\ Works(t, k, "collected", now) \/ Works(t, k, "none", Empty)
    /\ UNCHANGED <<cache, expired, refreshing, now, request, lost>>
\* It collects, or fails and audits the failure.
Collect(t, k) ==
    /\ refresh[t][k].step = "collecting"
    /\ Works(t, k, "collected", now) \/ Works(t, k, "clearing", Empty)
    /\ UNCHANGED <<cache, expired, refreshing, now, request, lost>>
StoreRefreshed(t, k) ==
    /\ refresh[t][k].step = "collected"
    /\ Store(k, refresh[t][k].value) /\ Works(t, k, "clearing", Empty)
    /\ UNCHANGED <<refreshing, now, request, lost>>
\* The finally block.
Clear(t, k) ==
    /\ refresh[t][k].step = "clearing"
    /\ refreshing' = refreshing \ {k} /\ Works(t, k, "none", Empty)
    /\ UNCHANGED <<cache, expired, now, request, lost>>

-----------------------------------------------------------------------------
(* The world and the clock.                                                *)

Change ==
    /\ now < MaxVersion /\ now' = now + 1
    /\ UNCHANGED <<cache, expired, refreshing, request, refresh, lost>>
Expire(k) ==
    /\ cache[k] # Empty /\ k \notin expired /\ expired' = expired \cup {k}
    /\ UNCHANGED <<cache, refreshing, now, request, refresh, lost>>

Ask(t) == \E k \in Public : AskCold(t, k) \/ AskExpired(t, k)
Serve(t) == CollectCold(t) \/ StoreCold(t) \/ Start(t) \/ Spawn(t) \/ SpawnFails(t)
Refresh(t, k) == Collect(t, k) \/ StoreRefreshed(t, k) \/ Clear(t, k)

CacheNext ==
    \/ Change \/ \E k \in Public : Expire(k)
    \/ \E t \in Thread : Ask(t) \/ Serve(t) \/ \E k \in Public : Refresh(t, k)

\* Threads are scheduled, and the commands a collection runs have timeouts.
CacheSpec ==
    /\ CacheInit /\ [][CacheNext]_cacheVars
    /\ \A t \in Thread : WF_cacheVars(Serve(t)) /\ \A k \in Public : WF_cacheVars(Refresh(t, k))

-----------------------------------------------------------------------------
(* Properties.                                                             *)

\* Something that began before the first overview was there is still under way.
Early(k) ==
    Cold(k) \/ \E t \in Thread : refresh[t][k].step # "none" /\ refresh[t][k].early

\* Visitors never see the overview go back to an older state, however late a thread
\* acts on the expiry it saw: no refresh overwrites what another stored in the
\* meantime.  Left out is the time of the first overview, when a cold request or a
\* refresh from before may still store what it collected long ago.
NeverBack ==
    [][\A k \in Public : ~ Early(k) => cache'[k] >= cache[k]]_cacheVars

\* A refresh that was begun comes to an end, also when collecting fails, so that
\* a later visitor can begin the next one, unless its thread could not be started.
RefreshEnds == \A k \in Public : k \in refreshing ~> k \notin refreshing \/ k \in lost
=============================================================================
