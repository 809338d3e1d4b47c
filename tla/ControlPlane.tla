---------------------------- MODULE ControlPlane ----------------------------
(***************************************************************************)
(* OrchestrationControlStore for the managed project btest.                *)
(*                                                                         *)
(* Every change runs under the store's lock: it reads the file, normalises *)
(* what it read (ensure_btest_api_mainline), validates it, edits it,       *)
(* validates the edit and replaces the file.  A call that any of these     *)
(* steps refuses leaves the file as it was.  What is written is NOT        *)
(* normalised: the next call to read the file has to accept it again.      *)
(***************************************************************************)
CONSTANTS
    CustomNode,     \* node identifiers other than the three the code knows
    CustomRoute,    \* route identifiers other than the two managed ones
    RoleInput, AllowList, RouteInput,   \* roles, allow-lists, routes a caller passes
    NoNode, NoRoute

Native == "BTEST_MAINLINE"
Api == "BTEST_MAINLINE_API"
Worker == "BTEST_CODEX_WORKER"
NodeId == {Native, Api, Worker} \cup CustomNode

ToCodex == "BTEST_MAINLINE_API_TO_CODEX"
FromCodex == "BTEST_CODEX_TO_MAINLINE_API"
Managed == {ToCodex, FromCodex}
RouteId == Managed \cup CustomRoute

Mode == {"OFF", "SHADOW_REVIEW", "SEMI_AUTO"}
Status == {"DISABLED", "IDLE", "WAITING_FOR_USER", "PAUSED", "BLOCKED", "STOPPED"}
Role == {"MAINLINE", "CODEX_WORKER", "USER"}
HandoffType == {"TASK", "REPORT"}

Node == [role : Role, enabled : BOOLEAN,
         sources : SUBSET NodeId, destinations : SUBSET NodeId]
Route == [source : NodeId, dest : NodeId, enabled : BOOLEAN, type : HandoffType]

ASSUME ControlAssumption ==
    /\ RoleInput \subseteq Role
    /\ AllowList \subseteq SUBSET NodeId
    /\ RouteInput \subseteq Route
    /\ CustomNode \cap {Native, Api, Worker} = {}
    /\ CustomRoute \cap Managed = {}
    /\ NoNode \notin Node
    /\ NoRoute \notin Route

Project == [enabled : BOOLEAN, mode : Mode, status : Status, authority : {Native, Api},
            node : [NodeId -> Node \cup {NoNode}],
            route : [RouteId -> Route \cup {NoRoute}]]

VARIABLE stored     \* the project as the control-plane file holds it

MainlineNode == [role |-> "MAINLINE", enabled |-> TRUE,
                 sources |-> {Worker}, destinations |-> {Worker}]
ManagedRoute ==
    [r \in Managed |->
        IF r = ToCodex
        THEN [source |-> Api, dest |-> Worker, enabled |-> TRUE, type |-> "TASK"]
        ELSE [source |-> Worker, dest |-> Api, enabled |-> TRUE, type |-> "REPORT"]]

\* _default_project.
Init ==
    stored = [enabled |-> FALSE, mode |-> "OFF", status |-> "DISABLED",
              authority |-> Native,
              node |-> [n \in NodeId |-> IF n \in {Native, Api} THEN MainlineNode ELSE NoNode],
              route |-> [r \in RouteId |-> NoRoute]]

-----------------------------------------------------------------------------
(* Reading: normalise, then validate.                                      *)

\* sync_mainline_authority.
Sync(s) == [s EXCEPT !.authority = IF s.enabled THEN Api ELSE Native]

\* An empty allow-list means unrestricted, and stays empty.
WithApi(list) == IF list = {} THEN {} ELSE list \cup {Api}

\* ensure_btest_api_mainline: the two Mainline nodes exist; a worker may talk to
\* the API node, over the two managed routes.
EnsureNode(n, node) ==
    IF node = NoNode THEN IF n \in {Native, Api} THEN MainlineNode ELSE NoNode
    ELSE IF n # Worker THEN node
    ELSE [node EXCEPT !.sources = WithApi(@), !.destinations = WithApi(@)]
EnsureRoute(r, route, worker) ==
    IF r \in Managed /\ worker # NoNode /\ route = NoRoute
    THEN ManagedRoute[r] ELSE route
Ensure(s) ==
    Sync([s EXCEPT
            !.node = [n \in NodeId |-> EnsureNode(n, s.node[n])],
            !.route = [r \in RouteId |-> EnsureRoute(r, s.route[r], s.node[Worker])]])

\* It refuses a Mainline node of another role, and a managed route that differs.
Conflict(s) ==
    \/ \E n \in {Native, Api} : s.node[n] # NoNode /\ s.node[n].role # "MAINLINE"
    \/ /\ s.node[Worker] # NoNode
       /\ \E r \in Managed : s.route[r] \notin {NoRoute, ManagedRoute[r]}

Permits(list, n) == list = {} \/ n \in list
EndsEnabled(s, r) == s.node[r.source].enabled /\ s.node[r.dest].enabled
\* Mutant: the allow-lists are not consulted.
RouteValidUnlisted(s, r) ==
    /\ s.node[r.source] # NoNode /\ s.node[r.dest] # NoNode
    /\ r.source # r.dest
    /\ r.enabled => EndsEnabled(s, r)
RouteValid(s, r) ==
    /\ s.node[r.source] # NoNode /\ s.node[r.dest] # NoNode
    /\ r.source # r.dest
    /\ r.enabled =>
         /\ EndsEnabled(s, r)
         /\ Permits(s.node[r.source].destinations, r.dest)
         /\ Permits(s.node[r.dest].sources, r.source)

\* validate_mainline_state: one authority, whose node is there and enabled.
AuthorityValid(s) ==
    /\ s.authority = IF s.enabled THEN Api ELSE Native
    /\ s.node[s.authority] # NoNode
    /\ s.node[s.authority].role = "MAINLINE"
    /\ s.node[s.authority].enabled

\* _validate_project.
Valid(s) ==
    /\ s.mode = "OFF" => ~ s.enabled /\ s.status = "DISABLED"
    /\ AuthorityValid(s)
    /\ \A r \in RouteId : s.route[r] # NoRoute => RouteValid(s, s.route[r])

\* _load accepts the file.
Loads(s) == ~ Conflict(s) /\ Valid(Ensure(s))

-----------------------------------------------------------------------------
(* Changes.                                                                *)

Loaded == Ensure(stored)

\* Mutant: the mutated project is not validated.
ChangeUnvalidated(new) == Loads(stored) /\ stored' = new

\* _change: load, mutate, validate, write.  The guards of an operation are the
\* checks of its mutation; a call that is refused leaves the file alone, and is
\* no step.
Accepts(new) == Loads(stored) /\ Valid(new)
Change(new) == Accepts(new) /\ stored' = new

ModeSet(m) ==
    Sync([Loaded EXCEPT !.mode = m, !.enabled = m # "OFF",
                        !.status = IF m = "OFF" THEN "DISABLED" ELSE "IDLE"])
SetMode == \E m \in Mode : Change(ModeSet(m))

Enable ==
    Change(Sync([Loaded EXCEPT !.mode = IF @ = "OFF" THEN "SHADOW_REVIEW" ELSE @,
                               !.enabled = TRUE, !.status = "IDLE"]))
\* Mutant: only the status is looked at.
PauseStopped ==
    /\ Loaded.status \notin {"DISABLED", "STOPPED"}
    /\ Change(Sync([Loaded EXCEPT !.status = "PAUSED"]))
Pause ==
    /\ Loaded.enabled /\ Loaded.status \notin {"DISABLED", "STOPPED"}
    /\ Change(Sync([Loaded EXCEPT !.status = "PAUSED"]))
Resume ==
    /\ Loaded.status = "PAUSED"
    /\ Change(Sync([Loaded EXCEPT !.enabled = TRUE, !.status = "IDLE"]))
MayStop == Loaded.mode # "OFF" /\ Loaded.status # "DISABLED"
Stopped == Sync([Loaded EXCEPT !.enabled = FALSE, !.status = "STOPPED"])
Stop == MayStop /\ Change(Stopped)

AddNode(n) ==
    /\ Loaded.node[n] = NoNode
    /\ \E role \in RoleInput, enabled \in BOOLEAN, src, dst \in AllowList :
         Change([Loaded EXCEPT !.node[n] =
                    [role |-> role, enabled |-> enabled,
                     sources |-> src, destinations |-> dst]])

\* Any subset of a node's fields; only the API node is protected.
UpdateNode(n) ==
    /\ n # Api /\ Loaded.node[n] # NoNode
    /\ \E role \in RoleInput \cup {Loaded.node[n].role}, enabled \in BOOLEAN,
          src \in AllowList \cup {Loaded.node[n].sources},
          dst \in AllowList \cup {Loaded.node[n].destinations} :
         Change([Loaded EXCEPT !.node[n] =
                    [role |-> role, enabled |-> enabled,
                     sources |-> src, destinations |-> dst]])

DeleteNode(n) ==
    /\ n \notin {Native, Api} /\ Loaded.node[n] # NoNode
    /\ \A r \in RouteId :
         Loaded.route[r] # NoRoute =>
             n \notin {Loaded.route[r].source, Loaded.route[r].dest}
    /\ Change([Loaded EXCEPT !.node[n] = NoNode])

\* Unlike update and delete, add does not protect the managed identifiers.
AddRoute(r) ==
    /\ Loaded.route[r] = NoRoute
    /\ \E value \in RouteInput : Change([Loaded EXCEPT !.route[r] = value])

UpdateRoute(r) ==
    /\ r \notin Managed /\ Loaded.route[r] # NoRoute
    /\ \E value \in RouteInput : Change([Loaded EXCEPT !.route[r] = value])

\* Mutant: a managed route may be deleted.
DeleteAnyRoute(r) ==
    Loaded.route[r] # NoRoute /\ Change([Loaded EXCEPT !.route[r] = NoRoute])
DeleteRoute(r) ==
    /\ r \notin Managed /\ Loaded.route[r] # NoRoute
    /\ Change([Loaded EXCEPT !.route[r] = NoRoute])

\* record_mainline_output: only the authority's output is recorded.  The packet
\* checks are left out with the canonical routing and gate they guard.
RecordMainlineOutput(source) == source = Loaded.authority /\ Change(Loaded)

\* A Codex turn stopped for an approval; nothing but OFF refuses it.
RecordDispatchUserRequired == Change([Loaded EXCEPT !.status = "WAITING_FOR_USER"])

\* The start of a conversation leaves the status alone; a return sets it by
\* the action the API Mainline chose.
ApplyApiMainlineTurn ==
    /\ Loaded.enabled /\ Loaded.authority = Api
    /\ \E status \in {Loaded.status, "BLOCKED", "STOPPED", "WAITING_FOR_USER"} :
         Change([Loaded EXCEPT !.status = status])

\* Once a load fails every call is refused, for good.
Unreadable == ~ Loads(stored) /\ UNCHANGED stored

Next ==
    \/ SetMode \/ Enable \/ Pause \/ Resume \/ Stop
    \/ \E n \in NodeId : AddNode(n) \/ UpdateNode(n) \/ DeleteNode(n)
    \/ \E r \in RouteId : AddRoute(r) \/ UpdateRoute(r) \/ DeleteRoute(r)
    \/ \E source \in NodeId : RecordMainlineOutput(source)
    \/ RecordDispatchUserRequired \/ ApplyApiMainlineTurn
    \/ Unreadable

Spec == Init /\ [][Next]_stored

-----------------------------------------------------------------------------
(* Properties.                                                             *)

\* The file always holds a well-formed project.
ControlTypeOK == stored \in Project

\* RESUME never brings a stopped project back: whatever late worker events, API
\* turns and edits came in between, a project that is paused is one that was
\* enabled, so only a mode change or ENABLE makes the API node the authority.
PausedIsEnabled == stored.status = "PAUSED" => stored.enabled

\* Once a worker and its two managed routes are stored, no edit removes,
\* redirects or disables either route, nor the worker under them.
Pair(s) ==
    /\ s.node[Worker] # NoNode /\ s.node[Worker].enabled
    /\ \A r \in Managed : s.route[r] = ManagedRoute[r]
ManagedPairStays == [][Pair(stored) => Pair(stored')]_stored

\* From then on the validation of an edit is as strict as that of a load, but
\* for the role of the native node: whatever else is written can be read again.
LoadsOncePaired ==
    Pair(stored) /\ stored.node[Native].role = "MAINLINE" => Loads(stored)

\* resolve_route returns this route to a caller.
Resolves(s, r) ==
    /\ s.route[r] # NoRoute
    /\ s.route[r].enabled
    /\ EndsEnabled(s, s.route[r])
    /\ \A n \in {s.route[r].source, s.route[r].dest} :
         s.node[n].role = "MAINLINE" => n = s.authority

\* Whatever edits came before, a route that resolves joins two different nodes
\* that allow each other, and never the Mainline that is not the authority
\* the mode selects.
ResolvedIsAllowed ==
    Loads(stored) =>
        \A r \in RouteId :
            Resolves(Loaded, r) =>
                LET route == Loaded.route[r] IN
                /\ route.source # route.dest
                /\ Permits(Loaded.node[route.source].destinations, route.dest)
                /\ Permits(Loaded.node[route.dest].sources, route.source)
                /\ \A n \in {route.source, route.dest} :
                     Loaded.node[n].role = "MAINLINE" =>
                         n = IF stored.mode = "OFF" \/ ~ stored.enabled
                             THEN Native ELSE Api
=============================================================================
