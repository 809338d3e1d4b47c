------------------------ MODULE ControlPlane_proofs ------------------------
(* Proofs about ControlPlane, for any custom routes and any inputs.        *)
EXTENDS ControlPlane, TLAPS

\* The two Mainline nodes are always there, and nothing edits the API node.
MainlinesOK == stored.node[Native] # NoNode /\ stored.node[Api] = MainlineNode

IInv == ControlTypeOK /\ PausedIsEnabled /\ MainlinesOK /\ LoadsOncePaired

-----------------------------------------------------------------------------
(* Normalising.                                                            *)

\* The managed values are values of their types.
LEMMA ManagedTypes ==
    /\ MainlineNode \in Node
    /\ ManagedRoute \in [Managed -> Route]
    /\ Managed \subseteq RouteId
    /\ NoNode \notin Node /\ NoRoute \notin Route
BY ControlAssumption
   DEF MainlineNode, ManagedRoute, Node, Route, Role, HandoffType, NodeId,
       Managed, RouteId

\* Sync changes the authority only, and keeps the type.
LEMMA SyncFacts ==
    ASSUME NEW s \in Project
    PROVE  /\ Sync(s) \in Project
           /\ Sync(s).authority = IF s.enabled THEN Api ELSE Native
           /\ Sync(s).enabled = s.enabled /\ Sync(s).mode = s.mode
           /\ Sync(s).status = s.status
           /\ Sync(s).node = s.node /\ Sync(s).route = s.route
BY DEF Sync, Project

\* A node after normalisation: the same, but that a worker's allow-lists may
\* have grown, and a Mainline that was missing is there.
LEMMA EnsureNodeFacts ==
    ASSUME NEW n \in NodeId, NEW node \in Node \cup {NoNode}
    PROVE  /\ EnsureNode(n, node) \in Node \cup {NoNode}
           /\ node # NoNode =>
                /\ EnsureNode(n, node) \in Node
                /\ EnsureNode(n, node).role = node.role
                /\ EnsureNode(n, node).enabled = node.enabled
                /\ \A m : Permits(node.sources, m) =>
                            Permits(EnsureNode(n, node).sources, m)
                /\ \A m : Permits(node.destinations, m) =>
                            Permits(EnsureNode(n, node).destinations, m)
           /\ n # Worker /\ node # NoNode => EnsureNode(n, node) = node
           /\ n \notin {Native, Api} /\ node = NoNode => EnsureNode(n, node) = NoNode
<1>1. CASE n # Worker \/ node = NoNode
  BY <1>1, ManagedTypes DEF EnsureNode
<1>2. CASE n = Worker /\ node # NoNode
  <2>1. node \in Node
    BY <1>2
  <2>2. \A list \in SUBSET NodeId :
          /\ WithApi(list) \in SUBSET NodeId
          /\ \A m : Permits(list, m) => Permits(WithApi(list), m)
    BY DEF WithApi, Permits, NodeId
  <2>3. EnsureNode(n, node) =
          [node EXCEPT !.sources = WithApi(@), !.destinations = WithApi(@)]
    BY <1>2 DEF EnsureNode
  <2>4. EnsureNode(n, node) =
          [role |-> node.role, enabled |-> node.enabled,
           sources |-> WithApi(node.sources),
           destinations |-> WithApi(node.destinations)]
    BY <2>1, <2>3 DEF Node
  <2>. QED BY <1>2, <2>1, <2>2, <2>4, ManagedTypes DEF Node
<1>. QED BY <1>1, <1>2

\* A project after normalisation.
LEMMA EnsureFacts ==
    ASSUME NEW s \in Project
    PROVE  /\ Ensure(s) \in Project
           /\ Ensure(s).authority = IF s.enabled THEN Api ELSE Native
           /\ Ensure(s).enabled = s.enabled /\ Ensure(s).mode = s.mode
           /\ Ensure(s).status = s.status
           /\ \A n \in NodeId : Ensure(s).node[n] = EnsureNode(n, s.node[n])
           /\ \A r \in RouteId :
                Ensure(s).route[r] = EnsureRoute(r, s.route[r], s.node[Worker])
<1> DEFINE node == [n \in NodeId |-> EnsureNode(n, s.node[n])]
           route == [r \in RouteId |-> EnsureRoute(r, s.route[r], s.node[Worker])]
           t == [s EXCEPT !.node = node, !.route = route]
<1>1. s.node \in [NodeId -> Node \cup {NoNode}] /\ s.route \in [RouteId -> Route \cup {NoRoute}]
  BY DEF Project
<1>2. node \in [NodeId -> Node \cup {NoNode}]
  BY <1>1, EnsureNodeFacts
<1>3. route \in [RouteId -> Route \cup {NoRoute}]
  BY <1>1, ManagedTypes DEF EnsureRoute
<1>4. /\ t \in Project
      /\ t.enabled = s.enabled /\ t.mode = s.mode /\ t.status = s.status
      /\ t.node = node /\ t.route = route
  <2>. HIDE DEF node, route
  <2>. QED BY <1>2, <1>3 DEF Project
<1>5. Ensure(s) = Sync(t)
  BY DEF Ensure
<1>6. /\ \A n \in NodeId : node[n] = EnsureNode(n, s.node[n])
      /\ \A r \in RouteId : route[r] = EnsureRoute(r, s.route[r], s.node[Worker])
  OBVIOUS
<1>. HIDE DEF t, node, route
<1>. QED BY <1>4, <1>5, <1>6, SyncFacts

\* A node that is there keeps its switch, and permits what it permitted.
LEMMA NodeAfter ==
    ASSUME NEW s \in Project, NEW n \in NodeId, s.node[n] # NoNode
    PROVE  /\ Ensure(s).node[n] \in Node
           /\ Ensure(s).node[n].enabled = s.node[n].enabled
           /\ \A m : Permits(s.node[n].sources, m) =>
                        Permits(Ensure(s).node[n].sources, m)
           /\ \A m : Permits(s.node[n].destinations, m) =>
                        Permits(Ensure(s).node[n].destinations, m)
<1>1. s.node[n] \in Node \cup {NoNode}
  BY DEF Project
<1>2. Ensure(s).node[n] = EnsureNode(n, s.node[n])
  BY EnsureFacts
<1>. QED BY <1>1, <1>2, EnsureNodeFacts

\* A pair that is stored survives normalisation.
LEMMA PairLoads ==
    ASSUME NEW s \in Project, Pair(s)
    PROVE  Pair(Ensure(s))
<1>1. s.node \in [NodeId -> Node \cup {NoNode}] /\ Worker \in NodeId
  BY DEF Project, NodeId
<1>2. Ensure(s).node[Worker] = EnsureNode(Worker, s.node[Worker])
  BY <1>1, EnsureFacts
<1>3. Ensure(s).node[Worker] # NoNode /\ Ensure(s).node[Worker].enabled
  BY <1>1, <1>2, EnsureNodeFacts, ManagedTypes DEF Pair
<1>4. ASSUME NEW r \in Managed
      PROVE  Ensure(s).route[r] = ManagedRoute[r]
  <2>1. r \in RouteId /\ s.route[r] = ManagedRoute[r] /\ ManagedRoute[r] \in Route
    BY ManagedTypes DEF Pair
  <2>2. Ensure(s).route[r] = EnsureRoute(r, s.route[r], s.node[Worker])
    BY <2>1, EnsureFacts
  <2>. QED BY <2>1, <2>2 DEF EnsureRoute
<1>. QED BY <1>3, <1>4 DEF Pair

\* Route validity is monotone: it survives normalisation of the nodes.
LEMMA RouteStaysValid ==
    ASSUME NEW s \in Project, NEW r \in Route, RouteValid(s, r)
    PROVE  RouteValid(Ensure(s), r)
<1>1. /\ r.source \in NodeId /\ s.node[r.source] # NoNode
      /\ r.dest \in NodeId /\ s.node[r.dest] # NoNode
  BY DEF RouteValid, Route
<1>2. /\ Ensure(s).node[r.source] \in Node
      /\ Ensure(s).node[r.source].enabled = s.node[r.source].enabled
      /\ Permits(s.node[r.source].destinations, r.dest) =>
            Permits(Ensure(s).node[r.source].destinations, r.dest)
  BY <1>1, NodeAfter
<1>3. /\ Ensure(s).node[r.dest] \in Node
      /\ Ensure(s).node[r.dest].enabled = s.node[r.dest].enabled
      /\ Permits(s.node[r.dest].sources, r.source) =>
            Permits(Ensure(s).node[r.dest].sources, r.source)
  BY <1>1, NodeAfter
<1>. QED BY <1>2, <1>3, ManagedTypes DEF RouteValid, EndsEnabled

\* What was validated when it was written is accepted when it is read, once
\* the pair is stored and the native node is a Mainline.
LEMMA ValidLoads ==
    ASSUME NEW s \in Project, Valid(s), Pair(s),
           s.node[Native] # NoNode, s.node[Native].role = "MAINLINE",
           s.node[Api] = MainlineNode
    PROVE  Loads(s)
<1>1. /\ s.node \in [NodeId -> Node \cup {NoNode}]
      /\ s.route \in [RouteId -> Route \cup {NoRoute}]
      /\ s.enabled \in BOOLEAN
      /\ Native \in NodeId /\ Api \in NodeId /\ Native # Worker /\ Api # Worker
  BY DEF Project, NodeId, Native, Api, Worker
<1>2. ~ Conflict(s)
  BY DEF Conflict, Pair, MainlineNode
<1>3. \A n \in {Native, Api} : Ensure(s).node[n] = s.node[n]
  <2>1. s.node[Native] # NoNode /\ s.node[Api] # NoNode
    BY ManagedTypes
  <2>2. \A n \in {Native, Api} : Ensure(s).node[n] = EnsureNode(n, s.node[n])
    BY <1>1, EnsureFacts
  <2>. QED BY <1>1, <2>1, <2>2 DEF EnsureNode
<1>4. Ensure(s).authority = s.authority /\ s.authority \in {Native, Api}
  BY EnsureFacts DEF Valid, AuthorityValid
<1>5. AuthorityValid(Ensure(s))
  <2>1. Ensure(s).node[Ensure(s).authority] = s.node[s.authority]
    BY <1>3, <1>4
  <2>2. Ensure(s).authority = IF Ensure(s).enabled THEN Api ELSE Native
    BY EnsureFacts
  <2>. QED BY <2>1, <2>2 DEF Valid, AuthorityValid
<1>6. \A r \in RouteId : Ensure(s).route[r] = s.route[r]
  <2>1. \A r \in RouteId :
          Ensure(s).route[r] = EnsureRoute(r, s.route[r], s.node[Worker])
    BY EnsureFacts
  <2>2. \A r \in Managed : s.route[r] # NoRoute
    BY ManagedTypes DEF Pair
  <2>. QED BY <2>1, <2>2 DEF EnsureRoute
<1>7. ASSUME NEW r \in RouteId, Ensure(s).route[r] # NoRoute
      PROVE  RouteValid(Ensure(s), Ensure(s).route[r])
  <2>1. s.route[r] \in Route /\ RouteValid(s, s.route[r])
    BY <1>1, <1>6, <1>7 DEF Valid
  <2>. QED BY <1>6, <2>1, RouteStaysValid
<1>8. Ensure(s).mode = "OFF" =>
        ~ Ensure(s).enabled /\ Ensure(s).status = "DISABLED"
  BY EnsureFacts DEF Valid
<1>. QED BY <1>2, <1>5, <1>7, <1>8 DEF Loads, Valid

-----------------------------------------------------------------------------
(* Edits.                                                                  *)

\* What every accepted change preserves of the project it was made to.
Keeps(s, new) ==
    /\ new \in Project
    /\ new.status = "PAUSED" => new.enabled
    /\ new.node[Native] # NoNode
    /\ new.node[Api] = s.node[Api]
    /\ Pair(s) => Pair(new)

\* The project as loaded still satisfies what the invariant says of the file.
LEMMA LoadedFacts ==
    ASSUME IInv
    PROVE  /\ Loaded \in Project
           /\ Loaded.status = "PAUSED" => Loaded.enabled
           /\ Loaded.node[Native] # NoNode
           /\ Loaded.node[Api] = MainlineNode
           /\ Pair(stored) => Pair(Loaded)
<1>1. /\ stored \in Project
      /\ stored.node \in [NodeId -> Node \cup {NoNode}]
      /\ Native \in NodeId /\ Api \in NodeId /\ Native # Worker /\ Api # Worker
  BY DEF IInv, ControlTypeOK, Project, NodeId, Native, Api, Worker
<1>2. stored.node[Native] # NoNode /\ stored.node[Api] = MainlineNode
      /\ stored.node[Api] # NoNode
  BY ManagedTypes DEF IInv, MainlinesOK
<1>3. \A n \in {Native, Api} : Loaded.node[n] = stored.node[n]
  <2>1. \A n \in {Native, Api} : Loaded.node[n] = EnsureNode(n, stored.node[n])
    BY <1>1, EnsureFacts DEF Loaded
  <2>. QED BY <1>1, <1>2, <2>1 DEF EnsureNode
<1>. QED BY <1>1, <1>2, <1>3, EnsureFacts, PairLoads
         DEF Loaded, IInv, PausedIsEnabled

\* A switch that pauses only what is enabled keeps what an edit must keep.
LEMMA SwitchKeeps ==
    ASSUME IInv, NEW new \in Project,
           new.status = "PAUSED" => new.enabled,
           new.node = Loaded.node, new.route = Loaded.route
    PROVE  Keeps(Loaded, new)
BY LoadedFacts DEF Keeps, Pair

\* Control actions and turns.
LEMMA SwitchStep ==
    ASSUME IInv,
           SetMode \/ Enable \/ Pause \/ Resume \/ Stop
             \/ RecordDispatchUserRequired \/ ApplyApiMainlineTurn
    PROVE  Keeps(Loaded, stored')
<1>1. /\ Loaded \in Project
      /\ Loaded.mode \in Mode /\ Loaded.enabled \in BOOLEAN /\ Loaded.status \in Status
      /\ Loaded.status = "PAUSED" => Loaded.enabled
      /\ Loaded = [Loaded EXCEPT !.mode = Loaded.mode, !.enabled = Loaded.enabled,
                                 !.status = Loaded.status]
  BY LoadedFacts DEF Project
<1> DEFINE Switch(mode, enabled, status) ==
             [Loaded EXCEPT !.mode = mode, !.enabled = enabled, !.status = status]
<1>2. \A mode \in Mode, enabled \in BOOLEAN, status \in Status :
        (status = "PAUSED" => enabled) =>
            /\ Keeps(Loaded, Switch(mode, enabled, status))
            /\ Keeps(Loaded, Sync(Switch(mode, enabled, status)))
  <2> SUFFICES ASSUME NEW mode \in Mode, NEW enabled \in BOOLEAN, NEW status \in Status,
                      status = "PAUSED" => enabled
               PROVE  /\ Keeps(Loaded, Switch(mode, enabled, status))
                      /\ Keeps(Loaded, Sync(Switch(mode, enabled, status)))
    OBVIOUS
  <2> DEFINE new == Switch(mode, enabled, status)
  <2>0. new = [Loaded EXCEPT !.mode = mode, !.enabled = enabled, !.status = status]
    OBVIOUS
  <2>1. /\ new \in Project
        /\ new.status = status /\ new.enabled = enabled
        /\ new.node = Loaded.node /\ new.route = Loaded.route
    BY <1>1, <2>0 DEF Project
  <2>. HIDE DEF new
  <2>3. /\ Sync(new) \in Project
        /\ Sync(new).status = status /\ Sync(new).enabled = enabled
        /\ Sync(new).node = Loaded.node /\ Sync(new).route = Loaded.route
    BY <2>1, SyncFacts
  <2>2. Keeps(Loaded, new) /\ Keeps(Loaded, Sync(new))
    BY <2>1, <2>3, SwitchKeeps
  <2>. QED BY <2>2 DEF new
<1>3. \A enabled \in BOOLEAN, status \in Status :
        [Loaded EXCEPT !.enabled = enabled, !.status = status]
            = Switch(Loaded.mode, enabled, status)
  BY <1>1 DEF Project
<1>4. \A status \in Status :
        [Loaded EXCEPT !.status = status]
            = Switch(Loaded.mode, Loaded.enabled, status)
  BY <1>1 DEF Project
<1>5. {"OFF", "SHADOW_REVIEW"} \subseteq Mode
      /\ {"DISABLED", "IDLE", "WAITING_FOR_USER", "PAUSED", "BLOCKED", "STOPPED"}
            \subseteq Status
  BY DEF Mode, Status
<1>. HIDE DEF Switch
<1>6. CASE SetMode
  <2>1. PICK mode \in Mode : stored' = ModeSet(mode)
    BY <1>6 DEF SetMode, Change
  <2>2. ModeSet(mode) = Sync(Switch(mode, mode # "OFF",
                                    IF mode = "OFF" THEN "DISABLED" ELSE "IDLE"))
    BY DEF ModeSet, Switch
  <2>. QED BY <1>2, <1>5, <2>1, <2>2
<1>7. CASE Enable
  <2>1. stored' = Sync(Switch(IF Loaded.mode = "OFF" THEN "SHADOW_REVIEW" ELSE Loaded.mode,
                              TRUE, "IDLE"))
    BY <1>7 DEF Enable, Change, Switch
  <2>. QED BY <1>1, <1>2, <1>5, <2>1
<1>8. CASE Pause
  <2>1. Loaded.enabled /\ stored' = Sync(Switch(Loaded.mode, Loaded.enabled, "PAUSED"))
    BY <1>4, <1>5, <1>8 DEF Pause, Change
  <2>. QED BY <1>1, <1>2, <1>5, <2>1
<1>9. CASE Resume
  <2>1. stored' = Sync(Switch(Loaded.mode, TRUE, "IDLE"))
    BY <1>3, <1>5, <1>9 DEF Resume, Change
  <2>. QED BY <1>1, <1>2, <1>5, <2>1
<1>10. CASE Stop
  <2>1. stored' = Sync(Switch(Loaded.mode, FALSE, "STOPPED"))
    BY <1>3, <1>5, <1>10 DEF Stop, Stopped, Change
  <2>. QED BY <1>1, <1>2, <1>5, <2>1
<1>11. CASE RecordDispatchUserRequired
  <2>1. stored' = Switch(Loaded.mode, Loaded.enabled, "WAITING_FOR_USER")
    BY <1>4, <1>5, <1>11 DEF RecordDispatchUserRequired, Change
  <2>. QED BY <1>1, <1>2, <1>5, <2>1
<1>12. CASE ApplyApiMainlineTurn
  <2>1. PICK status \in {Loaded.status, "BLOCKED", "STOPPED", "WAITING_FOR_USER"} :
          stored' = [Loaded EXCEPT !.status = status]
    BY <1>12 DEF ApplyApiMainlineTurn, Change
  <2>2. status \in Status /\ (status = "PAUSED" => Loaded.enabled)
    BY <1>1, <1>5
  <2>3. stored' = Switch(Loaded.mode, Loaded.enabled, status)
    BY <1>4, <2>1, <2>2
  <2>. QED BY <1>1, <1>2, <2>2, <2>3
<1>. QED BY <1>6, <1>7, <1>8, <1>9, <1>10, <1>11, <1>12

\* Validation itself protects the pair: its routes need an enabled worker.
LEMMA RoutesPair ==
    ASSUME NEW new \in Project, Valid(new),
           \A r \in Managed : new.route[r] = ManagedRoute[r]
    PROVE  Pair(new)
<1>1. ToCodex \in Managed /\ ToCodex \in RouteId /\ ManagedRoute[ToCodex] # NoRoute
  BY ManagedTypes DEF Managed
<1>2. RouteValid(new, ManagedRoute[ToCodex])
  BY <1>1 DEF Valid
<1>3. ManagedRoute[ToCodex].dest = Worker /\ ManagedRoute[ToCodex].enabled
  BY <1>1 DEF ManagedRoute
<1>. QED BY <1>2, <1>3 DEF RouteValid, EndsEnabled, Pair

\* An edit of a node other than the API node, that leaves a Mainline there.
LEMMA NodeEditKeeps ==
    ASSUME IInv, NEW n \in NodeId \ {Api}, NEW node \in Node \cup {NoNode},
           n = Native => node # NoNode,
           Change([Loaded EXCEPT !.node[n] = node])
    PROVE  Keeps(Loaded, stored')
<1>1. Valid(stored') /\ stored' = [Loaded EXCEPT !.node[n] = node]
  BY DEF Change, Accepts
<1>2. /\ stored' \in Project
      /\ stored'.status = Loaded.status /\ stored'.enabled = Loaded.enabled
      /\ stored'.route = Loaded.route
      /\ \A m \in NodeId : stored'.node[m] = IF m = n THEN node ELSE Loaded.node[m]
  BY <1>1, LoadedFacts DEF Project
<1>3. Pair(Loaded) => Pair(stored')
  BY <1>1, <1>2, RoutesPair DEF Pair
<1>4. stored'.node[Native] # NoNode /\ stored'.node[Api] = Loaded.node[Api]
  BY <1>2, LoadedFacts DEF NodeId
<1>. QED BY <1>2, <1>3, <1>4, LoadedFacts DEF Keeps

\* An edit of a route that is not one of a stored pair.
LEMMA RouteEditKeeps ==
    ASSUME IInv, NEW r \in RouteId, NEW route \in Route \cup {NoRoute},
           r \in Managed => Loaded.route[r] = NoRoute,
           Change([Loaded EXCEPT !.route[r] = route])
    PROVE  Keeps(Loaded, stored')
<1>1. Valid(stored') /\ stored' = [Loaded EXCEPT !.route[r] = route]
  BY DEF Change, Accepts
<1>2. /\ stored' \in Project
      /\ stored'.status = Loaded.status /\ stored'.enabled = Loaded.enabled
      /\ stored'.node = Loaded.node
      /\ \A q \in RouteId : stored'.route[q] = IF q = r THEN route ELSE Loaded.route[q]
  BY <1>1, LoadedFacts DEF Project
<1>3. ASSUME Pair(Loaded)
      PROVE  \A q \in Managed : stored'.route[q] = ManagedRoute[q]
  BY <1>2, <1>3, ManagedTypes DEF Pair
<1>4. Pair(Loaded) => Pair(stored')
  BY <1>1, <1>2, <1>3, RoutesPair
<1>. QED BY <1>2, <1>4, LoadedFacts DEF Keeps

\* Edits of the graph, and the recording of a Mainline output.
LEMMA EditStep ==
    ASSUME IInv,
           \/ \E n \in NodeId : AddNode(n) \/ UpdateNode(n) \/ DeleteNode(n)
           \/ \E r \in RouteId : AddRoute(r) \/ UpdateRoute(r) \/ DeleteRoute(r)
           \/ \E source \in NodeId : RecordMainlineOutput(source)
    PROVE  Keeps(Loaded, stored')
<1>1. /\ Loaded \in Project
      /\ Loaded.node \in [NodeId -> Node \cup {NoNode}]
      /\ Loaded.node[Native] # NoNode
      /\ Loaded.node[Api] # NoNode
  BY LoadedFacts, ManagedTypes DEF Project
<1>2. /\ RoleInput \subseteq Role /\ AllowList \subseteq SUBSET NodeId
      /\ RouteInput \subseteq Route
  BY ControlAssumption
<1>3. ASSUME NEW n \in NodeId, AddNode(n) PROVE Keeps(Loaded, stored')
  <2>1. PICK role \in RoleInput, enabled \in BOOLEAN, src \in AllowList, dst \in AllowList :
          Change([Loaded EXCEPT !.node[n] =
                    [role |-> role, enabled |-> enabled,
                     sources |-> src, destinations |-> dst]])
    BY <1>3 DEF AddNode
  <2>2. n \notin {Native, Api}
    BY <1>1, <1>3 DEF AddNode
  <2>3. [role |-> role, enabled |-> enabled, sources |-> src, destinations |-> dst]
          \in Node
    BY <1>2 DEF Node
  <2>. QED BY <2>1, <2>2, <2>3, NodeEditKeeps
<1>4. ASSUME NEW n \in NodeId, UpdateNode(n) PROVE Keeps(Loaded, stored')
  <2>1. n # Api /\ Loaded.node[n] \in Node
    BY <1>1, <1>4 DEF UpdateNode
  <2>2. PICK role \in RoleInput \cup {Loaded.node[n].role}, enabled \in BOOLEAN,
             src \in AllowList \cup {Loaded.node[n].sources},
             dst \in AllowList \cup {Loaded.node[n].destinations} :
          Change([Loaded EXCEPT !.node[n] =
                    [role |-> role, enabled |-> enabled,
                     sources |-> src, destinations |-> dst]])
    BY <1>4 DEF UpdateNode
  <2>3. [role |-> role, enabled |-> enabled, sources |-> src, destinations |-> dst]
          \in Node
    BY <1>2, <2>1 DEF Node
  <2>. QED BY <2>1, <2>2, <2>3, NodeEditKeeps, ManagedTypes
<1>5. ASSUME NEW n \in NodeId, DeleteNode(n) PROVE Keeps(Loaded, stored')
  BY <1>5, NodeEditKeeps DEF DeleteNode
<1>6. ASSUME NEW r \in RouteId, AddRoute(r) PROVE Keeps(Loaded, stored')
  <2>1. PICK route \in RouteInput : Change([Loaded EXCEPT !.route[r] = route])
    BY <1>6 DEF AddRoute
  <2>2. route \in Route /\ Loaded.route[r] = NoRoute
    BY <1>2, <1>6 DEF AddRoute
  <2>. QED BY <2>1, <2>2, RouteEditKeeps
<1>7. ASSUME NEW r \in RouteId, UpdateRoute(r) PROVE Keeps(Loaded, stored')
  <2>1. PICK route \in RouteInput : Change([Loaded EXCEPT !.route[r] = route])
    BY <1>7 DEF UpdateRoute
  <2>2. route \in Route /\ r \notin Managed
    BY <1>2, <1>7 DEF UpdateRoute
  <2>. QED BY <2>1, <2>2, RouteEditKeeps
<1>8. ASSUME NEW r \in RouteId, DeleteRoute(r) PROVE Keeps(Loaded, stored')
  BY <1>8, RouteEditKeeps DEF DeleteRoute
<1>9. ASSUME NEW source \in NodeId, RecordMainlineOutput(source)
      PROVE  Keeps(Loaded, stored')
  BY <1>9, LoadedFacts DEF RecordMainlineOutput, Change, Keeps
<1>. QED BY <1>3, <1>4, <1>5, <1>6, <1>7, <1>8, <1>9

-----------------------------------------------------------------------------
(* The invariant, and what follows from it.                                *)

\* Every change is validated, and keeps what an edit must keep.
LEMMA Steps ==
    ASSUME IInv, Next
    PROVE  \/ UNCHANGED stored
           \/ Valid(stored') /\ Keeps(Loaded, stored')
<1>1. CASE SetMode \/ Enable \/ Pause \/ Resume \/ Stop
             \/ RecordDispatchUserRequired \/ ApplyApiMainlineTurn
  <2>1. Valid(stored')
    BY <1>1 DEF SetMode, Enable, Pause, Resume, Stop, RecordDispatchUserRequired,
                ApplyApiMainlineTurn, Change, Accepts
  <2>. QED BY <1>1, <2>1, SwitchStep
<1>2. CASE \/ \E n \in NodeId : AddNode(n) \/ UpdateNode(n) \/ DeleteNode(n)
           \/ \E r \in RouteId : AddRoute(r) \/ UpdateRoute(r) \/ DeleteRoute(r)
           \/ \E source \in NodeId : RecordMainlineOutput(source)
  <2>1. Valid(stored')
    BY <1>2 DEF AddNode, UpdateNode, DeleteNode, AddRoute, UpdateRoute, DeleteRoute,
                RecordMainlineOutput, Change, Accepts
  <2>. QED BY <1>2, <2>1, EditStep
<1>3. CASE Unreadable
  BY <1>3 DEF Unreadable
<1>. QED BY <1>1, <1>2, <1>3 DEF Next

\* The initial project satisfies the invariant.
LEMMA InitIInv == Init => IInv
<1> SUFFICES ASSUME Init PROVE IInv
  OBVIOUS
<1>1. Native # Worker /\ Api # Worker /\ Native \in NodeId /\ Api \in NodeId
      /\ Worker \in NodeId
  BY DEF Native, Api, Worker, NodeId
<1>2. /\ ControlTypeOK
      /\ stored.status = "DISABLED"
      /\ \A n \in NodeId : stored.node[n] = IF n \in {Native, Api} THEN MainlineNode ELSE NoNode
  BY ManagedTypes DEF Init, ControlTypeOK, Project, Mode, Status
<1>3. MainlinesOK
  BY <1>1, <1>2, ManagedTypes DEF MainlinesOK
<1>4. ~ Pair(stored)
  BY <1>1, <1>2 DEF Pair
<1>. QED BY <1>2, <1>3, <1>4 DEF IInv, PausedIsEnabled, LoadsOncePaired

\* Every step keeps the invariant.
LEMMA NextIInv == IInv /\ [Next]_stored => IInv'
<1> SUFFICES ASSUME IInv, [Next]_stored PROVE IInv'
  OBVIOUS
<1>1. CASE UNCHANGED stored
  BY <1>1 DEF IInv, ControlTypeOK, PausedIsEnabled, MainlinesOK, LoadsOncePaired
<1>2. CASE Valid(stored') /\ Keeps(Loaded, stored')
  <2>1. ControlTypeOK' /\ PausedIsEnabled' /\ MainlinesOK'
    BY <1>2, LoadedFacts DEF Keeps, ControlTypeOK, PausedIsEnabled, MainlinesOK
  <2>2. LoadsOncePaired'
    BY <1>2, <2>1, ValidLoads DEF LoadsOncePaired, ControlTypeOK, MainlinesOK
  <2>. QED BY <2>1, <2>2 DEF IInv
<1>. QED BY <1>1, <1>2, Steps

\* The inductive invariant holds of every file the store ever writes.
THEOREM Inductive == Spec => []IInv
BY InitIInv, NextIInv, PTL DEF Spec

\* Type correctness: every accepted edit writes a well-formed project.
THEOREM ControlTypeCorrect == Spec => []ControlTypeOK
<1>1. IInv => ControlTypeOK
  BY DEF IInv
<1>. QED BY <1>1, Inductive, PTL

\* RESUME never makes the API node the authority of a stopped project.
THEOREM ResumeNeverEnables == Spec => []PausedIsEnabled
<1>1. IInv => PausedIsEnabled
  BY DEF IInv
<1>. QED BY <1>1, Inductive, PTL

\* Once the managed pair is stored, a project whose native node is a Mainline
\* can always be read again.
THEOREM ReadableOncePaired == Spec => []LoadsOncePaired
<1>1. IInv => LoadsOncePaired
  BY DEF IInv
<1>. QED BY <1>1, Inductive, PTL

\* No edit ever removes, redirects or disables the managed pair.
THEOREM PairIsKept == Spec => ManagedPairStays
<1>1. IInv /\ [Next]_stored => [Pair(stored) => Pair(stored')]_stored
  BY Steps, LoadedFacts DEF Keeps
<1>. QED BY <1>1, Inductive, PTL DEF Spec, ManagedPairStays

\* A route that resolves is one the allow-lists permit, and has no end at the
\* Mainline that is not the authority.
THEOREM RoutesAreAllowed == Spec => []ResolvedIsAllowed
<1>1. IInv => ResolvedIsAllowed
  <2> SUFFICES ASSUME IInv, Loads(stored),
                      NEW r \in RouteId, Resolves(Loaded, r)
               PROVE  LET route == Loaded.route[r] IN
                      /\ route.source # route.dest
                      /\ Permits(Loaded.node[route.source].destinations, route.dest)
                      /\ Permits(Loaded.node[route.dest].sources, route.source)
                      /\ \A n \in {route.source, route.dest} :
                           Loaded.node[n].role = "MAINLINE" =>
                               n = IF stored.mode = "OFF" \/ ~ stored.enabled
                                   THEN Native ELSE Api
    BY DEF ResolvedIsAllowed
  <2>1. Valid(Loaded)
    BY DEF Loads, Loaded
  <2>2. RouteValid(Loaded, Loaded.route[r]) /\ Loaded.route[r].enabled
    BY <2>1 DEF Valid, Resolves
  <2>3. Loaded.authority = IF stored.mode = "OFF" \/ ~ stored.enabled
                           THEN Native ELSE Api
    BY <2>1, EnsureFacts DEF Valid, Loaded, IInv, ControlTypeOK
  <2>. QED BY <2>2, <2>3 DEF RouteValid, Resolves
<1>. QED BY <1>1, Inductive, PTL
=============================================================================
