\* Every order of control actions, graph edits and turns on one project, with
\* a node and a route of the caller's own.
SPECIFICATION Spec
CONSTANTS
    CustomNode = {n1}
    CustomRoute = {r1}
    RoleInput <- FewRoles
    AllowList <- FewLists
    RouteInput <- CustomTasks
    NoNode = NoNode
    NoRoute = NoRoute
INVARIANTS
    PausedIsEnabled
    LoadsOncePaired
    ResolvedIsAllowed
PROPERTIES
    ManagedPairStays
