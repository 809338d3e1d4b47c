--------------------------- MODULE MCControlPlane ---------------------------
(* Finite instances of ControlPlane for TLC.                               *)
EXTENDS ControlPlane

\* Unrestricted, or the worker only.
FewLists == {{}, {Worker}}

\* A Mainline or a worker.
FewRoles == {"MAINLINE", "CODEX_WORKER"}

\* Every pair of ends, enabled or not, of one type.
TaskRoutes == {r \in Route : r.type = "TASK"}

\* From or to the caller's own node, enabled, of one type.
CustomTasks ==
    {r \in TaskRoutes : r.enabled /\ {r.source, r.dest} \cap CustomNode # {}}
=============================================================================
