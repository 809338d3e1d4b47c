\* The two smoke runners have one script: "smoke" would repeat the states of "wsl".
SPECIFICATION SessionSpec
CONSTANTS
    Runner = {"dispatcher", "once", "wsl"}
    MaxNotes = 2
    MaxForeign = 1
INVARIANTS
    EventsComplete
    WorkerIsStopped
    CompletedUnasked
PROPERTIES
    SessionEnds
