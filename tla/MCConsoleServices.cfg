SPECIFICATION Spec
CONSTANTS
    MaxFrame = 3
    MaxOutput = 2
    Thread = {t1, t2}
    Public = {TRUE}
    MaxVersion = 3
\* A terminal session ends.
CHECK_DEADLOCK FALSE
INVARIANTS
    NothingOutlives
PROPERTIES
    TerminalEnds
    NeverBack
    RefreshEnds
