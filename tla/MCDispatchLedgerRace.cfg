\* One console process: two request threads race over one handoff.
SPECIFICATION Spec
CONSTANTS
    Handoff = {h1}
    Smoke = {}
    Thread = {t1, t2}
    Runner = {}
    Console = Console
    Seal = {"head1", "head2"}
    Protocol = {"v1", "v2"}
    NoActor = NoActor
    NoView = NoView
    NoSeal = NoSeal
    Undiscovered = Undiscovered
    NoId = NoId
    MaxChurn = 3
SYMMETRY ThreadSymmetry
INVARIANTS
    LedgerBacked
    StartIsFresh
PROPERTIES
    ExactlyOnce
    LedgerAdvances
