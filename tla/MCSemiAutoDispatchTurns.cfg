\* Two threads race through the turn guard.
SPECIFICATION SemiSafety
CONSTANTS
    Handoff = {h1, h2}
    Smoke = {}
    Thread = {t1, t2}
    Runner = {}
    Console = Console
    Seal = {"head1"}
    Protocol = {"v1"}
    NoActor = NoActor
    NoView = NoView
    NoSeal = NoSeal
    Undiscovered = Undiscovered
    NoId = NoId
    HeadOf <- OwnHead
    MaxChurn = 0
    MaxRequests = 4
INVARIANTS
    OneTurn
