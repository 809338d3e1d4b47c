\* Two threads serve three requests over two handoffs of one workspace.
SPECIFICATION SemiSpec
CONSTANTS
    Handoff = {h1, h2}
    Smoke = {}
    Thread = {t1, t2}
    Runner = {}
    Console = Console
    Seal = {"head1", "head2"}
    Protocol = {"v1"}
    NoActor = NoActor
    NoView = NoView
    NoSeal = NoSeal
    Undiscovered = Undiscovered
    NoId = NoId
    HeadOf <- OwnHead
    MaxChurn = 1
    MaxRequests = 3
INVARIANTS
    LeaseIsHeld
    OneOutcome
    OutcomeRecorded
PROPERTIES
    RequestReturns
