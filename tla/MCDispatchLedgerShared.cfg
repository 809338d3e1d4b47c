\* A console thread and a smoke runner, another process, share the ledger.
SPECIFICATION Spec
CONSTANTS
    Handoff = {h1}
    Smoke = {s1}
    Thread = {t1}
    Runner = {r1}
    Console = Console
    Seal = {"head1"}
    Protocol = {"v1"}
    NoActor = NoActor
    NoView = NoView
    NoSeal = NoSeal
    Undiscovered = Undiscovered
    NoId = NoId
    MaxChurn = 1
INVARIANTS
    AtMostOneStart
