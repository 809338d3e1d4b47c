\* Races of preparations, approvals and cancellations, with failed writes,
\* crashes, and a control plane that moves.
SPECIFICATION FairSpec
CONSTANTS
    Thread = {t1, t2}
    Candidate = {c1, c2}
    Request = {r1}
    Canon = {s1, s2}
    NoThread = NoThread
    NoCandidate = NoCandidate
    NoRequest = NoRequest
    NoCanon = NoCanon
    MaxChange = 1
    MaxFault = 1
\* Candidates and changes may be used up.
CHECK_DEADLOCK FALSE
INVARIANTS
    OneLive
    LedgersAgree
    HandoffIsApplied
PROPERTIES
    ExactlyOnce
    RequestReturns
    ClaimEnds
