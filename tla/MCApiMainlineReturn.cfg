SPECIFICATION FairApiSpec
CONSTANTS
    Thread = {t1, t2}
    Tool = {p1}
    Return = {a1}
    ApiReturn = {a1}
    NoActor = NoActor
    NoReturn = NoReturn
    Authority = {"API", "NONE"}
    MaxFault = 1
    MaxChange = 1
    Canon = {s1, s2}
    NoCanon = NoCanon
    TextOf <- SameText
CHECK_DEADLOCK FALSE
INVARIANTS
    DeliveryBacked
    EndedOnce
    CompletedIsApplied
PROPERTIES
    ExactlyOnce
    SentEnds
