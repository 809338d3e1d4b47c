SPECIFICATION CycleSpec
CONSTANTS
  r1 = r1
  r2 = r2
  Review <- MCReview
  Output <- MCOutput
  Expected <- MCExpected
  Catalog <- MCCatalog
  Message <- MCMessage
  Content <- MCContent
  OneLine <- MCOneLine
  Quotes <- MCQuotes
  Found <- MCFound
  Secret = {}
  Path = {p1, p2}
  MaxDecisions = 2
  MaxFaults = 1
INVARIANTS
  RoutesAgree
  HandoffsAdvance
  ReviewedIsWhole
  EquivalentIsCapturable
CHECK_DEADLOCK FALSE
