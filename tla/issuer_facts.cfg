SPECIFICATION FactsSpec
CONSTANTS
  Issuers = {"OLD", "NEW"}
  NoIssuer = "no issuer"
  NoSecurity = "no security"
  Ticker <- MCTicker
  Cohort <- MCCohort
  Security <- MCSecurity
  Feed <- MCFeed
  Legacy <- MCLegacy
  Truth <- MCTruth
  TickerHistory <- MCTickerHistory
  OwnerHistory <- MCOwnerHistory
  ReadDays = {12, 42, 52, 62, 64, 70}
  MaxSpan = 40
  LastDay = 2
  MaxFaults = 1
  MaxRuns <- MCMaxRuns
  MaxGenerations = 1
  MaxPlans = 2
INVARIANT FactsInv
INVARIANT GenerationsFrozen
INVARIANT TrailingYearTrue
PROPERTY ActivationExact
CHECK_DEADLOCK FALSE
