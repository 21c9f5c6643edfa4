SPECIFICATION FairSpec
CONSTANTS
  Spy = "SPY"
  Members = {"m1", "m2"}
  Splits <- MCSplits
  Listed <- MCListed
  Overlap = 1
  Tiingo = FALSE
  Unknown = Unknown
  Series = {"G", "Y"}
  Yields = {"Y"}
  Vintages <- MCVintages
  ReleaseOverlap = 1
  ChunkSize = 2
  MemberOrder <- MCOrder
  History <- MCHistory
  FirstDay = 1
  MinCovered = 2
  PriceAge = 1
  CircuitLimit = 1
  Window = 3
  LastDay = 3
  MaxFaults = 2
  MaxRepairs = 1
  RepairWindows <- MCRepairWindows
INVARIANT PricesInv
INVARIANT MacroKnown
INVARIANT QuotedBasis
PROPERTY CertifiedTrue
PROPERTY EventuallyCertified
PROPERTY IncidentCloses
CHECK_DEADLOCK FALSE
