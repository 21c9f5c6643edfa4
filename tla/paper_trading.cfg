\* One command and one direct caller over two trading days.
SPECIFICATION Spec
CONSTANTS
  Leased = {cli}
  Library = {lib}
  AutopilotConfirms = {FALSE}
  Overwrites = {FALSE}
  MaxTime = 5
  MaxProposals = 3
  MaxVersion = 3
  MaxPolicy = 1
PROPERTY EvidenceKept
PROPERTY LedgerPromise
PROPERTY FillsSound
CHECK_DEADLOCK FALSE
