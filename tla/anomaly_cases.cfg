SPECIFICATION Spec
CONSTANTS
    None = None
    Lookback = 3
    MinDrop = 2
    Rules <- AllRules
    FirstWorld <- Worlds
    Answers <- Given
    Edits <- ByHand
    Owners = {dq}
    Verdicts = {"accepted", "source_corrected"}
    MaxClock = 2
    MaxScans = 3
    MaxEvents = 3
    MaxKept = 2
INVARIANT QueueInv
INVARIANT CorrectionHolds
INVARIANT NothingHidden
