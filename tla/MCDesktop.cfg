SPECIFICATION FairDesktopSpec
CONSTANTS
    MaxLaunches = 3
    MaxAttempts = 2
CHECK_DEADLOCK FALSE
INVARIANTS ResetIsWhole RuntimesAreTracked
PROPERTIES OutcomeIsShown
