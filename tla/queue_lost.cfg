SPECIFICATION Spec
CONSTANTS
    NumAnswers = 3
    LostReplies = TRUE
    RetryAttempts = 2
    Sessions <- Unlucky
    MaxAddFaults = 0
    MaxDbFaults = 0
    MaxDisplays = 1
    StaleReloads = FALSE
INVARIANTS
    NothingLost
CHECK_DEADLOCK FALSE
