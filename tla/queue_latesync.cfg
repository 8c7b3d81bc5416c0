SPECIFICATION FairSpec
CONSTANTS
    NumAnswers = 2
    LostReplies = FALSE
    RetryAttempts = 2
    Sessions <- OneLoss
    MaxAddFaults = 0
    MaxDbFaults = 0
    MaxDisplays = 1
    StaleReloads = FALSE
PROPERTIES
    EveryAnswerSynced
CHECK_DEADLOCK FALSE
