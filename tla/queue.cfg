SPECIFICATION Spec
CONSTANTS
    NumAnswers = 3
    LostReplies = FALSE
    RetryAttempts = 2
    Sessions <- Visits
    MaxAddFaults = 1
    MaxDbFaults = 1
    MaxDisplays = 2
    StaleReloads = TRUE
INVARIANTS
    TypeOK
    OneSender
    HeadIsSent
    AnswersKept
    OneResponse
    InOrder
    LocksReleased
PROPERTIES
    ImplementsChannel
CHECK_DEADLOCK FALSE
