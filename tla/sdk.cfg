SPECIFICATION FairSpec
CONSTANTS
    A = A
    B = B
    x = x
    language = language
    Plain = Plain
    Spam = Spam
    NoUser = NoUser
    Users <- MCUsers
    Attrs <- MCAttrs
    Language = language
    Surveys <- MCSurveys
    Segmented = {Plain}
    Guarded = {Spam}
    Scripts <- MCScripts
INVARIANTS
    TypeOK
    LogoutSticks
    AttributesKept
    AttributesOwn
    FlagHeld
    OneAtATime
PROPERTIES
    OrderedAnswers
    CommandsRun
    SurveyComes
CHECK_DEADLOCK FALSE
