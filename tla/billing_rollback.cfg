SPECIFICATION Spec
CONSTANTS
    h1 = h1
    g1 = g1
    a1 = a1
    a2 = a2
    Hooks <- TheHook
    Pages <- ThePage
    Admins <- TwoAdmins
    MaxSubs = 3
    Limits <- Failing
INVARIANTS
    FailedChangeKeepsCancellation
CHECK_DEADLOCK FALSE
