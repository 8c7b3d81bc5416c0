SPECIFICATION FairSpec
CONSTANTS
    h1 = h1
    g1 = g1
    a1 = a1
    a2 = a2
    Hooks <- TheHook
    Pages <- ThePage
    Admins <- TwoAdmins
    MaxSubs = 3
    Limits <- Customers
INVARIANTS
    TypeOK
    OneTrial
    OneHobbyUntilCancel
PROPERTIES
    BillingSettles
CHECK_DEADLOCK FALSE
