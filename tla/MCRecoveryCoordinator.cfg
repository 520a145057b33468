SPECIFICATION FairSpec
CONSTANTS
    None = None
    s1 = s1
    Request = {r1}
    Callback = {cb1, cb2}
    MaxSubscriptions = 2
    Scope = {s1, s2}
    ScopeOf <- Scopes
    MaxGeneration = 2
CHECK_DEADLOCK FALSE
INVARIANTS
    ServedOnce
PROPERTIES
    CalledWhileSubscribed
    DeliveredInScope
    EveryoneIsServed
