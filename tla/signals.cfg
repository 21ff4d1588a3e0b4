\* Two deliveries of one provider, one of the other and a refresh; what they
\* say of the transaction, and how many work at once, varies (McEvents).
SPECIFICATION Spec
CONSTANTS
    a1 = a1
    a2 = a2
    n1 = n1
    r1 = r1
    ka = ka
    kn = kn
    kr = kr
    Deliveries = {a1, a2, n1, r1}
    Provider <- Providers
    Key <- OwnKeys
    Events <- McEvents
    NoKey = NoKey
    NoLog = NoLog
    MaxFaults = 1
SYMMETRY Same
INVARIANTS
    ProcessedOnce
    ProcessedIsLogged
    ClaimHeld
PROPERTIES
    LogKeepsDetail
\* When every delivery is over nothing is left to do.
CHECK_DEADLOCK FALSE
