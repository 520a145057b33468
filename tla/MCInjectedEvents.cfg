SPECIFICATION Spec
CONSTANTS
    None = None
    ambient = ambient
    bound = bound
    Tab = {ambient}
    Bound = {}
    Account = {a1, a2}
    Network = {n1}
    Invocation = {inv1}
    Tx = {t1}
    Output = {}
CHECK_DEADLOCK FALSE
PROPERTIES
    EventsInvalidate
