SPECIFICATION Spec
CONSTANTS
    None = None
    ambient = ambient
    bound = bound
    Tab = {ambient, bound}
    Bound = {bound}
    Account = {a1, a2}
    Network = {n1}
    Invocation = {inv1}
    Tx = {t1, t2}
    Output = {o1}
SYMMETRY Symmetry
VIEW WithoutSubscribed
CHECK_DEADLOCK FALSE
INVARIANTS
    TypeOK
    NotInvokedIsTrue
    OutcomesAgree
    AcknowledgedInOrder
PROPERTIES
    InvokedInScope
