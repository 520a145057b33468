SPECIFICATION FreshSpec
CONSTANTS
    None = None
    Tab = {tab1, tab2}
    ProviderTab = {tab2}
    HeartbeatTab = {}
    Session = {s1, s2}
    ProviderAccount = injected
    ConnectCall = {c1, c2}
    AccountCall = {a1}
    MaxDisconnects = 1
    MaxDisposals = 0
    MaxReloads = 0
    MaxCopies = 1
CHECK_DEADLOCK FALSE
SYMMETRY Symmetry
INVARIANTS
    RetainedDoesNotWin
    OneOpenConnect
    NoConnectDuringDisconnect
PROPERTIES
    LateConnectsPublishNothing
