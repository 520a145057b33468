SPECIFICATION FairSpec
CONSTANTS
    None = None
    Tab = {tab1}
    ProviderTab = {}
    HeartbeatTab = {tab1}
    Session = {s1, s2}
    ProviderAccount = injected
    ConnectCall = {c1}
    AccountCall = {}
    MaxDisconnects = 1
    MaxDisposals = 1
    MaxReloads = 1
    MaxCopies = 1
CHECK_DEADLOCK FALSE
PROPERTIES
    ConnectSettles
    DisconnectFinishes
    RevocationIsNoticed
