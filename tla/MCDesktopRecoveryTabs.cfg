SPECIFICATION Spec
CONSTANTS
    None = None
    tabA = tabA
    tabB = tabB
    s1 = s1
    s2 = s2
    s3 = s3
    account = account
    Tx = {}
    ChainVersion = {}
    Session = {s1}
    V1Session = {s1}
    Account = {account}
    AccountOf <- Accounts
    RequestId = {req1}
    Subject = {message}
    SubmitSubject = {}
    CommittedSubject = {message}
    Invocation = {inv1}
    Output = {}
    AckTombstone = 0
    ArchiveAge = 0
    MaxClock = 1
    Tab = {tabA, tabB}
SYMMETRY Tabs
CHECK_DEADLOCK FALSE
INVARIANTS
    TypeOK
    NotInvokedIsTrue
    ToldIsSaved
    DeskAcknowledgedFirst
