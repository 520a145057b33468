SPECIFICATION PairedSpec
CONSTANTS
    None = None
    t1 = t1
    s1 = s1
    account = account
    Tx = {t1}
    ChainVersion = {}
    Session = {s1, s2}
    Capable = {s1}
    Account = {account}
    AccountOf <- Accounts
    Snapshots <- Answers
    RequestId = {req1}
    Subject = {submit}
    SubmitSubject = {submit}
    CommittedSubject = {submit}
    Invocation = {inv1}
    Output = {}
    AckTombstone = 0
    ArchiveAge = 0
    MaxClock = 0
    Tab = {tabA}
ACTION_CONSTRAINT SecondStays
CHECK_DEADLOCK FALSE
INVARIANTS
    TypeOK
    NotInvokedIsTrue
    ToldIsTrue
    LaunchedIsRecorded
    AdmissionIsRecoverable
PROPERTIES
    CallSettles
