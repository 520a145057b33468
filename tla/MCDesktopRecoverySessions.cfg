SPECIFICATION FairSpec
CONSTANTS
    None = None
    tabA = tabA
    tabB = tabB
    s1 = s1
    s2 = s2
    s3 = s3
    account = account
    Tx = {t1}
    ChainVersion = {}
    Session = {s1, s2, s3}
    V1Session = {s1, s2}
    Account = {account}
    AccountOf <- Accounts
    RequestId = {req1}
    Subject = {submit}
    SubmitSubject = {submit}
    CommittedSubject = {submit}
    Invocation = {inv1}
    Output = {}
    AckTombstone = 0
    ArchiveAge = 0
    MaxClock = 0
    Tab = {tabA}
CHECK_DEADLOCK FALSE
INVARIANTS
    AdmissionIsRecoverable
    ToldIsSaved
    DeskAcknowledgedFirst
PROPERTIES
    AdmissionIsSettled
