SPECIFICATION Spec
CONSTANTS
    None = None
    desk = desk
    phone = phone
    req1 = req1
    inv1 = inv1
    submit = submit
    DesktopSession = {desk}
    RequestId = {req1}
    SubmitSubject = {submit}
    AckTombstone = 0
    ArchiveAge = 1
    Session = {desk, phone}
    Subject = {submit}
    CommittedSubject = {submit}
    Invocation = {inv1}
    Output = {}
    Receipts <- OneSubmission
    Tx = {t1, t2}
    ChainVersion = {v1}
    Task = {task1}
    MaxClock = 2
INVARIANTS
    OutcomeAgrees
    DebtKept
PROPERTIES
    UnknownWorkSurvives
    ImplementsLedger
