SPECIFICATION Spec
CONSTANTS
    Tx = {t1, t2}
    ChainVersion = {v1, v2}
    None = None
    MaxSnapshots = 3
CONSTRAINT AnswerBound
INVARIANTS
    RetainedIsTrue
    NothingErased
    NeverStuck
