CONSTANTS
    m1 = m1
    m2 = m2
    Message = {m1, m2}
    MsgId <- MCDistinct
    Retry = {t1, t2}
    MaxSame = 1
    RetryInterval = 1
    MaxLag = 1
    None = None
SPECIFICATION Spec
SYMMETRY Symmetric
INVARIANTS TypeOK   
