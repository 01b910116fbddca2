CONSTANTS
    m1 = m1
    m2 = m2
    Message = {m1}
    MsgId <- MCDistinct
    Retry = {t1, t2}
    MaxSame = 1
    RetryInterval = 2
    MaxLag = 1
    None = None
SPECIFICATION FairSpec
PROPERTIES  RetriesEnd
