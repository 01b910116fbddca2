CONSTANTS
    n1 = n1
    n2 = n2
    u1 = u1
    Self = self
    Entry <- MCEntry
    Link = {l1, l2}
    Info = Info
    MaxRetries = 0
    None = None
SPECIFICATION FairSpec
INVARIANT NoNodeForgotten
PROPERTIES WaiterServed LinkedInTheEnd
