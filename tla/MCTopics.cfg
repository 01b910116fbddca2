CONSTANTS
    a = a
    b = b
    bad = bad
    Word <- MCWord
    Malformed <- MCMalformed
    RawTopic <- MCRawTopic
    s1 = s1
    s2 = s2
    Sub <- MCSub
    NilSub = NilSub
    MaxRows = 2
    MaxHeld = 4
    SubQos = {0, 1, 3}
    Msg = {m1}
    NoMsg = NoMsg
SPECIFICATION TreesSpec
INVARIANTS SubscribersInStep SubscriptionsCompact RetainedCompact
INVARIANTS WalksAgree MatchExact LiveAndRetainedAgree
PROPERTIES RetainedLosesOneBranch SubscriptionsImplemented
CONSTRAINT FewRows
