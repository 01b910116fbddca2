CONSTANTS
    b1 = b1
    b2 = b2
    c1 = c1
    c2 = c2
    c3 = c3
    m1 = m1
    m2 = m2
    Broker = {b1, b2}
    Client = {c1, c2, c3}
    Message = {m1, m2}
    Home <- MCHome
    Origin <- MCOrigin
    Qos <- MCQos
    MaxSubscribes = 1
    MaxCopies = 2
SPECIFICATION Spec
SYMMETRY Symmetry
INVARIANTS RemoteDelivered 
