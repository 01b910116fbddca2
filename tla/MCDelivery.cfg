CONSTANTS
    m1 = m1
    m2 = m2
    c1 = c1
    c2 = c2
    c3 = c3
    g1 = g1
    Message = {m1, m2}
    Kinds <- MCKinds
    Client = {c1, c2, c3}
    Group <- MCGroup
    None = None
SPECIFICATION Spec
SYMMETRY GroupSymmetry
INVARIANTS TypeOK LiveDelivered NoMissedRetained 
