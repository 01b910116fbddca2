CONSTANTS
    Conn = {c1, c2, c3}
    Id = {i1}
    Anonymous = Anonymous
    Filter = {f}
    None = None
SPECIFICATION Spec
SYMMETRY ConnSymmetry
INVARIANTS OwnSession SessionSettles SessionKnows
