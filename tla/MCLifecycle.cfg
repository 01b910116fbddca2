CONSTANTS
    Conn = {c1, c2}
    Filter = {f}
    MaxRequests = 2
    MaxQueue = 2
    Worker = Worker
    Http = Http
    None = None
SPECIFICATION Spec
SYMMETRY ConnSymmetry
INVARIANTS WorkerClosesClean NoStaleEntry
 
