CONSTANTS
    a = a
    b = b
    c = c
    w1 = w1
    w2 = w2
    Client = {a, b, c}
    Worker = {w1, w2}
    Home <- MCHome
    Publisher = {a, b}
    Subscriber = {b, c}
    Acked = {b}
    MaxQueue = 1
    SocketSize = 1
    MaxSent = 2
    MaxHung = 1
    None = None
SPECIFICATION FairSpec
 
CHECK_DEADLOCK FALSE
PROPERTIES FreedInTheEnd PublishedArrives
