CONSTANTS
    Items = {1, 2}
    Kind = "priority"
    priority <- TwoPriorities
    Threads = {a, b, c, d}
    Adder = a
    Taker = b
    Calls <- Sleepy
    Controls <- AnyState
    Capacity = 2
    SizeMax = 9
    ItemsPerThread = 1
SYMMETRY AnyThread
SPECIFICATION CollectionSpec
INVARIANT ClosedWakesAll
PROPERTIES
    TakersLostOnlySo
    AddersLostOnlySo
