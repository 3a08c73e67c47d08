CONSTANTS
    Items = {1, 2}
    Kind = "queue"
    priority <- TwoPriorities
    Threads = {a, b}
    Adder = a
    Taker = b
    Calls <- Plain
    Controls <- FlushOnly
    Capacity = 1
    SizeMax = 9
    ItemsPerThread = 1
SPECIFICATION CollectionSpec
INVARIANTS
    AddWaitsForSpace
