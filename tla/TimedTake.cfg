CONSTANTS
    Items = {1, 2}
    Kind = "queue"
    priority <- TwoPriorities
    Threads = {a, b, c}
    Adder = a
    Taker = b
    Calls <- TimedTakes
    Controls <- NoControls
    Capacity = 2
    SizeMax = 9
    ItemsPerThread = 1
SPECIFICATION CollectionSpec
INVARIANTS
    TakeWaitsForItem
