CONSTANTS
    Items = {1, 2}
    Kind = "priority"
    priority <- TwoPriorities
    Threads = {a, b}
    Adder = a
    Taker = b
    Calls <- PrioBulkTakes
    Controls <- NoControls
    Capacity = 1
    SizeMax = 9
    ItemsPerThread = 1
SPECIFICATION CollectionSpec
INVARIANTS
    AddWaitsForSpace
