CONSTANTS
    Items = {1, 2, 3}
    Kind = "priority"
    priority <- TwoPriorities
    Threads = {a, b}
    Adder = a
    Taker = b
    Calls <- Divided
    Controls <- WithConsumers
    Capacity = 3
    SizeMax = 9
    ItemsPerThread = 1
SPECIFICATION CollectionSpec
INVARIANTS
    CollectionTypeOK
PROPERTIES
    ImplementsBuffer
