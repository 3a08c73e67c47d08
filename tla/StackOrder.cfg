CONSTANTS
    Items = {1, 2}
    Kind = "stack"
    priority <- TwoPriorities
    Threads = {a, b}
    Adder = a
    Taker = b
    Calls <- Plain
    Controls <- NoControls
    Capacity = 2
    SizeMax = 9
    ItemsPerThread = 1
SPECIFICATION CollectionSpec
PROPERTIES
    ImplementsBuffer
