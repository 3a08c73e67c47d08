CONSTANTS
    Items = {1, 2, 3, 4}
    Kind = "queue"
    priority <- TwoPriorities
    Threads = {a, b, c}
    Adder = a
    Taker = b
    Calls <- DeleterCalls
    Controls <- CompleteOnly
    Capacity = 9
    SizeMax = 9
    ItemsPerThread = 1
SPECIFICATION FairCollection
PROPERTIES
    ImplementsHandover
