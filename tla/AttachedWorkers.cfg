CONSTANTS
    Items = {1, 2, 3}
    Kind = "queue"
    priority <- OnePriority
    Threads = {p1, p2, c1, c2}
    Producers = {p1, p2}
    Consumers = {c1, c2}
    Calls <- NoCalls
    Controls <- NoControls
    Capacity = 2
    SizeMax = 9
    ItemsPerThread = 1
SPECIFICATION FairPipeline
INVARIANTS
    ActiveAreAwake
    NeverAllAsleep
PROPERTIES
    EveryItemTaken
    LoopsEnd
CHECK_DEADLOCK FALSE
