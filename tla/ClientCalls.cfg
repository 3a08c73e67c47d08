CONSTANTS
    Size = 2
    Named = {"discrete", "input"}
    Numbers <- AtTheEnd
    MaxStray = 0
    MaxCommands = 3
    Window = 4
SPECIFICATION FairSpec
INVARIANTS
    ClientTypeOK
    InStep
    ShownIsAsked
PROPERTIES
    CallsEnd
    StopStops
