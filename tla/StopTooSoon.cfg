CONSTANTS
    Size = 2
    Named = {"discrete", "input"}
    Numbers <- NoNumber
    MaxStray = 0
    MaxCommands = 3
    Window = 64
SPECIFICATION FairSpec
PROPERTY StopReturns
