CONSTANTS
    Size = 2
    Named = {"discrete", "input"}
    Numbers <- InRange
    MaxStray = 2
    MaxCommands = 4
    Window = 64
SPECIFICATION Spec
INVARIANT ReadWhileLooping
