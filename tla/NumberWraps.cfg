CONSTANTS
    Size = 2
    Named = {"discrete", "input"}
    Numbers <- Beyond
    MaxStray = 0
    MaxCommands = 2
    Window = 16
SPECIFICATION Spec
INVARIANT OnlyRegistersShown
