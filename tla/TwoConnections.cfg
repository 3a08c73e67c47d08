CONSTANTS
    Conns = {1, 2}
    Modbus = modbus
    Tcp = tcp
    Deleter = deleter
    Main = main
    Numbers = {n1, n2, n3, n4}
    SignalThreads <- JustMain
    MaxSignals = 1
    MaxClients <- TwoModbus
SPECIFICATION ServingSpec
INVARIANTS
    ReapedOnce
    NoneLost
    StopRace
PROPERTY UsesHandover
SYMMETRY AnyNumbers
