CONSTANTS
    Conns = {1}
    Modbus = modbus
    Tcp = tcp
    Deleter = deleter
    Main = main
    Numbers = {n1, n2, n3}
    SignalThreads <- ClientAndModbus
    MaxSignals = 2
    MaxClients <- OneEach
SPECIFICATION ServingFairSpec
INVARIANTS
    MissingThread
    StopRace
PROPERTIES
    DepartedIsReaped
    StoppedLeaves
    InterruptEndsProcess
