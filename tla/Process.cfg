CONSTANTS
    Conns = {1}
    Modbus = modbus
    Tcp = tcp
    Deleter = deleter
    Main = main
    Numbers = {n1, n2, n3}
    SignalThreads <- JustMain
    MaxSignals = 1
    MaxClients <- OneEach
SPECIFICATION Spec
INVARIANTS
    TypeOK
    OutlivesItsThread
    StoppedLast
    QuietProcess
    MissingThread
    DeletedIsUnused
    BoostKeepsItsSocket
    NumbersAccountedFor
PROPERTIES
    ImplementsPool
SYMMETRY AnyNumbers
CHECK_DEADLOCK FALSE
