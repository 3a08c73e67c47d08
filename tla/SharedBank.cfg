CONSTANTS
    ModbusThreads = {m1, m2}
    TcpThreads = {t1}
    Size = 2
    MaxWrites = 2
SPECIFICATION FairRegSpec
INVARIANTS
    RegTypeOK
    OwnSocket
    NeverBackwards
    BankFound
PROPERTIES
    LockReleased
    ImplementsAtomicBank
