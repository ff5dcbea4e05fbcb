CONSTANTS
    Iface = {"e1", "e2"}
    IP = {"r1", "r2"}
    NoIP = "none"
    Command <- MCCommand
    Table <- MCTable
    MaxCommands = 7
    MaxInbox = 1
    Unreadable = Unreadable

SPECIFICATION FairSpec

INVARIANTS
    SessionTypeOK
    PacketsNeedSession
    ReadyMeansConsistent
    InterfaceAddresses

PROPERTIES
    SessionEnds
