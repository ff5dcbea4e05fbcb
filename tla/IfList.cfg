CONSTANTS
    Address = {"x", "y", "z"}
    Word = {"x", "y", "z", "e1", "e2", "e3"}
    Files <- MCFiles
    Stack <- MCStack
    OldTables <- MCOldTables
    Node = {n1, n2, n3, n4, n5, n6}
    NULL = NULL
    HwInfo <- MCHwInfo
    MaxHwInfo = 2

SPECIFICATION Spec
SYMMETRY NodeSymmetry

INVARIANTS
    FileDecides
    TablesNotMixed
    WalkStaysOnList
