SPECIFICATION Spec
CHECK_DEADLOCK FALSE
CONSTANTS
    a = a
    b = b
    c = c
    d = d
    Unknown = Unknown
    Nodes <- MCNodes
    Documents <- MCDocuments
    MaxRoom = 2
INVARIANTS
    NothingLeftToJoin
    OneRingIsSafe
PROPERTIES
    RingsOfMembers
    Terminates
