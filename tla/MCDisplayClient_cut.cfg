\* A device list longer than the client's receive buffer: the last line is cut, and a process crash stops the client (no deadlock check).
CONSTANTS
    s1 = s1
    s2 = s2
    n1 = n1
    n2 = n2
    Server <- MCServer
    Tables <- MCLongTables
SPECIFICATION Spec
SYMMETRY ServerSymmetry
INVARIANT ClientShowsBroadcast
CHECK_DEADLOCK FALSE
