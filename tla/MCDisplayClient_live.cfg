\* A listener and a display thread over two servers: what the display reads, and what a broadcast leaves in the client's list.
CONSTANTS
    s1 = s1
    s2 = s2
    n1 = n1
    n2 = n2
    Server <- MCServer
    Tables <- MCTables
SPECIFICATION Spec
INVARIANTS
    TypeOK
    ClientShowsBroadcast

