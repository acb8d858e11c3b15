\* BROADCAST STATUS is applied while the display thread holds g_servers_mutex.
CONSTANTS
    s1 = s1
    s2 = s2
    n1 = n1
    n2 = n2
    Server <- MCServer
    Tables <- MCTables
SPECIFICATION Spec
SYMMETRY ServerSymmetry
INVARIANT DisplayReadsConsistent
