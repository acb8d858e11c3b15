\* A QUIT from the first server in g_servers drops every other server.
CONSTANTS
    s1 = s1
    s2 = s2
    n1 = n1
    n2 = n2
    Server <- MCServer
    Tables <- MCTables
SPECIFICATION Spec
SYMMETRY ServerSymmetry
INVARIANT ServersKept
