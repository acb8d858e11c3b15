\* wait_for_servers under fair threads: a one-second wait that times out while a server is being added ends the client.
CONSTANTS
    s1 = s1
    s2 = s2
    n1 = n1
    n2 = n2
    Server <- MCServer
    Tables <- MCTables
SPECIFICATION LiveSpec
PROPERTY DisplayKeepsShowing
