--------------------------- MODULE MCDisplayClient ---------------------------
(***************************************************************************)
(* Two servers, each with the devices n1 and n2 in configuration order:   *)
(* enough for a second server to outlive the first in g_servers, and for  *)
(* a broadcast to update one device while the other keeps its entry.      *)
(***************************************************************************)
EXTENDS DisplayClient, TLC

CONSTANTS s1, s2, n1, n2

MCServer == {s1, s2}

\* A device of g_devices as print_device_status sees it; an UP device has
\* been up 75 seconds and has 2 users, so the two numbers differ in width
\* and value.
Dev(name, len, st) == [name |-> Word(name, len), status |-> st, uptime |-> 75, users |-> 2]

\* The device lists of a server, n1's name len1 bytes long and n2's 5.
TablesOf(len1, sts) == {<<Dev(n1, len1, a), Dev(n2, 5, b)>> : a, b \in sts}

\* Three polls between any two of which each device changes status, with
\* names of 4 and 5 bytes: every broadcast fits in MAX_RECV_BUFFER.
MCTables ==
    {<<Dev(n1, 4, "UP"), Dev(n2, 5, "DOWN")>>,
     <<Dev(n1, 4, "CONNECTING"), Dev(n2, 5, "UP")>>,
     <<Dev(n1, 4, "DISCONNECTING"), Dev(n2, 5, "CONNECTING")>>}

\* The same devices, n1 with a name of 366 bytes: by n1's status the second
\* line starts at byte 389 (DOWN) to 398 (DISCONNECTING), and the 400 bytes
\* kept end in n2's name, in its status word or in UP's numbers.
MCLongTables == TablesOf(366, DevStatus)

ServerSymmetry == Permutations(MCServer)
=============================================================================
