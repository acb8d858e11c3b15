------------------------------- MODULE StartUps -------------------------------
(***************************************************************************)
(* The start-up of one of the system's three programs, whichever is run:   *)
(* the server (ServerConfig), the notification peer (NotifyPeer) or the   *)
(* display client (ClientConfig), each over its own files and argument     *)
(* vectors.  The programs do not share state at start-up, so the model    *)
(* runs one of them and leaves the others' variables at rest.             *)
(***************************************************************************)
EXTENDS ConfigText

CONSTANTS
    ServerFiles, ServerArgvs,
    PeerFiles, PeerArgvs,
    ClientFiles, ClientArgvs,
    Missing, Unreadable

VARIABLES
    prog,                                                       \* which program runs
    sargs, sfile, spc, sconf, g_devices, cur_pos, visited, repeated,  \* the server
    pargs, pfile, ppc, pconf, net, received,                    \* the peer
    cargs, cfile, cpc, cconf                                    \* the client

svars == <<sargs, sfile, spc, sconf, g_devices, cur_pos, visited, repeated>>
pvars == <<pargs, pfile, ppc, pconf, net, received>>
cvars == <<cargs, cfile, cpc, cconf>>
vars == <<prog, svars, pvars, cvars>>

S == INSTANCE ServerConfig
        WITH Files <- ServerFiles, Argvs <- ServerArgvs,
             args <- sargs, file <- sfile, pc <- spc, conf <- sconf
P == INSTANCE NotifyPeer
        WITH Files <- PeerFiles, Argvs <- PeerArgvs,
             args <- pargs, file <- pfile, pc <- ppc, conf <- pconf
C == INSTANCE ClientConfig
        WITH Files <- ClientFiles, Argvs <- ClientArgvs,
             args <- cargs, file <- cfile, pc <- cpc, conf <- cconf

\* A program that is not run stays before its first step.
ServerIdle ==
    /\ sargs = <<>> /\ sfile = Missing /\ spc = "args" /\ sconf = S!Defaults
    /\ g_devices = <<>> /\ cur_pos = 0 /\ visited = {} /\ repeated = FALSE
PeerIdle ==
    /\ pargs = <<>> /\ pfile = Missing /\ ppc = "args" /\ pconf = P!Defaults
    /\ net = P!None /\ received = P!None
ClientIdle ==
    cargs = <<>> /\ cfile = Missing /\ cpc = "args" /\ cconf = C!Defaults

Init ==
    \/ prog = "server" /\ S!Init /\ PeerIdle /\ ClientIdle
    \/ prog = "peer" /\ ServerIdle /\ P!Init /\ ClientIdle
    \/ prog = "client" /\ ServerIdle /\ PeerIdle /\ C!Init

Next ==
    \/ prog = "server" /\ S!Next /\ UNCHANGED <<prog, pvars, cvars>>
    \/ prog = "peer" /\ P!Next /\ UNCHANGED <<prog, svars, cvars>>
    \/ prog = "client" /\ C!Next /\ UNCHANGED <<prog, svars, pvars>>

Spec == Init /\ [][Next]_vars /\ WF_vars(Next)

-----------------------------------------------------------------------------
(***************************************************************************)
(* Every device the server loads was named in a [Device] section          *)
(* (ServerConfig!DeviceNamesFromFile).                                     *)
(***************************************************************************)
DeviceNamesFromFile == prog = "server" => S!DeviceNamesFromFile

(***************************************************************************)
(* A NOTIFY the server receives carries the command and, whole, the device *)
(* of a command line that follows the peer's usage                        *)
(* (NotifyPeer!NotifyAsAsked).                                             *)
(***************************************************************************)
NotifyAsAsked == prog = "peer" => P!NotifyAsAsked
=============================================================================
