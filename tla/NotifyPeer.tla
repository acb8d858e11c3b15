------------------------------ MODULE NotifyPeer ------------------------------
(***************************************************************************)
(* The notification peer (peer/notify.c, peer/read_config.c) and the      *)
(* server's receipt of its datagram (process_command in server/server.c). *)
(*                                                                         *)
(* The peer is a one-shot program: parse_command_line, read_config, then   *)
(* build "NOTIFY ISUP <device>" or "NOTIFY ISDOWN <device>" in a           *)
(* MAX_SEND_BUFFER array and send the whole array.  The datagram crosses   *)
(* a network that may lose it; the server receives it into a               *)
(* MAX_RECV_BUFFER array and writes a terminating NUL at recv_size.        *)
(***************************************************************************)
EXTENDS ConfigText

CONSTANTS
    Files,      \* the configuration files to try
    Argvs,      \* argument vectors (without argv[0])
    Missing,    \* a file that does not exist
    Unreadable  \* a file that exists but cannot be opened or mapped

MAX_SEND_BUFFER == 400
MAX_RECV_BUFFER == 400

PeerHdr == Hdr("Peer", 6)

\* The lengths of NOTIFY_ISUP ("NOTIFY ISUP ") and NOTIFY_ISDOWN.
PrefixLen == [UP |-> 12, DOWN |-> 14]

\* The default strings of notify.h.
DefaultText == <<Token("default", "", 0, 0)>>

NoDevice == Plain("(null)", 0, 0)
None == [none |-> TRUE]

\* The peer variables' initialisers.  g_command has none: a global is 0,
\* which is UP.
Defaults ==
    [debug |-> 0, config_file |-> DefaultText, serv_addr |-> DefaultText,
     serv_port |-> 9876, command |-> "UP", device |-> NoDevice]

VARIABLES
    args,       \* argv
    file,       \* the configuration file's text, Missing or Unreadable
    pc,         \* "args", "open", "section", "send", "sent", "failed",
                \*   "aborted"
    conf,       \* the peer variables
    net,        \* the datagram in flight, or None
    received    \* what process_command read, or None

vars == <<args, file, pc, conf, net, received>>

(***************************************************************************)
(* parse_command_line.  With no arguments it returns 0 at once.  -U and -D *)
(* set the command and a second one is an error; any other argument not    *)
(* starting with '-' replaces the device.  Without -U or -D it fails.  As  *)
(* in the server, "-c" as the last argument strdup()s argv[argc], NULL.   *)
(* The result is [conf, rc, aborted].                                      *)
(***************************************************************************)
RECURSIVE PeerArgsFrom(_, _, _, _)
PeerArgsFrom(argv, i, c, command_set) ==
    IF i > Len(argv)
    THEN [conf |-> c, rc |-> IF command_set THEN 0 ELSE -1, aborted |-> FALSE]
    ELSE CASE argv[i].s = "-d" ->
                PeerArgsFrom(argv, i + 1, [c EXCEPT !.debug = 1], command_set)
           [] argv[i].s = "-c" /\ i = Len(argv) -> [conf |-> c, rc |-> 0, aborted |-> TRUE]
           [] argv[i].s = "-c" ->
                PeerArgsFrom(argv, i + 2,
                             [c EXCEPT !.config_file = <<Word(argv[i + 1].s, 1)>>], command_set)
           [] argv[i].s \in {"-U", "-D"} /\ command_set ->
                [conf |-> c, rc |-> -1, aborted |-> FALSE]
           [] argv[i].s \in {"-U", "-D"} ->
                PeerArgsFrom(argv, i + 1,
                             [c EXCEPT !.command = IF argv[i].s = "-U" THEN "UP" ELSE "DOWN"],
                             TRUE)
           [] argv[i].sw -> PeerArgsFrom(argv, i + 1, c, command_set)
           [] OTHER -> PeerArgsFrom(argv, i + 1, [c EXCEPT !.device = argv[i]], command_set)

\* Mutant: the command_set test dropped, so a second -U or -D wins.
peer_parse_command_line_reset(argv) ==
    LET last == SelectLastInSeq(argv, LAMBDA a : a.s \in {"-U", "-D"})
        keep == SelectSeq([i \in 1..Len(argv) |-> i],
                          LAMBDA i : argv[i].s \notin {"-U", "-D"} \/ i = last)
    IN  IF argv = <<>> THEN [conf |-> Defaults, rc |-> 0, aborted |-> FALSE]
        ELSE PeerArgsFrom([j \in 1..Len(keep) |-> argv[keep[j]]], 1, Defaults, FALSE)

peer_parse_command_line(argv) ==
    IF argv = <<>> THEN [conf |-> Defaults, rc |-> 0, aborted |-> FALSE]
    ELSE PeerArgsFrom(argv, 1, Defaults, FALSE)

\* One line of parse_peer_section: debug and serv_port need a number,
\* serv_addr takes any value; g_serv_port is an unsigned short.
ApplyPeerOption(c, name, value) ==
    LET o == OptionName(name)
    IN  CASE o = "debug" /\ number_valid(value) -> [c EXCEPT !.debug = numeric_value(value)]
          [] o = "serv_addr" -> [c EXCEPT !.serv_addr = value]
          [] o = "serv_port" /\ number_valid(value) ->
               [c EXCEPT !.serv_port = numeric_value(value) % 2^16]
          [] OTHER -> c

\* The option chain run on each accepted line of the section in turn.
RECURSIVE ApplyPeerLines(_, _)
ApplyPeerLines(c, pairs) ==
    IF pairs = <<>> THEN c
    ELSE ApplyPeerLines(ApplyPeerOption(c, Head(pairs)[1], Head(pairs)[2]), Tail(pairs))

(***************************************************************************)
(* The send buffer after strcpy(prefix) and strcat(g_device): the command, *)
(* the device as far as it is in the array, and whether the string's NUL  *)
(* is within the MAX_SEND_BUFFER bytes sendto() sends.                     *)
(***************************************************************************)
SendBuffer(c) ==
    LET room == MAX_SEND_BUFFER - PrefixLen[c.command]
    IN  [command |-> c.command, device |-> c.device.s,
         len |-> IF c.device.len < room THEN c.device.len ELSE room,
         terminated |-> c.device.len < room, size |-> MAX_SEND_BUFFER]

-----------------------------------------------------------------------------
Init ==
    /\ args \in Argvs
    /\ file \in Files
    /\ pc = "args"
    /\ conf = Defaults
    /\ net = None
    /\ received = None

\* main: parse_command_line; a negative result exits.
ParseArgs ==
    LET r == peer_parse_command_line(args)
    IN  /\ pc = "args"
        /\ conf' = r.conf
        /\ pc' = CASE r.aborted -> "aborted"
                   [] r.rc < 0 -> "failed"
                   [] OTHER -> "open"
        /\ UNCHANGED <<args, file, net, received>>

\* read_config: open_config_file; a missing file leaves the defaults.
OpenConfig ==
    /\ pc = "open"
    /\ pc' = CASE file = Missing -> "send"
              [] file = Unreadable -> "failed"
              [] OTHER -> "section"
    /\ UNCHANGED <<args, file, conf, net, received>>

\* read_config: get_peer_section, parse_peer_section if there is one, and
\* close_config_file.
PeerSection ==
    LET sec == GetSection(file, PeerHdr)
    IN  /\ pc = "section"
        /\ IF sec.found
           THEN \E out \in ParseSection(sec.text) :
                   /\ conf' = ApplyPeerLines(conf, out.pairs)
                   /\ pc' = IF out.aborted THEN "aborted" ELSE "send"
           ELSE pc' = "send" /\ UNCHANGED conf
        /\ UNCHANGED <<args, file, net, received>>

(***************************************************************************)
(* main after read_config: strcpy the prefix, strcat g_device, and sendto  *)
(* MAX_SEND_BUFFER bytes; a short send exits with failure.  strcat of a    *)
(* NULL g_device crashes.  A device too long for the array overruns it:   *)
(* the stack is undefined from there, so the peer either crashes before    *)
(* sendto or sends the array and dies on return from main.                *)
(***************************************************************************)
Notify ==
    LET b == SendBuffer(conf)
    IN  /\ pc = "send"
        /\ \/ conf.device = NoDevice /\ pc' = "aborted" /\ UNCHANGED net
           \/ /\ conf.device # NoDevice
              /\ b.terminated
              /\ \/ pc' = "sent" /\ net' = b
                 \/ pc' = "failed" /\ UNCHANGED net
           \/ /\ conf.device # NoDevice
              /\ ~b.terminated
              /\ pc' = "aborted"
              /\ net' \in {net, b}
        /\ UNCHANGED <<args, file, conf, received>>

\* The network loses the datagram.
Lose ==
    /\ net # None
    /\ net' = None
    /\ UNCHANGED <<args, file, pc, conf, received>>

(***************************************************************************)
(* process_command: recvfrom into MAX_RECV_BUFFER bytes (a longer datagram *)
(* is cut), then recv_buffer[recv_size] = 0.  The server reads the string  *)
(* up to its first NUL: the prefix and the device as the peer wrote it.   *)
(***************************************************************************)
ServerReceive ==
    /\ net # None
    /\ received' = [command |-> net.command, device |-> net.device, len |-> net.len,
                    recv_size |-> IF net.size < MAX_RECV_BUFFER THEN net.size
                                  ELSE MAX_RECV_BUFFER]
    /\ net' = None
    /\ UNCHANGED <<args, file, pc, conf>>

\* The peer has exited and the network is empty.
Finished ==
    /\ pc \in {"sent", "failed", "aborted"}
    /\ net = None
    /\ UNCHANGED vars

Next ==
    \/ ParseArgs \/ OpenConfig \/ PeerSection \/ Notify
    \/ Lose \/ ServerReceive \/ Finished

Spec == Init /\ [][Next]_vars /\ WF_vars(Next)

-----------------------------------------------------------------------------
(***************************************************************************)
(* Reference: the usage "notify [-d] [-c file] -U|-D device": the one -U   *)
(* or -D switch, and the device, the last word that is neither a switch    *)
(* nor the file name after -c.                                             *)
(***************************************************************************)
Commands(argv) == SelectSeq(argv, LAMBDA a : a.s \in {"-U", "-D"})

Words(argv) ==
    LET idx == SelectSeq([i \in 1..Len(argv) |-> i],
                         LAMBDA i : ~argv[i].sw /\ (i = 1 \/ argv[i - 1].s # "-c"))
    IN  [j \in 1..Len(idx) |-> argv[idx[j]]]

UsageValid(argv) == Len(Commands(argv)) = 1 /\ Words(argv) # <<>>

-----------------------------------------------------------------------------
TypeOK ==
    /\ pc \in {"args", "open", "section", "send", "sent", "failed", "aborted"}
    /\ conf.debug \in Nat
    /\ conf.serv_port \in 0..(2^16 - 1)
    /\ conf.command \in {"UP", "DOWN"}
    /\ net = None \/ net.size = MAX_SEND_BUFFER
    /\ received = None \/ received.recv_size \in 0..MAX_RECV_BUFFER

(***************************************************************************)
(* A NOTIFY the server receives was asked for by a command line that       *)
(* follows the usage, and the server reads from it the command of its one  *)
(* -U or -D switch and, whole, the device it names (parse_command_line,    *)
(* the strcpy/strcat in main, and process_command).                        *)
(***************************************************************************)
NotifyAsAsked ==
    received # None =>
        /\ UsageValid(args)
        /\ received.command = IF Commands(args)[1].s = "-U" THEN "UP" ELSE "DOWN"
        /\ received.device = Last(Words(args)).s
        /\ received.len = Last(Words(args)).len
=============================================================================
