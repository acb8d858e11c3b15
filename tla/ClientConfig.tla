----------------------------- MODULE ClientConfig -----------------------------
(***************************************************************************)
(* The display client's start-up: parse_command_line, then read_config,    *)
(* which parses the [Client] section into the client's variables           *)
(* (linux_client/read_config.c).  Each step is one call of main.           *)
(***************************************************************************)
EXTENDS ConfigText

CONSTANTS
    Files,      \* the configuration files to try
    Argvs,      \* argument vectors (without argv[0])
    Missing,    \* a file that does not exist
    Unreadable  \* a file that exists but cannot be opened or mapped

ClientHdr == Hdr("Client", 8)

\* The default strings of client.h.
DefaultText == <<Token("default", "", 0, 0)>>

\* The client variables' initialisers (client.h defaults).
Defaults ==
    [debug |-> 0, config_file |-> DefaultText, multicast_group |-> DefaultText,
     multicast_port |-> 6789, server_timeout |-> 60]

VARIABLES
    args,       \* argv
    file,       \* the configuration file's text, Missing or Unreadable
    pc,         \* "args", "open", "section", "done", "failed", "aborted"
    conf        \* the client variables

vars == <<args, file, pc, conf>>

(***************************************************************************)
(* parse_command_line: -d and -c; anything else is reported and skipped.   *)
(* "-c" as the last argument strdup()s argv[argc], NULL, and crashes.     *)
(***************************************************************************)
RECURSIVE ClientArgsFrom(_, _, _)
ClientArgsFrom(argv, i, c) ==
    IF i > Len(argv) THEN [conf |-> c, aborted |-> FALSE]
    ELSE CASE argv[i].s = "-d" -> ClientArgsFrom(argv, i + 1, [c EXCEPT !.debug = 1])
           [] argv[i].s = "-c" /\ i = Len(argv) -> [conf |-> c, aborted |-> TRUE]
           [] argv[i].s = "-c" ->
                ClientArgsFrom(argv, i + 2, [c EXCEPT !.config_file = <<Word(argv[i + 1].s, 1)>>])
           [] OTHER -> ClientArgsFrom(argv, i + 1, c)

client_parse_command_line(argv) == ClientArgsFrom(argv, 1, Defaults)

\* One line of parse_client_section: debug, server_timeout and
\* multicast_port need a number, multicast_group takes any value;
\* g_multicast_port is an unsigned short.
ApplyClientOption(c, name, value) ==
    LET o == OptionName(name)
    IN  CASE o \in {"debug", "server_timeout"} /\ number_valid(value) ->
               [c EXCEPT ![o] = numeric_value(value)]
          [] o = "multicast_group" -> [c EXCEPT !.multicast_group = value]
          [] o = "multicast_port" /\ number_valid(value) ->
               [c EXCEPT !.multicast_port = numeric_value(value) % 2^16]
          [] OTHER -> c

\* The option chain run on each accepted line of the section in turn.
RECURSIVE ApplyClientLines(_, _)
ApplyClientLines(c, pairs) ==
    IF pairs = <<>> THEN c
    ELSE ApplyClientLines(ApplyClientOption(c, Head(pairs)[1], Head(pairs)[2]), Tail(pairs))

-----------------------------------------------------------------------------
Init ==
    /\ args \in Argvs
    /\ file \in Files
    /\ pc = "args"
    /\ conf = Defaults

\* main: parse_command_line, which never fails.
ParseArgs ==
    LET r == client_parse_command_line(args)
    IN  /\ pc = "args"
        /\ conf' = r.conf
        /\ pc' = IF r.aborted THEN "aborted" ELSE "open"
        /\ UNCHANGED <<args, file>>

\* read_config: open_config_file; a missing file leaves the defaults, any
\* other failure makes main exit.
OpenConfig ==
    /\ pc = "open"
    /\ pc' = CASE file = Missing -> "done"
              [] file = Unreadable -> "failed"
              [] OTHER -> "section"
    /\ UNCHANGED <<args, file, conf>>

\* read_config: get_client_section, parse_client_section if there is one,
\* and close_config_file.
ClientSection ==
    LET sec == GetSection(file, ClientHdr)
    IN  /\ pc = "section"
        /\ IF sec.found
           THEN \E out \in ParseSection(sec.text) :
                   /\ conf' = ApplyClientLines(conf, out.pairs)
                   /\ pc' = IF out.aborted THEN "aborted" ELSE "done"
           ELSE pc' = "done" /\ UNCHANGED conf
        /\ UNCHANGED <<args, file>>

\* read_config has returned, or the process has died.
Finished ==
    /\ pc \in {"done", "failed", "aborted"}
    /\ UNCHANGED vars

Next == ParseArgs \/ OpenConfig \/ ClientSection \/ Finished

Spec == Init /\ [][Next]_vars /\ WF_vars(Next)

\* The client's tunables keep the C types they are stored in: the port is
\* an unsigned short.
TypeOK ==
    /\ pc \in {"args", "open", "section", "done", "failed", "aborted"}
    /\ DOMAIN conf = DOMAIN Defaults
    /\ conf.debug \in Nat
    /\ conf.server_timeout \in Nat
    /\ conf.multicast_port \in 0..(2^16 - 1)
=============================================================================
