----------------------------- MODULE ServerConfig -----------------------------
(***************************************************************************)
(* The server's start-up: parse_command_line, then read_config, which      *)
(* parses the [Server] section into the tunables and each [Device] section *)
(* into an entry of g_devices (server/read_config.c).                      *)
(*                                                                         *)
(* The file and the arguments are chosen in Init; each step is one call of *)
(* main or one pass of read_config's device loop.                         *)
(***************************************************************************)
EXTENDS ConfigText

CONSTANTS
    Files,      \* the configuration files to try; Missing means none exists
    Argvs,      \* argument vectors (without argv[0])
    Missing,    \* a file that does not exist
    Unreadable  \* a file that exists but cannot be opened or mapped

ServerHdr == Hdr("Server", 8)
DeviceHdr == Hdr("Device", 8)

\* Text the program sets itself: a default string, and a NULL pointer.
DefaultText == <<Token("default", "", 0, 0)>>
NullText == <<Token("null", "", 0, 0)>>

IntOption == {"fork", "debug", "poll_time", "client_timeout", "retries",
              "connect_timeout", "disconnect_timeout"}
DeviceField == {"name", "description", "link_up", "link_down", "link_force_down"}

\* The initialisers of the server variables (server.h defaults).
Defaults ==
    [fork |-> 1, debug |-> 0, poll_time |-> 5, config_file |-> DefaultText,
     srv_inaddr |-> NullText, srv_port |-> 9876, multicast_group |-> DefaultText,
     multicast_port |-> 6789, client_timeout |-> 2400, retries |-> 2, connect_timeout |-> 60,
     disconnect_timeout |-> 60]

VARIABLES
    args,       \* argv
    file,       \* the configuration file's text, or Missing
    pc,         \* "args", "open", "server", "devices", "done", "failed",
                \*   "aborted"
    conf,       \* the server variables
    g_devices,  \* the device list, in order
    cur_pos,    \* get_next_device_section's static offset
    visited,    \* history: offsets of the [Device] sections returned
    repeated    \* history: a section was returned a second time

vars == <<args, file, pc, conf, g_devices, cur_pos, visited, repeated>>

(***************************************************************************)
(* parse_command_line.  "-c" and "-p" take argv[++i] even when i was the   *)
(* last index, so they read argv[argc], which is NULL: strdup and atoi     *)
(* then crash.  "-p" falls through to the "Unrecognised switch" message.   *)
(***************************************************************************)
RECURSIVE ArgsFrom(_, _, _)
ArgsFrom(argv, i, c) ==
    IF i > Len(argv) THEN [conf |-> c, aborted |-> FALSE]
    ELSE CASE argv[i].s = "-f" -> ArgsFrom(argv, i + 1, [c EXCEPT !.fork = 0])
           [] argv[i].s = "-d" -> ArgsFrom(argv, i + 1, [c EXCEPT !.debug = 1])
           [] argv[i].s \in {"-c", "-p"} /\ i = Len(argv) ->
                [conf |-> c, aborted |-> TRUE]
           [] argv[i].s = "-c" ->
                ArgsFrom(argv, i + 2, [c EXCEPT !.config_file = <<Word(argv[i + 1].s, 1)>>])
           [] argv[i].s = "-p" ->
                ArgsFrom(argv, i + 2, [c EXCEPT !.poll_time = argv[i + 1].n])
           [] OTHER -> ArgsFrom(argv, i + 1, c)

parse_command_line(argv) == ArgsFrom(argv, 1, Defaults)

(***************************************************************************)
(* One line of parse_server_section: the option it names is set if the     *)
(* value is a number (multicast_group takes any value).  srv_port is an    *)
(* unsigned short.                                                         *)
(***************************************************************************)
ApplyServerOption(c, name, value) ==
    LET o == OptionName(name)
    IN  CASE o \in IntOption /\ number_valid(value) ->
               [c EXCEPT ![o] = numeric_value(value)]
          [] o = "srv_port" /\ number_valid(value) ->
               [c EXCEPT !.srv_port = numeric_value(value) % 2^16]
          [] o = "srv_inaddr" /\ number_valid(value) -> [c EXCEPT !.srv_inaddr = value]
          [] o = "multicast_group" -> [c EXCEPT !.multicast_group = value]
          [] OTHER -> c

\* The option chain run on each accepted line of the section in turn.
RECURSIVE ApplyServerLines(_, _)
ApplyServerLines(c, pairs) ==
    IF pairs = <<>> THEN c
    ELSE ApplyServerLines(ApplyServerOption(c, Head(pairs)[1], Head(pairs)[2]), Tail(pairs))

(***************************************************************************)
(* get_next_device_section.  cur_pos is a static byte offset into the     *)
(* file; the search starts there.  When another '[' follows, cur_pos is    *)
(* set to (end - start) + 1, the section's length plus one, not an offset  *)
(* from the start of the file.  After the last section it is -1, and the   *)
(* next call resets it to 0 and returns NULL.                             *)
(***************************************************************************)
get_next_device_section(f, pos) ==
    LET starts == {i \in 1..Len(f) : f[i] = DeviceHdr /\ Offset(f, i) >= pos}
        from   == IF starts = {} THEN 0 ELSE Min(starts)
        end    == SelectInSubSeq(f, from + 1, Len(f), IsBracket)
    IN  CASE pos = -1 \/ from = 0 -> [found |-> FALSE, cur |-> 0]
          [] end = 0 -> [found |-> TRUE, start |-> Offset(f, from), cur |-> -1,
                         text |-> SubSeq(f, from, Len(f))]
          [] OTHER -> [found |-> TRUE, start |-> Offset(f, from),
                       cur |-> Offset(f, end) - Offset(f, from) + 1,
                       text |-> SubSeq(f, from, end - 1)]

(***************************************************************************)
(* parse_device_section.  new_device is zeroed, each line sets the field   *)
(* it names, and every pass frees name and value, whether parse_line       *)
(* assigned them or not.  A pointer it did not assign was freed on the     *)
(* pass before (a double free, which glibc aborts on) or, on the first     *)
(* pass, is uninitialised (an abort, or a no-op if it happens to be NULL). *)
(* Reading an unassigned name with strcasecmp comes first and crashes.     *)
(* The result is the set of [dev, aborted] the section can end in.         *)
(***************************************************************************)
DeviceStep(s, line) ==
    LET r == parse_line(line)
        o == OptionName(r.name)
        t == [s EXCEPT !.first = FALSE]
    IN  CASE s.aborted -> {s}
          [] r.rc = 0 /\ r.name # Unset ->
               {IF o \in DeviceField THEN [t EXCEPT !.dev[o] = r.value] ELSE t}
          [] r.rc = -1 /\ s.first -> {t, [t EXCEPT !.aborted = TRUE]}
          [] OTHER -> {[t EXCEPT !.aborted = TRUE]}

parse_device_section(sec) ==
    LET ls == SectionLines(sec)
        out[j \in 0..Len(ls)] ==
            IF j = 0 THEN {[dev |-> [d \in DeviceField |-> NullText], first |-> TRUE,
                            aborted |-> FALSE]}
            ELSE UNION {DeviceStep(s, ls[j]) : s \in out[j - 1]}
    IN  {[dev |-> s.dev, aborted |-> s.aborted] : s \in out[Len(ls)]}

\* Mutant: the device_name != NULL test of parse_device_section dropped.
add_device_unnamed(list, dev) ==
    IF \E i \in 1..Len(list) : list[i].name = dev.name
    THEN list ELSE Append(list, dev)

\* add_device: appended unless a device of that name is there (EALREADY,
\* which parse_device_section ignores).  Unnamed devices are not added.
add_device(list, dev) ==
    IF dev.name = NullText \/ \E i \in 1..Len(list) : list[i].name = dev.name
    THEN list ELSE Append(list, dev)

-----------------------------------------------------------------------------
Init ==
    /\ args \in Argvs
    /\ file \in Files
    /\ pc = "args"
    /\ conf = Defaults
    /\ g_devices = <<>>
    /\ cur_pos = 0
    /\ visited = {}
    /\ repeated = FALSE

\* main: parse_command_line.
ParseArgs ==
    LET r == parse_command_line(args)
    IN  /\ pc = "args"
        /\ conf' = r.conf
        /\ pc' = IF r.aborted THEN "aborted" ELSE "open"
        /\ UNCHANGED <<args, file, g_devices, cur_pos, visited, repeated>>

\* read_config: open_config_file; a missing file leaves the defaults, and
\* any other failure makes main exit.
OpenConfig ==
    /\ pc = "open"
    /\ pc' = CASE file = Missing -> "done"
              [] file = Unreadable -> "failed"
              [] OTHER -> "server"
    /\ UNCHANGED <<args, file, conf, g_devices, cur_pos, visited, repeated>>

\* read_config: get_server_section, then parse_server_section if found.
ServerSection ==
    LET sec == GetSection(file, ServerHdr)
    IN  /\ pc = "server"
        /\ IF sec.found
           THEN \E out \in ParseSection(sec.text) :
                   /\ conf' = ApplyServerLines(conf, out.pairs)
                   /\ pc' = IF out.aborted THEN "aborted" ELSE "devices"
           ELSE pc' = "devices" /\ UNCHANGED conf
        /\ UNCHANGED <<args, file, g_devices, cur_pos, visited, repeated>>

\* read_config: one pass of the device loop.
DeviceSection ==
    LET r == get_next_device_section(file, cur_pos)
    IN  /\ pc = "devices"
        /\ r.found
        /\ \E out \in parse_device_section(r.text) :
              /\ g_devices' = IF out.aborted THEN g_devices ELSE add_device(g_devices, out.dev)
              /\ pc' = IF out.aborted THEN "aborted" ELSE "devices"
        /\ cur_pos' = r.cur
        /\ visited' = visited \cup {r.start}
        /\ repeated' = (repeated \/ r.start \in visited)
        /\ UNCHANGED <<args, file, conf>>

\* read_config: the device loop ends; close_config_file.
DevicesDone ==
    LET r == get_next_device_section(file, cur_pos)
    IN  /\ pc = "devices"
        /\ ~r.found
        /\ cur_pos' = r.cur
        /\ pc' = "done"
        /\ UNCHANGED <<args, file, conf, g_devices, visited, repeated>>

\* read_config has returned, or the process has died.
Finished ==
    /\ pc \in {"done", "failed", "aborted"}
    /\ UNCHANGED vars

Next ==
    \/ ParseArgs \/ OpenConfig \/ ServerSection
    \/ DeviceSection \/ DevicesDone \/ Finished

Spec == Init /\ [][Next]_vars /\ WF_vars(Next)

-----------------------------------------------------------------------------
(***************************************************************************)
(* Reference: the file as the format comment at the top of read_config.c   *)
(* describes it.  A section runs from its header to the next header; its   *)
(* lines are "name = value" with a number or a quoted string.              *)
(***************************************************************************)
DocSections(f, hdr) ==
    { SubSeq(f, i, LET n == SelectInSubSeq(f, i + 1, Len(f), LAMBDA t : t.k = "hdr")
                   IN  IF n = 0 THEN Len(f) ELSE n - 1) :
        i \in {j \in 1..Len(f) : f[j] = hdr} }

DocOptions(f, hdr) ==
    UNION { {DocOption(l) : l \in ToSet(DocLines(sec))} : sec \in DocSections(f, hdr) }

\* The options the comment and the code agree on, and what a value means.
Accepts(o, v) ==
    /\ o \in (IntOption \cup {"srv_port", "multicast_group"})
    /\ o # "multicast_group" => Len(v) = 1 /\ v[1].k = "num"

Converted(o, v) ==
    CASE o \in IntOption -> v[1].n
      [] o = "srv_port" -> v[1].n % 2^16
      [] OTHER -> v

\* The tunables as the command line and then the file set them.
ArgConf == parse_command_line(args).conf

RefConf ==
    LET Set(c, d) == IF Accepts(d.o, d.value) THEN [c EXCEPT ![d.o] = Converted(d.o, d.value)]
                     ELSE c
        ls == IF file \in {Missing, Unreadable} \/ DocSections(file, ServerHdr) = {} THEN <<>>
              ELSE DocLines(CHOOSE sec \in DocSections(file, ServerHdr) : TRUE)
        ref[j \in 0..Len(ls)] == IF j = 0 THEN ArgConf ELSE Set(ref[j - 1], DocOption(ls[j]))
    IN  ref[Len(ls)]

DeviceStarts ==
    IF file \in {Missing, Unreadable} THEN {}
    ELSE {Offset(file, i) : i \in {j \in 1..Len(file) : file[j] = DeviceHdr}}

DocDeviceNames ==
    IF file \in {Missing, Unreadable} THEN {}
    ELSE {d.value : d \in {d \in DocOptions(file, DeviceHdr) : d.o = "name"}}

-----------------------------------------------------------------------------
TypeOK ==
    /\ pc \in {"args", "open", "server", "devices", "done", "failed", "aborted"}
    /\ DOMAIN conf = DOMAIN Defaults
    /\ \A o \in IntOption : conf[o] \in Nat
    /\ conf.srv_port \in 0..(2^16 - 1)
    /\ \A i \in 1..Len(g_devices) : DOMAIN g_devices[i] = DeviceField
    /\ cur_pos \in Int
    /\ visited \subseteq Nat
    /\ repeated \in BOOLEAN

(***************************************************************************)
(* When read_config returns, each tunable holds the value of the last     *)
(* line of the [Server] section that sets it, or else the command line's   *)
(* value: blank lines do not matter (parse_server_section's line loop).    *)
(***************************************************************************)
ServerOptionsAsWritten == pc = "done" => conf = RefConf

(***************************************************************************)
(* get_next_device_section returns each [Device] section of the file once, *)
(* and read_config does not return before it has returned all of them.    *)
(***************************************************************************)
DeviceSectionsOnce ==
    /\ ~repeated
    /\ pc = "done" => visited = DeviceStarts

(***************************************************************************)
(* Every device in g_devices was named by a "name" line of a [Device]     *)
(* section (parse_device_section and add_device): no unnamed or garbled    *)
(* entry is added.                                                         *)
(***************************************************************************)
DeviceNamesFromFile ==
    \A i \in 1..Len(g_devices) : g_devices[i].name \in DocDeviceNames
=============================================================================
