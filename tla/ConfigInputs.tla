----------------------------- MODULE ConfigInputs -----------------------------
(***************************************************************************)
(* Bounded inputs for the start-up models: configuration files built from  *)
(* a few lines per section, and short argument vectors.  The lines are     *)
(* chosen so that each branch of parse_line and of the option chains is    *)
(* taken: numbers, quoted strings, a number followed by letters, a value   *)
(* beyond 16 bits, a blank line, and a line with no separator.            *)
(***************************************************************************)
EXTENDS ConfigText

Option(name, width, value) == <<Word(name, width), SP, EQ, SP>> \o value \o <<NL>>
Quoted(s) == <<QT, Word(s, 1), QT>>

LBlank == <<NL>>
LBare  == <<Word("x", 1), NL>>

\* Lines of a [Server] section.
LPoll    == Option("poll_time", 9, <<Num(3, 1)>>)
LPort    == Option("srv_port", 8, <<Num(70000, 5)>>)
LRetries == Option("retries", 7, <<Num(2, 1), Word("x", 1)>>)

\* Lines of a [Device] section.
NameLine(n) == Option("name", 4, Quoted(n))
LLinkUp  == Option("link_up", 7, <<QT, Word("up", 2), QT>>)

\* Lines of a [Peer] section.
LDebug   == Option("debug", 5, <<Num(1, 1)>>)
LServPort == Option("serv_port", 9, <<Num(70000, 5)>>)
LServBad == Option("serv_port", 9, <<Num(2, 1), Word("x", 1)>>)
LAddr    == Option("serv_addr", 9, Quoted("h"))

\* Lines of a [Client] section.
LTimeout == Option("server_timeout", 14, <<Num(30, 2)>>)
LBadTime == Option("server_timeout", 14, <<Num(3, 1), Word("m", 1)>>)
LMPort   == Option("multicast_port", 14, <<Num(70000, 5)>>)
LGroup   == Option("multicast_group", 15, Quoted("g"))

Section(hdr, lines, max) ==
    {<<>>} \cup {<<hdr, NL>> \o FlattenSeq(ls) : ls \in SeqOf(lines, max)}

DeviceNames == <<"a", "b", "c">>

\* k [Device] sections named in order; before or after the name line, one
\* more line from extras (<<>> for none).
DeviceSections(extras, max) ==
    UNION { { FlattenSeq([i \in 1..k |->
                 <<Hdr("Device", 8), NL>> \o ex[i][1] \o NameLine(DeviceNames[i]) \o ex[i][2]]) :
              ex \in [1..k -> ({<<>>} \X extras) \cup (extras \X {<<>>})] } :
            k \in 0..max }

ServerConfigFiles(slines, smax, extras, dmax) ==
    {s \o d : s \in Section(Hdr("Server", 8), slines, smax), d \in DeviceSections(extras, dmax)}

\* A file with an optional short [Server] section before an optional
\* section of the given header.
SectionFiles(hdr, lines, max) ==
    {s \o p : s \in {<<>>, <<Hdr("Server", 8), NL>> \o LPoll}, p \in Section(hdr, lines, max)}

\* A device name of 386 bytes fits after "NOTIFY ISUP "; after "NOTIFY
\* ISDOWN " only its NUL falls outside the 400-byte array.
PeerWords == {Switch("-U"), Switch("-D"), Switch("-d"), Switch("-c"),
              Plain("d1", 0, 2), Plain("m", 0, 386)}
=============================================================================
