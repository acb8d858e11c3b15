------------------------------ MODULE MCStartUps ------------------------------
(***************************************************************************)
(* The inputs of the start-up run.                                        *)
(*  - The server: [Server] sections of up to two lines (a number, a port    *)
(*    beyond 16 bits, a number followed by letters, a blank line) before up *)
(*    to three [Device] sections with an extra line each, and argument      *)
(*    vectors that end in -c or -p.                                        *)
(*  - The peer: [Peer] sections of up to two lines and every argument       *)
(*    vector of up to three words, device names up to 386 bytes included.   *)
(*  - The client: [Client] sections of up to two lines and every argument   *)
(*    vector of up to three words.                                          *)
(***************************************************************************)
EXTENDS StartUps, ConfigInputs

ServerFilesAll ==
    ServerConfigFiles({LPoll, LPort, LRetries, LBlank}, 2, {<<>>, LLinkUp, LBlank}, 3)
        \cup {Missing, Unreadable}
ServerArgvsAll ==
    {<<>>, <<Switch("-f")>>, <<Switch("-p"), Plain("7", 7, 1)>>,
     <<Switch("-d"), Switch("-c")>>, <<Switch("-c"), Plain("f", 0, 1), Switch("-p")>>}

PeerFilesAll ==
    SectionFiles(Hdr("Peer", 6), {LDebug, LServPort, LServBad, LAddr, LBlank, LBare}, 2)
        \cup {Missing, Unreadable}
PeerArgvsAll == SeqOf(PeerWords, 3)

ClientFilesAll ==
    SectionFiles(Hdr("Client", 8), {LTimeout, LBadTime, LMPort, LGroup, LBlank, LBare}, 2)
        \cup {Missing, Unreadable}
ClientArgvsAll == SeqOf({Switch("-d"), Switch("-c"), Switch("-z"), Plain("f", 0, 1)}, 3)
=============================================================================
