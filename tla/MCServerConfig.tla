---------------------------- MODULE MCServerConfig ----------------------------
(***************************************************************************)
(* ServerConfig over the files of its two violation runs.                 *)
(***************************************************************************)
EXTENDS ServerConfig, ConfigInputs

\* A [Server] section of one line before up to three [Device] sections.
FilesHang == {s \o d : s \in Section(ServerHdr, {LPoll}, 1) \ {<<>>},
                       d \in DeviceSections({<<>>}, 3)}
\* [Server] sections of up to two lines, some of them blank.
FilesBlank == ServerConfigFiles({LPoll, LBlank}, 2, {<<>>}, 0)

ArgvsNone == {<<>>}
=============================================================================
