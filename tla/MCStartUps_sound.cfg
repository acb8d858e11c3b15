\* The start-up of the server, the peer and the display client over the
\* files and argument vectors of MCStartUps.
CONSTANTS
    Missing = Missing
    Unreadable = Unreadable
    ServerFiles <- ServerFilesAll
    ServerArgvs <- ServerArgvsAll
    PeerFiles <- PeerFilesAll
    PeerArgvs <- PeerArgvsAll
    ClientFiles <- ClientFilesAll
    ClientArgvs <- ClientArgvsAll
SPECIFICATION Spec
INVARIANTS
    DeviceNamesFromFile
    NotifyAsAsked
