\* [Server] sections with blank lines between their option lines.
CONSTANTS
    Missing = Missing
    Unreadable = Unreadable
    Files <- FilesBlank
    Argvs <- ArgvsNone
SPECIFICATION Spec
INVARIANT ServerOptionsAsWritten
