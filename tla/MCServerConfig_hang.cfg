\* Files with a [Server] section and up to three [Device] sections.
CONSTANTS
    Missing = Missing
    Unreadable = Unreadable
    Files <- FilesHang
    Argvs <- ArgvsNone
SPECIFICATION Spec
INVARIANT DeviceSectionsOnce
