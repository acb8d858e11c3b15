\* link_down and force-down may fail to run (-1); timeout_old_clients must then keep the client.
\* link_up errors only abort a connect before any edge exists, so link_up succeeds here.
CONSTANTS
    d1 = d1
    d2 = d2
    c1 = c1
    c2 = c2
    DeviceList <- MCDeviceList
    Client <- MCClient
    Retries = 1
    ClientTimeout = 1
    ConnectTimeout = 1
    DisconnectTimeout = 1
    Signals = FALSE
    UpResult = {"ok"}
    DownResult = {"ok", "error"}
    ForceResult = {"ok", "error"}
SPECIFICATION Spec
SYMMETRY ClientSymmetry
VIEW ServerView
INVARIANT NoDanglingClient
