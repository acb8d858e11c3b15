\* Commands exit 0 or non-zero but always run; the reactor and the clock are fair;
\* SIGTERM may arrive at any point.
CONSTANTS
    d1 = d1
    d2 = d2
    c1 = c1
    c2 = c2
    DeviceList <- MCDeviceList
    Client <- MCClient
    Retries = 1
    ClientTimeout = 1
    ConnectTimeout = 1
    DisconnectTimeout = 1
    Signals = TRUE
    UpResult = {"ok", "fail"}
    DownResult = {"ok", "fail"}
    ForceResult = {"ok"}
SPECIFICATION LiveSpec
PROPERTIES
    ConnectingResolves
    DisconnectingResolves
