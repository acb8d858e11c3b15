\* The force-down command may exit non-zero (system() returns a positive status).
CONSTANTS
    d1 = d1
    d2 = d2
    c1 = c1
    c2 = c2
    DeviceList <- MCDeviceList
    Client <- MCClient
    Retries = 1
    ClientTimeout = 2
    ConnectTimeout = 1
    DisconnectTimeout = 1
    Signals = FALSE
    UpResult = {"ok", "fail", "error"}
    DownResult = {"ok", "fail"}
    ForceResult = {"ok", "fail"}
SPECIFICATION Spec
SYMMETRY ClientSymmetry
INVARIANT
    InUseIffActive
