SPECIFICATION AllSpec
CONSTANTS
    Id = {v1}
    NoId = NoId
    Root = Root
    SVault = {s1}
    NoVault = NoVault
    Key = {safe_mode, hotkey, userdata_source}
    Mirrored = {}
    Immediate = {safe_mode}
    Hotkey = hotkey
    Imported = userdata_source
    Factory = Factory
    Legacy = Legacy
    Absent = Absent
    Sid = {"s"}
    NoSid = "0"
    Login = {"x", "y"}
    NoLogin = ""
    NoBundle = NoBundle
    LocalSid <- MCLocal
    UserGroup = {"g"}
    FirstVaults <- MCFirst
    Foreign = {}
    MaxIds = 3
    MaxSteps = 6
    SAcct = {p, q}
    NoSAcct = NoSAcct
    MaxSecrets = 1
    MaxRequests = 3
    MaxAtOnce = 2
    Default = default
    Custom = {usb1}
    Edits = {e1}
    None = None
    RestartAtOnce = TRUE
    ChecksTarget = TRUE
INVARIANT PreviewIsExact
CHECK_DEADLOCK FALSE
