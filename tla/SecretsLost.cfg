SPECIFICATION AttendedSpec
CONSTANTS
    Id = {v1}
    NoId = NoId
    Root = Root
    SVault = {s1, s2}
    NoVault = NoVault
    Key = {proxy, safe_mode, web_api_key, hotkey, userdata_source}
    Mirrored = {proxy}
    Immediate = {safe_mode}
    Hotkey = hotkey
    Imported = userdata_source
    Factory = Factory
    Legacy = Legacy
    Absent = Absent
    Sid = {"s"}
    NoSid = "0"
    Login = {"x", "y"}
    NoLogin = ""
    NoBundle = NoBundle
    LocalSid <- MCLocal
    UserGroup = {"g"}
    FirstVaults <- MCFirst
    Foreign <- MCForeign
    MaxIds = 3
    MaxSteps = 1
    SAcct = {p, q}
    NoSAcct = NoSAcct
    MaxSecrets = 1
    MaxRequests = 3
    MaxAtOnce = 2
    Default = default
    Custom = {usb1, usb2}
    Edits = {e1}
    None = None
    RestartAtOnce = TRUE
    ChecksTarget = TRUE
INVARIANT SecretsPersist
CHECK_DEADLOCK FALSE
