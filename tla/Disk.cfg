SPECIFICATION AllSpec
CONSTANTS
    Id = {v1, v2, v3}
    NoId = NoId
    Root = Root
    SVault = {s1, s2}
    NoVault = NoVault
    Key = {proxy, safe_mode, web_api_key, hotkey, userdata_source}
    Mirrored = {proxy}
    Immediate = {safe_mode}
    Hotkey = hotkey
    Imported = userdata_source
    Factory = Factory
    Legacy = Legacy
    Absent = Absent
    Sid = {"s"}
    NoSid = "0"
    Login = {"x", "y"}
    NoLogin = ""
    NoBundle = NoBundle
    LocalSid <- MCLocal
    UserGroup = {"g"}
    FirstVaults <- MCFirst
    Foreign <- MCForeign
    MaxIds = 3
    MaxSteps = 4
    SAcct = {p, q}
    NoSAcct = NoSAcct
    MaxSecrets = 1
    MaxRequests = 3
    MaxAtOnce = 2
    Default = default
    Custom = {usb1, usb2}
    Edits = {e1, e2, e3}
    None = None
    RestartAtOnce = TRUE
    ChecksTarget = TRUE
SYMMETRY Symmetry
INVARIANTS FilesInv OpenVaultStays NothingHidden SettingsInv MergeInv SdaInv SecretsKept FolderInv
PROPERTIES IdsStay RemovedIsKept
CHECK_DEADLOCK FALSE
