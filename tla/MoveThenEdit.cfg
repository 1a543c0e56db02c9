SPECIFICATION Spec
CONSTANTS
    Default = default
    Custom = {usb1, usb2}
    Edits = {e1, e2}
    None = None
    RestartAtOnce = FALSE
    ChecksTarget = TRUE
PROPERTY RemovedIsKept
