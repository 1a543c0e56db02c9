SPECIFICATION Spec
CONSTANTS
    Vaults = {home, work2}
    Edits = {e1}
    None = None
    Blank = Blank
    SettledUnlock = TRUE
    PickAgain = TRUE
INVARIANT OwnVaultOnly
