SPECIFICATION FairSpec
CONSTANTS
    Vaults = {home, work2}
    Edits = {e1, e2}
    None = None
    Blank = Blank
    SettledUnlock = TRUE
    PickAgain = FALSE
INVARIANTS SessionInv OnScreenIsSaved
PROPERTIES FlushIsDurable ForwardOnly SaverServes ExitEnds StoreSpec
