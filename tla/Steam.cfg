SPECIFICATION AllSpec
CONSTANTS
    alice = alice
    bob = bob
    Player = {alice, bob}
    NoOne = NoOne
    NoPassword = {}
    MaxGen = 3
    MaxPress = 2
    Acct = {alice, bob}
    Nobody = Nobody
    MaxWrites = 1
    MaxRuns = 1
    GAcct = {alice, bob}
    NoAcct = NoAcct
    Unit = {u, v}
    Inv = Inv
    Item = {i}
    MaxClients = 2
    MaxPosts = 1
    AutoMark = TRUE
    MaxPresses = 2
    MaxSweeps = 2
SYMMETRY Symmetry
INVARIANTS LaunchInv ReadBackAfterReapply CleanerInv Cs2Inv ClaimIsRemembered SweepInv
CHECK_DEADLOCK FALSE
