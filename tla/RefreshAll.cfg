SPECIFICATION FairSpec
CONSTANTS
    Full = {f1, f2}
    Nfa = {n1, n2}
    Handled = {f1, n1}
    Removable = {n1}
    MaxCalls = 1
    MaxWeb = 1
INVARIANTS BatchInv StartupIsComplete
PROPERTIES EndsUnlessDropped
