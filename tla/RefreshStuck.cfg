SPECIFICATION FairSpec
CONSTANTS
    Full = {f1, f2}
    Nfa = {}
    Handled = {f1}
    Removable = {f1}
    MaxCalls = 1
    MaxWeb = 1
PROPERTY NoStaleDenominator
