SPECIFICATION Spec
CONSTANTS
    Handler = {h1, h2}
    Main = main
    Name <- TwoNames
    Password <- TwoPasswords
    GivenRole = {"ADMIN", "OPERATOR"}
    Expiry = 0
    MaxTime = 1
    MaxTokens = 4
    MaxChanges = 2
    MaxCrashes = 1
    MaxFaults = 1
CHECK_DEADLOCK FALSE
SYMMETRY Symmetry
INVARIANTS AcknowledgedKept AdminRemains TokenHonoured
