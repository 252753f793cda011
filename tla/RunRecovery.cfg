SPECIFICATION Spec
CONSTANTS
    None = None
    build = build
    ship = ship
    review = review
    done = done
    Procs = {p1}
    Steps <- MCSteps
    Gates <- MCGates
    Terminals <- MCTerminals
    Initial = build
    Succ <- MCSucc
    Items <- MCItems
    MaxVisits <- MCMaxVisits
    MaxTotal = 5
    MaxRetries = 1
    MaxCrashes = 2
INVARIANTS
    CrashLoopsBounded
    RunIsRecoverable
PROPERTIES
    NothingSkipped
