SPECIFICATION EditedSpec
CONSTANTS
    a = a
    b = b
    c = c
    r1 = r1
    r2 = r2
    Docs = {a, b, c}
    Runs = {r1, r2}
    Leaves = {1}
    Parents = {2}
    DocWindow = 2
    Window = 1
    Batch = 1
    MaxVersion = 2
    MaxFaults = 0
    Allowed = {}
    Target <- OverlapTarget
INVARIANT RestartIsSafe
