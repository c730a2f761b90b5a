SPECIFICATION EitherSpec
CONSTANTS
    a = a
    b = b
    r1 = r1
    Docs = {a, b}
    Runs = {r1}
    Leaves = {1, 2}
    Parents = {3}
    DocWindow = 1
    Window = 1
    Batch = 1
    MaxVersion = 2
    MaxFaults = 2
    Allowed = {}
    Target <- SameTarget
INVARIANT TypeOK
INVARIANT SkippedIsIndexed
INVARIANT SkippedIsCurrent
PROPERTY Converges
