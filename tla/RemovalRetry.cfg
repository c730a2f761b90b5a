SPECIFICATION BothSpec
CONSTANTS
    a = a
    r1 = r1
    shared = shared
    own = own
    Docs = {a}
    Contents = {1}
    Entities = {shared, own}
    Runs = {r1}
    Both = {r1}
    MaxFaults = 1
    Allowed = {}
    Says <- OneSaysMore
INVARIANT CompleteIsGone
