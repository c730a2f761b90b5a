SPECIFICATION BothSpec
CONSTANTS
    a = a
    b = b
    r1 = r1
    r2 = r2
    shared = shared
    own = own
    Docs = {a, b}
    Contents = {1}
    Entities = {shared, own}
    Runs = {r1}
    Both = {r1, r2}
    MaxFaults = 2
    Allowed = {"graphOff", "noRows", "kill"}
    Says <- OneSaysMore
INVARIANT TypesOK
INVARIANT DeletedIsGone
INVARIANT NothingStripped
INVARIANT DeletedIsForgotten
INVARIANT RetrievableTogether
INVARIANT ReplacedEverywhere
INVARIANT RestartsAreSafe
PROPERTY TidyAlone
