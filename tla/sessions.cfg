SPECIFICATION Spec
CONSTANTS
    Handlers = {h1, h2}
    Users = {a, b}
    Keys = {k1, k2}
    NoKey = NoKey
    Objs = {o1, o2, o3, o4}
    NoObj = NoObj
    MaxSessions = 3
    Size = 2
    SEARCH_DIST = 2
    SlotOf <- MCSlotOf
SYMMETRY Symmetry
INVARIANTS
    RefsExact
    SlotsTrue
    AnswersExact
