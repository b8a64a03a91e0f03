CONSTANTS
    me = me
    c1 = c1
    c2 = c2
    own = own
    n1 = n1
    n2 = n2
    me12 = me12
    ab = ab
    Ids <- MCIds
    Names <- MCNames
    Short <- MCShort
    Self = me
    SelfName = own
    SelfId12 = me12
    AutoRemove <- MCAutoRemove
    AllowLists <- MCAllowLists
    RemoveLists <- MCRemoveLists
    LookupMayFail = FALSE
    Asked <- MCAsked
    MaxCalls = 2
    MaxChanges = 2
SPECIFICATION MCSpec
INVARIANT SelfIsLeftAlone
CHECK_DEADLOCK FALSE
