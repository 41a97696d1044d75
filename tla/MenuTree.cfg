CONSTANTS
    m1 = m1
    m2 = m2
    m3 = m3
    c1 = c1
    c2 = c2
    Root = Root
    Menus <- MCMenus
    Calls <- MCCalls
SPECIFICATION FairSpec
INVARIANT TreeUnlessRaced
PROPERTIES LoneDeleteTakesOne WalksEnd
CHECK_DEADLOCK FALSE
