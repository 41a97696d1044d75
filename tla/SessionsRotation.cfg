CONSTANTS
    u1 = u1
    c1 = c1
    c2 = c2
    c3 = c3
    c4 = c4
    t1 = t1
    t2 = t2
    t3 = t3
    NoUser = NoUser
    NoToken = NoToken
    NoCall = NoCall
    Users <- MCUsers
    Calls <- MCFourCalls
    Tokens <- MCTokens
SPECIFICATION Spec
SYMMETRY FourCallSymmetry
INVARIANTS OneLiveTokenPerSession NoSessionOnStaleGrounds
PROPERTY KeepsTheLedger
