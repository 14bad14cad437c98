CONSTANT Max = 11
SPECIFICATION Spec
INVARIANTS
    TypeOK
    FrontNeverOverclaims
    NothingForgotten
    CatchesUp
PROPERTY FrontNeverRegresses
