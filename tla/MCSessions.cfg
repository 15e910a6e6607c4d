SPECIFICATION Spec
CONSTANTS
    Users = {alice}
    Sessions = {1, 2, 3}
    Requests = {r1, r2, r3}
SYMMETRY RequestSymmetry
INVARIANTS
    TypeOK
    RefreshTokenWorksOnce
    LogoutIsFinal
    EventsTellTheStory
    AccountHasOneOrigin
    StartLeavesAnAccount
