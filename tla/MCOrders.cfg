SPECIFICATION Spec
CONSTANTS
    Users = {alice, bob}
    Admin = admin
    Keys = {key}
    NoKey = NoKey
    Amounts = {100}
    Orders = {1, 2}
    Requests = {r1, r2, r3}
SYMMETRY RequestSymmetry
INVARIANTS
    TypeOK
    KeyNamesOneOrder
    AnswersStand
PROPERTIES
    ImplementsLedger
