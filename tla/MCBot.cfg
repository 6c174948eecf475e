SPECIFICATION Spec
CONSTANTS
    Presses = {b1, b2}
    Kinds = {"start", "add", "inc", "dec", "remove", "clear", "checkout"}
    InitialQuantity = 2
    MaxQuantity = 3
    RowLimit = 2
    TokenLimit = 4
    Nobody = Nobody
SYMMETRY PressSymmetry
CHECK_DEADLOCK FALSE
INVARIANTS
    TypeOK
    AppliedAtMostOnce
    AnswersAreTrue
    SessionRecovers
    UnitsAreAccountedFor
PROPERTIES
    AnswersAreProgress
