SPECIFICATION Spec
CONSTANTS
    Users = {ann}
    Products = {game, tool}
    Requests = {r1, r2, r3}
    RequestKinds = {"view", "add", "set", "remove", "clear", "checkout"}
    InitialRows = 1
    RowLimit = 3
    MaxQuantity = 2
    Prices = {10, 12}
    Nobody = Nobody
CHECK_DEADLOCK FALSE
SYMMETRY CartSymmetry
INVARIANTS
    TypeOK
    OneRowPerProduct
PROPERTIES
    CheckoutTakesTheCart
    AddsAreNotLost
    ImplementsAtomicCart
