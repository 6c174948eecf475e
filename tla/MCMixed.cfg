SPECIFICATION SagaSafety
CONSTANTS
    mine = mine
    yours = yours
    game = game
    Nobody = Nobody
    Orders = {mine, yours}
    DirectOrders = {mine}
    LegacyOrders = {mine}
    UnpricedOrders = {}
    Payments = {p1, p2}
    Keys = {g1}
    Products = {game}
    KeyProduct <- MCKeyProduct
    Quantity <- MCQuantity
    Requests = {r1, r2, r3, r4}
    RequestKinds = {"create", "pay"}
    Providers = {"local", "stripe"}
    Confirmations = {"SUCCEEDED", "FAILED", "PENDING"}
    CallFailures = {"refused", "lost"}
SYMMETRY MCSymmetry
CHECK_DEADLOCK FALSE
INVARIANTS
    ConfirmedIsFulfillable
    GoodsArePaidFor
