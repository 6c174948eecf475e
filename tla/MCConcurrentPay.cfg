SPECIFICATION SagaSafety
CONSTANTS
    mine = mine
    yours = yours
    game = game
    Nobody = Nobody
    Orders = {mine}
    DirectOrders = {mine}
    LegacyOrders = {}
    UnpricedOrders = {}
    Payments = {p1, p2}
    Keys = {g1}
    Products = {game}
    KeyProduct <- MCKeyProduct
    Quantity <- MCQuantity
    Requests = {r1, r2}
    RequestKinds = {"create", "pay"}
    Providers = {"stripe"}
    Confirmations = {}
    CallFailures = {"refused"}
SYMMETRY MCSymmetry
CHECK_DEADLOCK FALSE
INVARIANTS
    ChargeableIsReserved
