SPECIFICATION SagaSpec
CONSTANTS
    mine = mine
    yours = yours
    game = game
    Nobody = Nobody
    Orders = {mine}
    DirectOrders = {mine}
    LegacyOrders = {}
    UnpricedOrders = {}
    Payments = {p1, p2}
    Keys = {g1}
    Products = {game}
    KeyProduct <- MCKeyProduct
    Quantity <- MCQuantity
    Requests = {r1, r2, r3}
    RequestKinds = {"create", "pay"}
    Providers = {"stripe"}
    Confirmations = {}
    CallFailures = {"refused"}
CHECK_DEADLOCK FALSE
PROPERTIES
    HistoricalChargeIsRecorded
