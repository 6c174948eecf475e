SPECIFICATION SagaSpec
CONSTANTS
    mine = mine
    yours = yours
    game = game
    Nobody = Nobody
    Orders = {mine, yours}
    DirectOrders = {mine}
    LegacyOrders = {}
    UnpricedOrders = {}
    Payments = {p1, p2, p3}
    Keys = {g1}
    Products = {game}
    KeyProduct <- MCKeyProduct
    Quantity <- MCQuantity
    Requests = {r1, r2, r3}
    RequestKinds = {"create"}
    Providers = {"stripe"}
    Confirmations = {}
    CallFailures = {"refused"}
CHECK_DEADLOCK FALSE
INVARIANTS
    SagaTypeOK
    ChargeableIsReserved
    ChargedOnce
    AcknowledgedMeansApplied
    OneSettlement
    ReservationConsistent
PROPERTIES
    ReleasedOnlyWhenClosed
    ImplementsAllocation
    ChargedOrdersArePaid
    LinkedAttemptsEnd
