SPECIFICATION MigrationSpec
CONSTANTS
    direct = direct
    bundle = bundle
    blank = blank
    late = late
    game = game
    extra = extra
    g1 = g1
    g2 = g2
    e1 = e1
    Nobody = Nobody
    Orders = {direct, bundle, blank, late}
    DirectOrders = {direct, bundle, blank, late}
    LegacyOrders = {blank}
    UnpricedOrders = {}
    HistoricOrders = {direct, bundle, blank}
    Payments = {p1, p2}
    HistoricPayments = {p1}
    HistoricKeys = {g1, g2}
    OrderProduct <- MCOrderProduct
    Untitled = {blank}
    Amounts <- MCAmounts
    Prices <- MCPrices
    OldBooks <- MCOldBooks
    OldCharges = {10}
    Keys = {g1, g2, e1}
    Products = {game, extra}
    KeyProduct <- MCKeyProduct
    Quantity <- MCQuantity
SYMMETRY MCSymmetry
CHECK_DEADLOCK FALSE
INVARIANTS
    TypeOK
    ReservationMatchesAuthority
    UnsoldOrdersConsistent
    MigratedOrdersDelivered
PROPERTIES
    HistoricalAttemptsHarmless
    ReleaseEndsTheAttempt
    BackfillIsStable
