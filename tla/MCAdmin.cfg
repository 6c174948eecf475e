SPECIFICATION AdminSpec
CONSTANTS
    cart = cart
    direct = direct
    game = game
    Nobody = Nobody
    Orders = {cart, direct}
    DirectOrders = {direct}
    LegacyOrders = {}
    UnpricedOrders = {}
    MaxOverwritten = 2
    Payments = {p1, p2, p3}
    Keys = {k1, k2}
    Products = {game}
    KeyProduct <- MCKeyProduct
    Quantity <- MCQuantity
SYMMETRY MCSymmetry
INVARIANTS
    DeliveredKeysStay
    DamageIsContained
