SPECIFICATION MailSpec
CONSTANTS
    cart = cart
    direct = direct
    game = game
    tool = tool
    g1 = g1
    g2 = g2
    t1 = t1
    Nobody = Nobody
    MaxRetries = 3
    Orders = {cart, direct}
    DirectOrders = {direct}
    LegacyOrders = {direct}
    UnpricedOrders = {}
    Payments = {p1, p2, p3}
    Keys = {g1, g2, t1}
    Products = {game, tool}
    KeyProduct <- MCKeyProduct
    Quantity <- MCTwoUnits
SYMMETRY MCSymmetry
CHECK_DEADLOCK FALSE
INVARIANTS
    MailTypeOK
    OneEmailPerPaidOrder
    SkippedOnlyWhenOverwritten
    MailedKeysAreTheOrders
    MessagesAreBounded
