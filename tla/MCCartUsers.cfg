SPECIFICATION FairSpec
CONSTANTS
    Users = {ann, bob}
    Products = {game, tool}
    Requests = {r1, r2}
    RequestKinds = {"checkout"}
    InitialRows = 4
    RowLimit = 4
    MaxQuantity = 1
    Prices = {10}
    Nobody = Nobody
CHECK_DEADLOCK FALSE
PROPERTIES
    RequestsEnd
