\* Staff and webhooks at once on one cart, by link or by up to two Terminal checkouts.
CONSTANTS
    Carts = {c1}
    Orders = {o1}
    Public = {}
    Total = 1
    MaxTC = 2
    Paired = TRUE
    Handlers = {s1, w1}
    Staff = {s1}
    Shoppers = {}
    Hooks = {w1}
    Sweepers = {}
    NoOrder = NoOrder
    NoEvent = NoEvent
SPECIFICATION Spec
INVARIANTS TypeOK SettledHasMoney UnmatchedIsForeign  PaidCartSoldItsBlends
\* Every cart may be settled or canceled and every handler idle.
CHECK_DEADLOCK FALSE
