\* A cart sent to a payment link, webhook deliveries and the worker.
CONSTANTS
    Carts = {c1}
    Orders = {}
    Public = {}
    Total = 1
    MaxTC = 0
    Paired = FALSE
    Handlers = {s1, w1, x1}
    Staff = {s1}
    Shoppers = {}
    Hooks = {w1}
    Sweepers = {x1}
    NoOrder = NoOrder
    NoEvent = NoEvent
SPECIFICATION FairSpec
PROPERTIES  PendingLinkEnds
\* Every cart may be settled or canceled and every handler idle.
CHECK_DEADLOCK FALSE
