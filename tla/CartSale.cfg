\* Staff, a shopper and the worker at once; two carts compete for one order.
CONSTANTS
    Carts = {c1, c2}
    Orders = {o1}
    Public = {o1}
    Total = 1
    MaxTC = 0
    Paired = FALSE
    Handlers = {s1, x1, b1}
    Staff = {s1}
    Shoppers = {b1}
    Hooks = {}
    Sweepers = {x1}
    NoOrder = NoOrder
    NoEvent = NoEvent
SPECIFICATION Spec
SYMMETRY Symmetry
INVARIANTS SoldHasMoney  
PROPERTIES FulfilledIsFinal ImplementsBlendClaims
\* Every cart may be settled or canceled and every handler idle.
CHECK_DEADLOCK FALSE
