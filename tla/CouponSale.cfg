CONSTANTS
    ann = ann  ben = ben
    x = x  y = y
    won1 = won1  won2 = won2
    k1 = k1  k2 = k2  k3 = k3
    None = None
    Customers = {ann, ben}
    Codes = {x, y}
    Coupons = {won1, won2}
    Carts = {k1, k2, k3}
    BagCarts = {k3}
    Programs <- Settings
SPECIFICATION SecondSale
PROPERTIES ImplementsCouponBook HoldsEnd
INVARIANTS RewardedOnce HeldByItsCart
CHECK_DEADLOCK FALSE
