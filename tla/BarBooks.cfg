CONSTANTS
    Customers = {c1, c2}
    Blends = {m1}
    Orders = {o1, o2}
    Carts = {k1}
    Emails = {e1, e2}
    Keys = {y1, y2}
    Desks = {d1, d2}
    House = House
    None = None
SPECIFICATION Spec
SYMMETRY Alike
INVARIANTS BlendIsTheirs RecordedOnce
PROPERTY PaidIsKept
CHECK_DEADLOCK FALSE
