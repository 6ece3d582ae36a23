CONSTANTS
    i1 = i1  i2 = i2  s1 = s1
    Listings = {l1, l2}
    Photos = {i1, i2}
    ShopScents = {s1}
    Bags = {b}
    Tabs = {t1, t2}
    Edits <- AFewEdits
    None = None
SPECIFICATION Spec
SYMMETRY Alike
INVARIANTS SoldIsListed
PROPERTY ArchivedForGood
CHECK_DEADLOCK FALSE
