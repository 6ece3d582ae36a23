CONSTANTS
    g1 = g1  g2 = g2  s1 = s1
    Ingredients = {g1, g2}
    Scents = {s1}
    Packages = {p1}
    Sales = {x1}
    Sizes = {"oz3_4", "roller"}
    Desks = {d1, d2}
    Formulas <- SomeFormulas
    ScentEdits <- SomeScentEdits
    Deals <- SomeDeals
    Nothing = Nothing
    Same = Same
SPECIFICATION CatalogueSpec
SYMMETRY Alike
INVARIANTS HistoryIsReadable PackagesAddUp
CHECK_DEADLOCK FALSE
