SPECIFICATION Admins
CONSTANTS
    Workers = {w1, w2}
    Categories = {c1, c2}
    Products = {p1, p2}
    Variants = {v1, v2}
    Images = {i1, i2, i3, i4}
    MaxSlug = 2
    MaxPrice = 2
    Options = {o1, o2}
    Seeded = {2}
    Loads <- MCLoads
    Serial = {"product", "image"}
    None = None
    Gone = Gone
    MISSING = MISSING
SYMMETRY MCSymmetry
INVARIANTS CatalogTypeOK KeysHold OrderedKept SaleBelowBase OnePrimary
PROPERTIES PrimaryKept
