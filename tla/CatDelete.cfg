SPECIFICATION Admins
CONSTANTS
    Workers = {w1, w2}
    Categories = {c1, c2}
    Products = {p1, p2}
    Variants = {v1, v2}
    Images = {i1, i2}
    MaxSlug = 2
    MaxPrice = 2
    Options = {o1, o2}
    Seeded = {2}
    Loads <- MCShelf
    Serial = {"product", "image"}
    None = None
    Gone = Gone
    MISSING = MISSING
SYMMETRY MCSymmetry
PROPERTIES UnsoldIsDeleted
