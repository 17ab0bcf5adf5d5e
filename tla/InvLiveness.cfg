CONSTANTS
    None = None w1 = w1 w2 = w2 v1 = v1 v2 = v2 o1 = o1 o2 = o2 p1 = p1
    Workers = {w1, w2}
    Variants = {v1, v2}
    Orders = {o1, o2}
    Products = {p1}
    ProductOf <- OneProduct
    Prices = {1}
    Quantities = {1}
    Stocks = {0}
    OpeningStock = 1
    MaxStock = 2
    Traffic = {"checkout", "status"}
    Alone = {}
SPECIFICATION FairSpec
PROPERTIES EveryRequestEnds
