\* Two submitters and the scheduling loop on a ring with three usable cells.
SPECIFICATION Spec
CONSTANTS
    Producers = {p1, p2}
    Consumers = {c1}
    Items = {x1, x2, x3}
    NoItem = NoItem
    Capacity = 4
INVARIANTS
    RefusedOnlyWhenFull
