\* Two submitters and one scheduling loop on a ring of four cells, three of
\* them usable: five items wrap around, fill the ring, and let the second of
\* two reserved cells be stored first.
SPECIFICATION OrderedSpec
CONSTANTS
    Producers = {p1, p2}
    Consumers = {c1}
    Items = {1, 2, 3, 4, 5}
    NoItem = NoItem
    Capacity = 4
INVARIANTS
    TypeOK
    DeliveredInOrder
    NothingLost
    RingInv
PROPERTIES
    StoresIntoClearedCell
    ImplementsFIFO
    DequeueReturns
    AcceptedIsDelivered
