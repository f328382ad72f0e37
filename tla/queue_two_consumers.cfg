\* A second consumer, as the consumers of queue_test.go:205 and :280.
SPECIFICATION Spec
CONSTANTS
    Producers = {p1}
    Consumers = {c1, c2}
    Items = {x1, x2, x3}
    NoItem = NoItem
    Capacity = 2
INVARIANTS
    NothingLost
