CONSTANTS
    Handlers = {h1, h2, h3}
    Capacity = 2
    MaxPush = 5
    Default = 0
SPECIFICATION Spec
SYMMETRY Symmetry
INVARIANTS
    TypeOK
    NoSleeperBesideItems
    ItemsInOrder
    KeepsTheNewest
    AnsweredExactlyOnce
    PopsAreCancelled
PROPERTY ImplementsLossyFifo
