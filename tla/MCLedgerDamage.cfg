SPECIFICATION DamageSpec
CONSTANTS
    w1 = w1
    w2 = w2
    e1 = e1
    e2 = e2
    e3 = e3
    Writer <- Writers
    Event <- Events
    History <- Histories
    NoHash = NoHash
    Nobody = Nobody
SYMMETRY Symmetry
INVARIANTS
    LossNeverBlessed
PROPERTIES
    TailLossStopsAppends
