SPECIFICATION ReadersSpec
CONSTANTS
    w1 = w1
    w2 = w2
    e1 = e1
    e2 = e2
    Writer <- MCWriter
    Event <- MCEvent
    History <- MCHistory
    NoHash = NoHash
    Nobody = Nobody
SYMMETRY Symmetry
INVARIANTS
    AllSegmentsIsFullChain
