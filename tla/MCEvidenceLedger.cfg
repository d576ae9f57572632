SPECIFICATION Spec
CONSTANTS
    w1 = w1
    w2 = w2
    e1 = e1
    e2 = e2
    e3 = e3
    e4 = e4
    Writer <- Writers
    Event <- Events
    History <- Histories
    NoHash = NoHash
    Nobody = Nobody
SYMMETRY Symmetry
INVARIANTS
    TypeOK
    AlwaysVerifiable
    WarmTailIsDiskTail
    AckedDurable
PROPERTIES
    ImplementsLog
