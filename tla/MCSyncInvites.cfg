CONSTANTS
    Sender = {s1, s2}
    Token = {k1}
    Max = 2
    Window = 1
    Life = 2
    CreatedAt = {1, 7}
    Width = 8
    MaxClock = 4
SPECIFICATION Spec
SYMMETRY SenderSymmetry
INVARIANTS
    TypeOK
    TwoWindowsBound
    RefusalEarned
    CacheEarned
