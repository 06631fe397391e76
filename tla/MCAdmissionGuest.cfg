CONSTANTS
    p1 = p1
    p2 = p2
    u1 = u1
    u2 = u2
    PeerId = {p1, p2, p3}
    User = {u1, u2}
    NoPeer = NoPeer
    NoUser = NoUser
    Nearby = {p1, p2}
    Pings <- MCPings
    Token = {k1}
    MaxClock = 1
SPECIFICATION MCSpec
INVARIANT GuestsAreRecognised
