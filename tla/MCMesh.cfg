CONSTANTS
    a1 = a1
    b1 = b1
    c1 = c1
    c2 = c2
    ala = ala
    bob = bob
    cyd = cyd
    m1 = m1
    PeerId = {a1, b1, c1, c2}
    User = {ala, bob, cyd}
    Meeting = {m1}
    NoPeer = NoPeer
    NoUser = NoUser
    Owner <- MCOwner
    Organizer <- MCOrganizer
    Pinged <- MCPinged
    InvitedTo <- MCInvitedTo
    Meets <- MCMeets
    MaxSends = 2
SPECIFICATION FairSpec
INVARIANTS
    TypeOK
    FriendsOnlyDirect
    RelayedToRecipient
    RejectsComeHome
    InterestedIsPrivate
PROPERTY MeshQuiesces
