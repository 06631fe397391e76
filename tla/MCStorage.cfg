CONSTANTS
    Task = {t1, t2}
    Seed = {seed1, seed2}
    Phone = {phone}
    Secret = {pin, thumb}
    Salt = {salt1, salt2, salt3}
    Null = Null
    ala = ala
    bob = bob
    Device = {ala, bob}
    Skew <- MCSkew
    Payload = {short, long, huge}
    LongPayload = {long, huge}
    HugePayload = {huge}
    Lost = Lost
    Context = {chat, invite}
    MaxAge <- MCMaxAge
    Width = 16
    MaxNow = 5
    MaxSealed = 1
    Thread = {main, worker}
    AuthSecret = {right, wrong}
    DeviceSalt = DeviceSalt
    MaxDraws = 2
    MaxSpawned = 2
    Statements = 2
    SwiftContext = {first, second}
    NoCallback = NoCallback
    Callback = {one, other}
    Reading = {0, 2, 3, 5}
    MaxQrAge = 2
    U64 = 8
SPECIFICATION Spec
SYMMETRY StorageSymmetry
INVARIANTS
    TypeOK
    BackupOpens
    LoadedIsSaved
    OpenedAsSealed
    RefusedForCause
    CallsFindTheCore
    DatabaseReopens
    OneCore
    CallsAnsweredRightly
