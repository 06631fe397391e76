CONSTANTS
    Hash <- MCHash
    Combine <- MCCombine
    Leaf = {3, 5, 9}
    MaxLeaves = 6
    Node = {ala, bob}
    Tx = {1, 2, 3}
    Genesis = Genesis
    MaxTxs = 4
    Proposed <- MCProposed
    MaxHeight = 2
    MaxBlocks = 3
    Letter = {"a", "b", "_"}
    Space = "_"
    MaxTags = 2
    MaxInput = 6
    Blob <- MCBlob
    NotText = NotText
    Quorum = {2, 3}
    Behind = {0, 899, 900, 901}
    MaxClockSkew = 900
    MaxMade = 2
SPECIFICATION Spec
INVARIANTS
    TypeOK
    ProofVerifies
    LevelsArePerfect
    AcceptedAsSigned
    OneHistoryUnlessForked
    ParsedSurvivesText
    HonestBlockPasses
CHECK_DEADLOCK FALSE
