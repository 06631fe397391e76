CONSTANTS
    kino = kino
    gry = gry
    las = las
    Word = {kino, gry, las}
    NoWord = NoWord
    Limit = 4
    MaxFile = 4
    Lang = {en, pl}
    MaxCustom = 1
    Tag = {kino, gry, las}
    NoTag = NoTag
    FirstDynamic = 2
    Indices = 4
    Threshold = 2
    Frequent <- MCFrequent
    Static <- MCStatic
    Foreign <- MCForeign
SPECIFICATION Spec
INVARIANTS
    TypeOK
    OfficialDecodes
    OfficialWordsKept
    SentDecodes
