SPECIFICATION RunSpec
CONSTANTS
    t1 = t1
    t2 = t2
    s1 = s1
    c1 = c1
    c2 = c2
    k1 = k1
    Slugs = {s1}
    RandomIDs = {}
    Values = {v1}
    Descriptions = {d0}
    EmptyDescription = d0
    Tags = {t1, t2}
    Consumers = {c1, c2}
    Keys = {k1}
    Nil = Nil
    Absent = Absent
    RandomSuffixes = {w, i1, x1, y1, y2, y3, y4}
    WriteToken = w
    TokenID = i1
    TokenValue = x1
    Durations = {1}
    Second = 1
    MaxTime = 1
    Spellings <- MCSpellings
    Lower <- MCLower
    maxTags = 1
    Ask <- MCAsk
    Configured <- MCConfigured
    Early = {c1}
    MaxRequests = 2
SYMMETRY Symmetry
VIEW Essential
INVARIANTS
    RunTypeOK ExitTellsTruth EffectsFollowExits EffectWasAuthorized EndedTokenReadsNothing
    ShownTokenWorks AddShowsItsEntry StrippedConsumerReadsNothing
PROPERTY ImplementsContract
