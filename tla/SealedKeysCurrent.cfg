SPECIFICATION WriteSpec
CONSTANTS
    Slugs = {s1}
    RandomIDs = {}
    Values <- MCValues
    Descriptions = {d0}
    EmptyDescription = d0
    Tags = {}
    Consumers = {c1, c2}
    Keys = {k1, k2}
    OwnerKey = ko
    Explicit <- MCExplicit
    Writers = {w1}
    Nil = Nil
    Absent = Absent
SYMMETRY Symmetry
VIEW WithoutReply
PROPERTIES
    SealedToRegisteredKeys
