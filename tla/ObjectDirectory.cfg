SPECIFICATION Spec
CONSTANTS
    Slugs = {s1, s2}
    RandomIDs = {r1}
    Values = {v1}
    Descriptions = {none}
    EmptyDescription = none
    Tags = {}
    Consumers = {c1, c2}
    Keys = {k1, k2}
    Nil = Nil
    Absent = Absent
SYMMETRY Symmetry
INVARIANTS TypeOK DirectoryCoversCreated
PROPERTIES KeyNeverForgotten
