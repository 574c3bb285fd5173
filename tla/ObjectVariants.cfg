SPECIFICATION Spec
CONSTANTS
    Slugs = {s1, s2}
    RandomIDs = {r1, r2}
    Values = {v1, v2}
    Descriptions = {none}
    EmptyDescription = none
    Tags = {}
    Consumers = {}
    Keys = {}
    Nil = Nil
    Absent = Absent
SYMMETRY Symmetry
INVARIANTS NoOrphanVariants VariantIDsDistinct
PROPERTIES ImplementsCatalog
