CONSTANTS
    Processes = {p1, p2}
    Secrets = {s1}
    Commands = {c1}
    Asked = {"identity"}
    Nil = Nil
    Absent = Absent
    Empty = Empty
    Torn = Torn
SPECIFICATION Spec
SYMMETRY Symmetry
INVARIANTS TypeOK KeyringBacksFile  SavedIsUsed
PROPERTY NeverOverwrittenUnasked
