CONSTANTS
    Processes = {p1}
    Secrets = {s1}
    Commands = {c1}
    Asked = {"token"}
    Nil = Nil
    Absent = Absent
    Empty = Empty
    Torn = Torn
SPECIFICATION Spec
SYMMETRY Symmetry
INVARIANT SkippedIsUsed
