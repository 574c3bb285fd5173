SPECIFICATION Spec
CONSTANTS
    RandomSuffixes = {x1, x2, x3, x4, x5}
    Consumers = {c1, c2}
    Durations <- MCDurations
    Second = 2
    MaxTime = 4
    Absent = Absent
SYMMETRY Symmetry
INVARIANTS TypeOK LookupMatchesRecords ListedActionsWork
PROPERTIES DeadStaysDead ImplementsLedger
