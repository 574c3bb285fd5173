SPECIFICATION Spec
CONSTANTS
    Names = {1, 2, 3, 4, 5}
    Queries <- MCQueries
    consumersPageMax = 2
    MaxRemoved = 2
INVARIANTS
    WholeSet
