SPECIFICATION Spec
CONSTANTS
    Nil = Nil
    Entries <- MCEntries
    Filters <- MCFilters
    Limits <- MCLimits
    MalformedObjects = {"bad id"}
    MaxEntries = 5
    auditLogPageMax = 2
INVARIANTS
    TypeOK
    ResultIsPrefix
PROPERTIES
    ImplementsQuery
    EveryPageAdvances
    QueryEnds
