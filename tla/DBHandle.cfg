SPECIFICATION Spec
CONSTANTS
    None = None
    d1 = d1
    d2 = d2
    d3 = d3
    m1 = m1
    m2 = m2
    Rows <- MCRows
    Arrays <- MCArrays
    Insertable <- MCInsertable
    Handles = {h1, h2, h3}
INVARIANTS
    TypeOK
    SerialUseIsSafe
PROPERTIES
    OnlyQueriesLeak
    IsRowStore
