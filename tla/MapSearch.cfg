SPECIFICATION Spec
CONSTANTS
    Restaurants = {1, 2, 3}
    Position <- MCPosition
    City <- MCCity
    Insertable = {1, 3}
    Regions <- MCRegions
    None = None
    MaxMoves = 3
    MaxPins = 2
    MaxLaunches = 2
INVARIANTS
    TypeOK
    CalloutOfSelection
    StoredByFirstAnswer
    ListIsOfCity
    RowsOpenWhatTheyShow
