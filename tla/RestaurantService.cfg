SPECIFICATION Spec
CONSTANTS
    None = None
    Blank = Blank
    NoBody = NoBody
    Null = Null
    c1 = c1
    c2 = c2
    i1 = i1
    i2 = i2
    Clients <- MCClients
    IDs <- MCIDs
    t1 = t1
    Types <- MCTypes
    Names = {"x"}
    Places <- MCPlaces
    RestCities <- MCRestCities
    RestIDs = {"r"}
    Dishes <- MCDishes
    Regions <- MCRegions
SYMMETRY MCSymmetry
INVARIANTS
    TypeOK
    ListComplete
    BadRequestsStoreNothing
