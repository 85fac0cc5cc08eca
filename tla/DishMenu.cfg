SPECIFICATION FairSpec
\* The bounds on visits, requests and launches end every behaviour.
CHECK_DEADLOCK FALSE
CONSTANTS
    None = None
    r1 = r1
    r2 = r2
    r3 = r3
    Restaurants <- MCRestaurants
    Menus <- MCMenus
    Insertable <- MCInsertable
    MaxVisits = 2
    MaxRequests = 2
    MaxLaunches = 2
INVARIANTS
    TypeOK
    MenuOfRestaurant
    PriceExact
    NeverOvercharged
    StoredIsPrefix
    CachedMeansStored
PROPERTIES
    ArrivedGetsCached
