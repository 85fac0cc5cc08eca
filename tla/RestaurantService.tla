-------------------------- MODULE RestaurantService --------------------------
(***************************************************************************)
(* The service's requests for restaurants, cities and menus: RequestRouter *)
(* with the five handlers that are not about users (UserStore).            *)
(*                                                                         *)
(* Every request runs in a Lambda process of its own.  Only PostRestuarant *)
(* writes; the tables of cities and dishes are filled by other means.  A   *)
(* scan of the growing table is read page by page (PaginatedScanList), and *)
(* reads are eventually consistent: they may miss what was just stored.    *)
(*                                                                         *)
(* Strings of blanks are Blank; the restaurants' names are left out, and a *)
(* position is one coordinate, as in MapSearch.                            *)
(***************************************************************************)
EXTENDS Integers

CONSTANTS
    Clients,
    IDs,         \* the keys the mapper generates
    Types,       \* the types of posted restaurants
    Names,       \* names of cities, nations and states that are asked for
    Places,      \* where restaurants are: triples of city, nation and state
    RestCities,  \* the table of cities' restaurants
    RestIDs,     \* restaurants whose menus are asked for
    Dishes,      \* the table of dishes
    Regions,     \* the regions asked for
    Blank,       \* a string of blanks
    NoBody,      \* no body, or for a list an empty one
    Null,        \* a body that is the JSON value null
    None         \* a missing field; a missing item; no request

\* The items of the tables, and the regions, by the attributes that are used.
RestCity == [place : Places, position : Int]
DishData == [rest : RestIDs, dish : Nat]
Region == [min : Int, max : Int]

ASSUME RestaurantServiceAssumption ==
    /\ {Blank, NoBody, Null, None} \cap (IDs \cup Types \cup Names \cup RestIDs) = {}
    /\ RestCities \subseteq RestCity /\ Dishes \subseteq DishData /\ Regions \subseteq Region

VARIABLES
    restaurantTable,  \* the type of the restaurant stored under each key, or None
    lagging,          \* keys that a read may still miss
    pc,               \* of each client's request: "idle", "scan", "search", "save" or "saved"
    request,          \* the request, or None
    left,             \* the keys its read has not come to
    found,            \* the keys its read has found, or its save has used
    answer,           \* the last answer: [status, body, rows, asked]
    settledBefore,    \* observed: what every read found when the request came
    stored            \* observed: has the last request stored a restaurant

tableVars == <<restaurantTable, lagging>>
vars == <<tableVars, pc, request, left, found, answer, settledBefore, stored>>

Strings(S) == S \cup {Blank, None}

\* The bodies of posts: the type of a restaurant; city, nation and state.
PostRestuarantRequest == Strings(Types)
SearchByCity == Strings(Names) \X Strings(Names) \X Strings(Names)

\* What the gateway hands on, of each path: the action by its class, and the body.
ListRequests == [action : {"GetRestuarantList"}, body : {NoBody, None}]
OneRequests == [action : {"GetRestuarantList"}, body : IDs \cup {Blank}]
PostRequests == [action : {"PostRestuarant"}, body : PostRestuarantRequest]
MenuRequests == [action : {"SearchMenudataByRestID"}, body : RestIDs \cup {Blank}]
CityRequests == [action : {"SearchRestaurantByCityRequest"}, body : SearchByCity]
MapRequests == [action : {"SearchRestaurantByMapRequest"}, body : Regions]

\* A client that goes past the gateway may name no action, or one that is no class.
StrayRequests == [action : {None, Blank, "unknown"}, body : {None}]

\* Such a client may also leave out the body, or send null for it.
Actions ==
    {"GetRestuarantList", "PostRestuarant", "SearchMenudataByRestID",
     "SearchRestaurantByCityRequest", "SearchRestaurantByMapRequest"}
BodylessRequests == [action : Actions, body : {NoBody, Null}]

Requests ==
    ListRequests \cup OneRequests \cup PostRequests \cup MenuRequests \cup CityRequests
    \cup MapRequests \cup StrayRequests \cup BodylessRequests

\* Stored restaurants that no read misses.
Settled == {id \in IDs \ lagging : restaurantTable[id] # None}

Init ==
    /\ restaurantTable = [id \in IDs |-> None]
    /\ lagging = {}
    /\ pc = [c \in Clients |-> "idle"]
    /\ request = [c \in Clients |-> None]
    /\ left = [c \in Clients |-> {}] /\ found = [c \in Clients |-> {}]
    /\ answer = [c \in Clients |-> [status |-> 200, body |-> "none", rows |-> {}, asked |-> "none"]]
    /\ settledBefore = [c \in Clients |-> {}]
    /\ stored = [c \in Clients |-> FALSE]

-----------------------------------------------------------------------------
\* API Gateway: a message that begins with BAD is a 400, one that begins with
\* INT a 500, anything else a 200.
StatusOf(body) == IF body = "BAD_REQ" THEN 400 ELSE IF body = "INT_ERROR" THEN 500 ELSE 200

\* What an answer is for, as far as the properties tell requests apart.
Asked(r) == IF r # None /\ r.action = "GetRestuarantList" /\ r.body = NoBody THEN "list" ELSE "other"

Respond(c, r, body, rows) ==
    /\ answer' = [answer EXCEPT ![c] = [status |-> StatusOf(body), body |-> body, rows |-> rows,
                                        asked |-> Asked(r)]]
    /\ pc' = [pc EXCEPT ![c] = "idle"]
    /\ request' = [request EXCEPT ![c] = None]
    /\ left' = [left EXCEPT ![c] = {}] /\ found' = [found EXCEPT ![c] = {}]

\* The body that is none, or the first of its city, nation and state that is
\* blank or missing, if any.
FirstUnusable(body) ==
    IF body \in {NoBody, Null} THEN body
    ELSE LET unusable == {i \in DOMAIN body : body[i] \in {Blank, None}}
         IN  IF unusable = {} THEN "usable"
             ELSE body[CHOOSE i \in unusable : \A j \in unusable : i <= j]

\* Mutant: the type of a restaurant is not checked for blanks.
PostRefusedUnchecked(type) == type \in {NoBody, None}

\* The checks of the handlers that can throw a BadRequestException; fromJson
\* makes null of a missing body, which three of them check first.
PostRefused(type) == type \in {NoBody, None, Blank}
MenuRefused(restID) == restID = Blank
CityRefused(place) == FirstUnusable(place) \in {NoBody, Blank}
MapRefused(region) == region = NoBody

Refused(r) ==
    \/ r.action \in {None, Blank}
    \/ r.action = "PostRestuarant" /\ PostRefused(r.body)
    \/ r.action = "SearchMenudataByRestID" /\ MenuRefused(r.body)
    \/ r.action = "SearchRestaurantByCityRequest" /\ CityRefused(r.body)
    \/ r.action = "SearchRestaurantByMapRequest" /\ MapRefused(r.body)

\* Requests with a missing string, body or handler that is dereferenced, and
\* those whose body is no object.
Raises(r) ==
    \/ r.action = "unknown" \/ r.body = Null
    \/ r.action = "GetRestuarantList" /\ r.body = None
    \/ r.action = "SearchMenudataByRestID" /\ r.body = NoBody
    \/ r.action = "SearchRestaurantByCityRequest" /\ FirstUnusable(r.body) = None

\* The keys a handler reads: all, the one asked for, or none if that is blank.
KeysToRead(r) ==
    IF r.action # "GetRestuarantList" THEN {}
    ELSE IF r.body = NoBody THEN IDs ELSE {r.body} \ {Blank}

FirstStep(r) ==
    IF r.action = "PostRestuarant" THEN "save"
    ELSE IF r.action = "GetRestuarantList" THEN "scan" ELSE "search"

Observe(c) ==
    /\ settledBefore' = [settledBefore EXCEPT ![c] = Settled]
    /\ stored' = [stored EXCEPT ![c] = FALSE]

Accept(c, r) ==
    /\ pc[c] = "idle"
    /\ ~Refused(r) /\ ~Raises(r)
    /\ request' = [request EXCEPT ![c] = r]
    /\ pc' = [pc EXCEPT ![c] = FirstStep(r)]
    /\ left' = [left EXCEPT ![c] = KeysToRead(r)]
    /\ Observe(c)
    /\ UNCHANGED <<tableVars, found, answer>>

Reject(c, r) ==
    /\ pc[c] = "idle"
    /\ \/ Refused(r) /\ Respond(c, r, "BAD_REQ", {})
       \/ Raises(r) /\ Respond(c, r, "exception", {})
    /\ Observe(c)
    /\ UNCHANGED tableVars

\* The stream breaks off: the one InternalErrorException of the function.
Unreadable(c) ==
    /\ pc[c] = "idle"
    /\ Respond(c, None, "INT_ERROR", {})
    /\ Observe(c)
    /\ UNCHANGED tableVars

-----------------------------------------------------------------------------
\* Mutant: only the first page is read.
ReadFirstPage(c) ==
    /\ pc[c] = "scan"
    /\ \E page \in SUBSET left[c] \ {{}} :
         \E missed \in SUBSET (page \cap lagging) :
            found' = [found EXCEPT ![c] = {id \in page \ missed : restaurantTable[id] # None}]
    /\ left' = [left EXCEPT ![c] = {}]
    /\ UNCHANGED <<tableVars, pc, request, answer, settledBefore, stored>>

\* A page of the scan, or the load of one key.
ReadPage(c) ==
    /\ pc[c] = "scan"
    /\ \E page \in SUBSET left[c] \ {{}} :
         /\ \E missed \in SUBSET (page \cap lagging) :
              found' = [found EXCEPT ![c] =
                            @ \cup {id \in page \ missed : restaurantTable[id] # None}]
         /\ left' = [left EXCEPT ![c] = @ \ page]
    /\ UNCHANGED <<tableVars, pc, request, answer, settledBefore, stored>>

\* GetRestuarantList answers with a list in both cases; a restaurant that does
\* not exist is an element null.
ListReply(c) ==
    /\ pc[c] = "scan" /\ left[c] = {}
    /\ Respond(c, request[c], "list",
               IF request[c].body # NoBody /\ found[c] = {} THEN {None} ELSE found[c])
    /\ UNCHANGED <<tableVars, settledBefore, stored>>

\* The scans with a filter of the tables nobody writes.
GetRestMenuByRestID(restID) == {d \in Dishes : d.rest = restID}
SearchRestaurantByCity(place) == {t \in RestCities : t.place = place}
SearchRestaurantByMap(region) ==
    {t \in RestCities : region.min < t.position /\ t.position < region.max}

SearchReply(c, action, rows) ==
    /\ pc[c] = "search" /\ request[c].action = action
    /\ Respond(c, request[c], "rows", rows)
    /\ UNCHANGED <<tableVars, settledBefore, stored>>

MenuReply(c) ==
    SearchReply(c, "SearchMenudataByRestID", GetRestMenuByRestID(request[c].body))

CityReply(c) ==
    SearchReply(c, "SearchRestaurantByCityRequest", SearchRestaurantByCity(request[c].body))

MapReply(c) ==
    SearchReply(c, "SearchRestaurantByMapRequest", SearchRestaurantByMap(request[c].body))

\* uploadNewRestuarant: the mapper generates a key and sets it in the object.
Save(c) ==
    /\ pc[c] = "save"
    /\ \E id \in {id \in IDs : restaurantTable[id] = None} :
         /\ restaurantTable' = [restaurantTable EXCEPT ![id] = request[c].body]
         /\ lagging' = lagging \cup {id}
         /\ found' = [found EXCEPT ![c] = {id}]
    /\ pc' = [pc EXCEPT ![c] = "saved"]
    /\ stored' = [stored EXCEPT ![c] = TRUE]
    /\ UNCHANGED <<request, left, answer, settledBefore>>

\* Mutant: the key is taken before the save and is still missing after it.
PostReplyWithoutID(c) ==
    /\ pc[c] = "saved"
    /\ Respond(c, request[c], "BAD_REQ", {})
    /\ UNCHANGED <<tableVars, settledBefore, stored>>

\* The key is checked once more ("cannot update dynamodb") and returned.
PostReply(c) ==
    /\ pc[c] = "saved"
    /\ Respond(c, request[c], IF found[c] = {} THEN "BAD_REQ" ELSE "posted", found[c])
    /\ UNCHANGED <<tableVars, settledBefore, stored>>

\* The mapper throws, also after the item was written; nothing catches it.
StoreFails(c) ==
    /\ pc[c] # "idle"
    /\ Respond(c, request[c], "exception", {})
    /\ UNCHANGED <<tableVars, settledBefore, stored>>

\* All replicas have the item.
CatchUp(id) ==
    /\ id \in lagging
    /\ lagging' = lagging \ {id}
    /\ UNCHANGED <<restaurantTable, pc, request, left, found, answer, settledBefore, stored>>

Next ==
    \/ \E c \in Clients :
        \/ \E r \in Requests : Accept(c, r) \/ Reject(c, r)
        \/ Unreadable(c)
        \/ ReadPage(c) \/ ListReply(c)
        \/ MenuReply(c) \/ CityReply(c) \/ MapReply(c)
        \/ Save(c) \/ PostReply(c) \/ StoreFails(c)
    \/ \E id \in IDs : CatchUp(id)

Spec == Init /\ [][Next]_vars

-----------------------------------------------------------------------------
\* Types; what a request has found is stored.
TypeOK ==
    /\ restaurantTable \in [IDs -> Types \cup {None}]
    /\ lagging \subseteq {id \in IDs : restaurantTable[id] # None}
    /\ pc \in [Clients -> {"idle", "scan", "search", "save", "saved"}]
    /\ request \in [Clients -> Requests \cup {None}]
    /\ left \in [Clients -> SUBSET IDs]
    /\ found \in [Clients -> SUBSET {id \in IDs : restaurantTable[id] # None}]
    /\ stored \in [Clients -> BOOLEAN]

\* GetRestuarantList lists each restaurant that every read could find when the
\* request came, and none that does not exist, although the pages are read one
\* after the other while others post.
ListComplete ==
    \A c \in Clients : answer[c].body = "list" /\ answer[c].asked = "list" /\ pc[c] = "idle" =>
        /\ settledBefore[c] \subseteq answer[c].rows
        /\ answer[c].rows \subseteq {id \in IDs : restaurantTable[id] # None}

\* Who is told that a post was bad has stored nothing, although PostRestuarant
\* can throw BadRequestException before and after its save.
BadRequestsStoreNothing ==
    \A c \in Clients : answer[c].status = 400 /\ pc[c] = "idle" => ~stored[c]
=============================================================================
