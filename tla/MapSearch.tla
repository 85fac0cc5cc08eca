----------------------------- MODULE MapSearch -----------------------------
(***************************************************************************)
(* The search screen (SearchVC) and its two children: the map              *)
(* (SearchTargetByMapVC), which asks the service for the restaurants of a  *)
(* region and pins them, and the list (SearchTargetByLocationTVC), which   *)
(* shows what the database has for the chosen city.                        *)
(*                                                                         *)
(* The main queue runs the screens; the session's queue runs one           *)
(* completion handler at a time, beside the main queue: it stores the      *)
(* first answer of a launch, row by row, and posts each answer to the map. *)
(*                                                                         *)
(* Restaurants are numbers in the order of their names; a position is one  *)
(* coordinate, as latitude and longitude are treated alike, and a          *)
(* restaurant without coordinates is at 0.                                 *)
(***************************************************************************)
EXTENDS Integers, SequencesExt

CONSTANTS
    Restaurants,
    Position,      \* Position[r]: the coordinate of restaurant r
    City,          \* City[r]: nation, state and city of r
    Insertable,    \* restaurants whose INSERT statement is valid
    Regions,       \* what the map can show: records [min, max]
    None,          \* no callout, no selection, no city, no handler running
    MaxMoves,      \* bound: region changes in one launch
    MaxPins,       \* bound: pins of one restaurant
    MaxLaunches    \* bound: launches of the app

\* A completion handler at work: the rows it has still to store, its answer.
Handlers == [rows : Seq(Restaurants), answer : Seq(Restaurants)]

ASSUME MapSearchAssumption ==
    /\ Restaurants \subseteq Nat /\ IsFiniteSet(Restaurants)
    /\ None \notin Restaurants \cup Handlers
    /\ Position \in [Restaurants -> Int]
    /\ \A q \in Regions : q.min \in Int /\ q.max \in Int /\ q.min < q.max
    /\ MaxMoves \in Nat /\ MaxPins \in Nat /\ MaxLaunches \in Nat \ {0}

VARIABLES
    top,               \* "search", "dishes", "target" (choice of a city) or "tab"
    bChange,           \* is the map in front of the list
    region,            \* what the map shows
    requests,          \* requests[q]: requests for q that are not answered yet
    handler,           \* the completion handler at work: [rows, answer], or None
    bTest,             \* has no answer been stored in this launch
    observing,         \* does the map observe getinfomationofannotation
    listening,         \* does SearchVC observe showspecificrestaurant
    pins,              \* pins[r]: annotations of r on the map
    selected,          \* the restaurant of the selected pin
    callout,           \* curCalloutAnnotation
    restID,            \* restaurant of the dishes screen opened last
    city,              \* nation, state and city of UserConfigurationData
    restaurantList,    \* the list's restaurants
    displayed,         \* the rows of the table when it was last reloaded
    restaurantTable,   \* the table restaurantlist; survives the process
    moves, launches,
    atLaunch,          \* observed: the table when this process started
    firstAnswer        \* observed: the answer this process stored

mapVars == <<region, requests, moves>>
storeVars == <<bTest, restaurantTable, firstAnswer>>
pinVars == <<selected, callout>>
listVars == <<restaurantList, displayed>>
screenVars == <<top, restID>>
observerVars == <<observing, listening>>
launchVars == <<launches, atLaunch>>
vars == <<mapVars, handler, storeVars, pins, pinVars, listVars, screenVars, observerVars,
          launchVars, bChange, city>>

\* ORDER BY restName: the restaurants of S in the order of their names.
OrderByName(S) ==
    CHOOSE s \in SetToSeqs(S) : \A i, j \in DOMAIN s : i < j => s[i] < s[j]

\* searchRestaurantListByLocation: nothing unless a city is chosen.
SearchRestaurantListByLocation(table, c) ==
    OrderByName({r \in table : c # None /\ City[r] = c})

\* DynamoDBRestCityDAO.searchRestaurantByMap: both borders are excluded.
SearchRestaurantByMap(q) ==
    {r \in Restaurants : q.min < Position[r] /\ Position[r] < q.max}

\* The coordinate of an annotation; a message to nil returns zero.
Coordinate(r) == IF r = None THEN 0 ELSE Position[r]

\* What a new process starts with: SearchVC is the first tab's screen.
Start(table, c) ==
    [list |-> SearchRestaurantListByLocation(table, c),
     pins |-> [r \in Restaurants |-> 0],
     requests |-> [q \in Regions |-> 0]]

Init ==
    /\ top = "search" /\ restID = None /\ bChange = TRUE
    /\ region \in Regions
    /\ requests = Start({}, None).requests
    /\ handler = None /\ bTest = TRUE
    /\ observing = TRUE /\ listening = TRUE
    /\ pins = Start({}, None).pins
    /\ selected = None /\ callout = None
    /\ city \in {None} \cup {City[r] : r \in Restaurants}
    /\ restaurantList = <<>> /\ displayed = <<>>
    /\ restaurantTable = {} /\ atLaunch = {} /\ firstAnswer = <<>>
    /\ moves = 0 /\ launches = 1

-----------------------------------------------------------------------------
(* The map's region and the answers of the service.                        *)

\* regionWillChangeAnimated: mapView.region is still the region that is left.
RegionWillChange(q) ==
    /\ moves < MaxMoves
    /\ requests' = [requests EXCEPT ![region] = @ + 1]
    /\ region' = q
    /\ moves' = moves + 1

\* The user, or the tracking of the user's position, moves the map.
MoveMap ==
    /\ \E q \in Regions \ {region} : RegionWillChange(q)
    /\ UNCHANGED <<handler, storeVars, pins, pinVars, listVars, screenVars, observerVars,
                   launchVars, bChange, city>>

\* Mutant: every answer is stored.
AnswerAlwaysStored(q, s) ==
    /\ requests' = [requests EXCEPT ![q] = @ - 1]
    /\ handler' = [rows |-> s, answer |-> s]
    /\ firstAnswer' = IF bTest THEN s ELSE firstAnswer
    /\ UNCHANGED <<bTest, restaurantTable>>

\* openandCreateDatabaseandTable: the first row names the columns; without
\* one the statement is not valid.  A connection that does not open stops the
\* handler at its first row (InsertOrStop).
TableCreated(rows) == rows # <<>>

\* The completion handler starts on an answer with the list s.
StartHandler(q, s) ==
    /\ requests' = [requests EXCEPT ![q] = @ - 1]
    /\ handler' = [rows |-> IF bTest /\ TableCreated(s) THEN s ELSE <<>>, answer |-> s]
    /\ firstAnswer' = IF bTest THEN s ELSE firstAnswer
    /\ UNCHANGED <<bTest, restaurantTable>>

\* An answer arrives; the scan returns its restaurants in any order.
AnswerArrives ==
    /\ handler = None
    /\ \E q \in {q \in Regions : requests[q] > 0} :
         \E s \in SetToSeqs(SearchRestaurantByMap(q)) : StartHandler(q, s)
    /\ UNCHANGED <<region, moves, pins, pinVars, listVars, screenVars, observerVars,
                   launchVars, bChange, city>>

\* The gateway answers with an error message: it has no listResult and no
\* nCount, creating a table for it fails, and nothing is posted.
ErrorArrives ==
    /\ handler = None
    /\ \E q \in {q \in Regions : requests[q] > 0} : requests' = [requests EXCEPT ![q] = @ - 1]
    /\ bTest' = FALSE
    /\ UNCHANGED <<region, moves, handler, restaurantTable, firstAnswer, pins, pinVars, listVars,
                   screenVars, observerVars, launchVars, bChange, city>>

\* The connection fails: the handler does nothing.
RequestFails ==
    /\ handler = None
    /\ \E q \in {q \in Regions : requests[q] > 0} : requests' = [requests EXCEPT ![q] = @ - 1]
    /\ UNCHANGED <<region, moves, handler, storeVars, pins, pinVars, listVars, screenVars,
                   observerVars, launchVars, bChange, city>>

\* Mutant: every row gets into the table.
InsertAnyway(row, rest) ==
    /\ restaurantTable' = restaurantTable \cup {row}
    /\ handler' = [handler EXCEPT !.rows = rest]

\* insertArray:IntoTable:WithPrimaryKey:, one INSERT: it fails for a key that
\* is there already, if the statement is invalid, or for any reason of the
\* connection (DBHandle), and then the loop ends.
InsertOrStop(row, rest) ==
    \/ /\ row \in Insertable \ restaurantTable
       /\ restaurantTable' = restaurantTable \cup {row}
       /\ handler' = [handler EXCEPT !.rows = rest]
    \/ /\ handler' = [handler EXCEPT !.rows = <<>>]
       /\ UNCHANGED restaurantTable

InsertRow ==
    /\ handler # None /\ handler.rows # <<>>
    /\ InsertOrStop(Head(handler.rows), Tail(handler.rows))
    /\ UNCHANGED <<mapVars, bTest, firstAnswer, pins, pinVars, listVars, screenVars, observerVars,
                   launchVars, bChange, city>>

\* showAllAnnotations: pins are added to those that are there.  It runs
\* inside postNotification, if the map still observes.
ShowAllAnnotations(answer) ==
    pins' = [r \in Restaurants |-> pins[r] + IF observing /\ r \in ToSet(answer) THEN 1 ELSE 0]

PostAnswer ==
    /\ handler # None /\ handler.rows = <<>>
    /\ \A r \in ToSet(handler.answer) : pins[r] < MaxPins
    /\ ShowAllAnnotations(handler.answer)
    /\ bTest' = FALSE
    /\ handler' = None
    /\ UNCHANGED <<mapVars, restaurantTable, firstAnswer, pinVars, listVars, screenVars,
                   observerVars, launchVars, bChange, city>>

-----------------------------------------------------------------------------
(* Pins, callout and rows: how a restaurant is opened.                     *)

\* viewDidDisappear of the map: it stops observing.  Nothing makes it start
\* again, as viewDidLoad runs once.
LeaveSearch(screen) ==
    /\ top' = screen
    /\ observing' = FALSE

\* getMessagefromShow: the dishes screen of r is pushed, if SearchVC listens.
ShowSpecificRestaurant(r) ==
    IF listening
    THEN /\ LeaveSearch("dishes")
         /\ restID' = r
    ELSE UNCHANGED <<top, observing, restID>>

\* didDeselectAnnotationView of the selected pin: its callout goes and its
\* restaurant is opened.
DidDeselect ==
    IF selected # None /\ callout # None /\ Coordinate(callout) = Coordinate(selected)
    THEN ShowSpecificRestaurant(callout)
    ELSE UNCHANGED <<top, observing, restID>>

\* Mutant: only the annotation is removed, the reference stays.
CalloutStays == callout

CalloutAfterDeselect ==
    IF selected # None /\ Coordinate(callout) = Coordinate(selected) THEN None ELSE callout

\* didSelectAnnotationView of a pin of r: nothing if it is where the old
\* callout is; otherwise the callout is replaced and the map centered on it.
DidSelect(r, old) ==
    IF Coordinate(old) = Position[r]
    THEN callout' = old /\ UNCHANGED mapVars
    ELSE /\ callout' = r
         /\ \E q \in {q \in Regions : q.min <= Position[r] /\ Position[r] <= q.max} :
              IF q = region THEN UNCHANGED mapVars ELSE RegionWillChange(q)

\* The user touches a pin: MapKit deselects the selected one first, and it is
\* that one whose restaurant is opened.
SelectPin ==
    /\ top = "search" /\ bChange
    /\ \E r \in Restaurants :
         /\ pins[r] > (IF r = selected THEN 1 ELSE 0)
         /\ DidDeselect
         /\ DidSelect(r, CalloutAfterDeselect)
         /\ selected' = r
    /\ UNCHANGED <<handler, storeVars, pins, listVars, listening, launchVars, bChange, city>>

\* The user touches the callout or an empty place of the map: either opens
\* the restaurant of the selected pin.
DeselectPin ==
    /\ top = "search" /\ bChange
    /\ selected # None
    /\ DidDeselect
    /\ callout' = CalloutAfterDeselect
    /\ selected' = None
    /\ UNCHANGED <<mapVars, handler, storeVars, pins, listVars, listening, launchVars, bChange, city>>

\* Section 1 of the list: a row of the table.
SelectRow ==
    /\ top = "search" /\ ~bChange
    /\ \E i \in DOMAIN displayed \cap DOMAIN restaurantList :
         ShowSpecificRestaurant(restaurantList[i])
    /\ UNCHANGED <<mapVars, handler, storeVars, pins, pinVars, listVars, listening, launchVars,
                   bChange, city>>

\* Section 0 of the list: another city may be chosen.
SelectTargetCity ==
    /\ top = "search" /\ ~bChange
    /\ LeaveSearch("target")
    /\ UNCHANGED <<mapVars, handler, storeVars, pins, pinVars, listVars, restID, listening,
                   launchVars, bChange, city>>

\* onClickChange: map and list change places.
ClickChange ==
    /\ top = "search"
    /\ bChange' = ~bChange
    /\ UNCHANGED <<mapVars, handler, storeVars, pins, pinVars, listVars, screenVars, observerVars,
                   launchVars, city>>

ChangeTab ==
    /\ top = "search"
    /\ LeaveSearch("tab")
    /\ UNCHANGED <<mapVars, handler, storeVars, pins, pinVars, listVars, restID, listening,
                   launchVars, bChange, city>>

-----------------------------------------------------------------------------
(* The screens above, and the process.                                     *)

\* The screens behind "target" write the chosen place to the user's data.
ChooseCity ==
    /\ top = "target"
    /\ city' \in {City[r] : r \in Restaurants} \ {city}
    /\ UNCHANGED <<mapVars, handler, storeVars, pins, pinVars, listVars, screenVars, observerVars,
                   launchVars, bChange>>

\* Mutant: the rows of the time before stay.
RefillAppends ==
    LET rows == SearchRestaurantListByLocation(restaurantTable, city)
    IN  restaurantList' = restaurantList \o rows /\ displayed' = restaurantList \o rows

\* Mutant: the list is filled but not displayed again.
RefillUndisplayed ==
    /\ restaurantList' = SearchRestaurantListByLocation(restaurantTable, city)
    /\ UNCHANGED displayed

\* executeQuery on a connection that refuses it: no rows.
QueryRefused == <<>>

\* viewWillAppear of the list: it is emptied, filled and displayed again.
Refill ==
    /\ restaurantList' \in {SearchRestaurantListByLocation(restaurantTable, city), QueryRefused}
    /\ displayed' = restaurantList'

ReturnToSearch ==
    /\ top # "search"
    /\ top' = "search"
    /\ Refill
    /\ UNCHANGED <<mapVars, handler, storeVars, pins, pinVars, restID, observerVars, launchVars,
                   bChange, city>>

\* representTableView, posted when the first configuration is done.
RepresentTableView ==
    /\ displayed' = restaurantList
    /\ UNCHANGED <<mapVars, handler, storeVars, pins, pinVars, restaurantList, screenVars,
                   observerVars, launchVars, bChange, city>>

\* didReceiveMemoryWarning: the list is emptied but not displayed again, and
\* SearchVC stops listening for good.
MemoryWarning ==
    /\ listening' = FALSE
    /\ restaurantList' = <<>>
    /\ UNCHANGED <<mapVars, handler, storeVars, pins, pinVars, displayed, screenVars, observing,
                   launchVars, bChange, city>>

\* A new process: the table is as it was left, the city comes from a file.
NewProcess ==
    /\ launches < MaxLaunches
    /\ launches' = launches + 1
    /\ top' = "search" /\ restID' = None /\ bChange' = TRUE
    /\ region' \in Regions
    /\ city' \in {None} \cup {City[r] : r \in Restaurants}
    /\ LET start == Start(restaurantTable, city')
       IN  /\ requests' = start.requests /\ pins' = start.pins
           /\ restaurantList' \in {start.list, QueryRefused}
    /\ displayed' = restaurantList'
    /\ handler' = None /\ bTest' = TRUE /\ moves' = 0
    /\ observing' = TRUE /\ listening' = TRUE
    /\ selected' = None /\ callout' = None
    /\ atLaunch' = restaurantTable /\ firstAnswer' = <<>>
    /\ UNCHANGED restaurantTable

\* The process is killed, between any two steps of any queue, and restarted.
Relaunch == NewProcess

\* A row of the table that the list does not have any more: objectAtIndex:
\* raises, and the process ends.
SelectMissingRow ==
    /\ top = "search" /\ ~bChange
    /\ DOMAIN displayed \ DOMAIN restaurantList # {}
    /\ NewProcess

Next ==
    \/ MoveMap \/ AnswerArrives \/ ErrorArrives \/ RequestFails
    \/ InsertRow \/ PostAnswer
    \/ SelectPin \/ DeselectPin \/ SelectRow \/ SelectTargetCity
    \/ ClickChange \/ ChangeTab \/ ChooseCity
    \/ ReturnToSearch \/ RepresentTableView \/ MemoryWarning
    \/ Relaunch \/ SelectMissingRow

Spec == Init /\ [][Next]_vars

-----------------------------------------------------------------------------
\* Types; the table holds only rows that could be inserted.
TypeOK ==
    /\ top \in {"search", "dishes", "target", "tab"}
    /\ restID \in Restaurants \cup {None}
    /\ bChange \in BOOLEAN /\ bTest \in BOOLEAN
    /\ observing \in BOOLEAN /\ listening \in BOOLEAN
    /\ region \in Regions
    /\ requests \in [Regions -> 0..MaxMoves]
    /\ pins \in [Restaurants -> 0..MaxPins]
    /\ {selected, callout} \subseteq Restaurants \cup {None}
    /\ handler # None => handler \in Handlers /\ IsSuffix(handler.rows, handler.answer)
    /\ restaurantList \in Seq(Restaurants) /\ displayed \in Seq(Restaurants)
    /\ restaurantTable \subseteq Restaurants \cap Insertable
    /\ moves \in 0..MaxMoves /\ launches \in 1..MaxLaunches

\* The callout is the one of the selected pin, which is still on the map, and
\* every selected pin has one, except a pin at (0, 0): the two delegate
\* methods that maintain curCalloutAnnotation compare coordinates, and a
\* missing callout compares like one at (0, 0).
CalloutOfSelection ==
    /\ selected # None => pins[selected] > 0
    /\ callout # None => callout = selected
    /\ selected # None /\ callout = None => Position[selected] = 0

\* A row opens the restaurant it shows: the table view keeps the rows of its
\* last reloadData while the list is emptied and filled in place, by another
\* city, by rows the session stored meanwhile or by a memory warning, and a
\* touch reads the list by its index (SearchTargetByLocationTVC).
RowsOpenWhatTheyShow ==
    \A i \in DOMAIN displayed \cap DOMAIN restaurantList : restaurantList[i] = displayed[i]

\* A process adds to the table a beginning of one answer, the first with a
\* message it got, and nothing else: later regions never get in (bTest).
StoredByFirstAnswer ==
    \E n \in 0..Len(firstAnswer) :
        restaurantTable = atLaunch \cup ToSet(SubSeq(firstAnswer, 1, n))

\* While the search screen is shown its list has restaurants of the chosen
\* city only, each of them once and in order (viewWillAppear of the list).
ListIsOfCity ==
    top = "search" => \A i \in DOMAIN displayed :
                        /\ City[displayed[i]] = city
                        /\ i > 1 => displayed[i - 1] < displayed[i]

\* SearchTargetByMapVC.m:131 says of the notification for an answer "post the
\* message to mapView to show the annotoations": an answer that arrives while
\* the search screen is shown gets its pins.
AnswersAreShown ==
    [][handler # None /\ handler' = None /\ top = "search" /\ launches' = launches
         => \A r \in ToSet(handler.answer) : pins'[r] > pins[r]]_vars
=============================================================================
