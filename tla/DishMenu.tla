------------------------------ MODULE DishMenu ------------------------------
(***************************************************************************)
(* The menu of a dishes screen (OrderDishesTVC): downloaded once per       *)
(* launch and restaurant, stored row by row by DBManager, and read back    *)
(* from the database every time the screen appears again.                  *)
(*                                                                         *)
(* Three queues meet here: the main queue runs the screens and the blocks  *)
(* of mainQueue, the session's queue runs the completion handlers, and the *)
(* service answers when it likes, in any order, or not at all.             *)
(*                                                                         *)
(* A row of a menu is [id, rest, dish, price]; id is dishIDAutoGenerated,  *)
(* the primary key.  Prices are whole numbers.  An INSERT is built by      *)
(* pasting values together: Insertable names the rows for which the text   *)
(* is valid SQL (an apostrophe, or a list-valued key that comes last, make *)
(* it invalid; so does a table whose CREATE has an invalid text).          *)
(*                                                                         *)
(* The session's queue also stores the restaurants of the map, on the same *)
(* handle and into the same file.  Here that is a refusal at any time: any *)
(* INSERT and any query may fail because the file is locked, the handle    *)
(* was closed, or no connection could be opened.  DBHandle models the      *)
(* calls of the two queues one by one and says when that happens.          *)
(***************************************************************************)
EXTENDS Naturals, SequencesExt

CONSTANTS
    Restaurants,
    Menus,         \* Menus[r]: the menus restaurant r may have at the service
    Insertable,    \* ids of the rows whose INSERT statement is valid
    None,          \* no dishList yet, no block running
    MaxVisits,     \* bound: dishes screens pushed in one launch
    MaxRequests,   \* bound: downloads in flight or waiting for the main queue
    MaxLaunches    \* bound: launches of the app

\* A menu as the service returns it: distinct keys, all rows of the restaurant
\* asked for (its scan has the condition RestID = :restid).
IsMenu(m, r) == \A i \in DOMAIN m : /\ m[i].rest = r
                                    /\ \A j \in DOMAIN m : m[i].id = m[j].id => i = j

Rows == UNION {{m[i] : i \in DOMAIN m} : m \in UNION {Menus[r] : r \in Restaurants}}

\* The keys of dishes are the table's, not the restaurant's; prices are whole.
ASSUME DishMenuAssumption ==
    /\ None \notin Restaurants
    /\ \A r \in Restaurants : Menus[r] \subseteq Seq(Rows) /\ \A m \in Menus[r] : IsMenu(m, r)
    /\ \A row, other \in Rows : row.id = other.id => row.rest = other.rest
    /\ \A row \in Rows : row.price \in Nat
    /\ MaxVisits \in Nat /\ MaxRequests \in Nat /\ MaxLaunches \in Nat \ {0}

VARIABLES
    serverMenu,            \* the menus at the service
    dishtable,             \* rows of the database table; survives the process
    arrDishListByRestID,   \* restaurants the app believes it has stored
    visit,                 \* the dishes screen pushed last
    onScreen,              \* is that screen still on the navigation stack
    restID,                \* restID of every screen pushed in this launch
    dishList,              \* array of rows the price is computed from, or nil: None
    sortedDic,             \* rows the table view offers
    requests,              \* downloads in flight, by screen
    mainQueue,             \* blocks enqueued by completion handlers
    block,                 \* the block the main queue is running, or None
    launches,
    offered,               \* observed: rows this screen has offered so far
    disturbed              \* observed: restaurants whose rows an insertion that was
                           \* refused or killed did not try, or a query did not get

memoryVars == <<arrDishListByRestID, visit, onScreen, restID, dishList, sortedDic,
                requests, mainQueue, block, offered>>
vars == <<serverMenu, dishtable, launches, disturbed, memoryVars>>

Visits == 1..MaxVisits

\* A block of the main queue: the screen it is of, the rows still to insert.
Blocks == [visit : Visits, rows : Seq(Rows)]

ASSUME NoneAssumption == None \notin Blocks /\ None \notin Seq(Rows)

Stored(r) == {row \in dishtable : row.rest = r}

\* The state of a process that has just started.
FreshMemory ==
    [cached |-> {}, rest |-> [v \in Visits |-> None], flights |-> [v \in Visits |-> 0]]

Init ==
    /\ serverMenu \in [Restaurants -> UNION {Menus[r] : r \in Restaurants}]
    /\ \A r \in Restaurants : serverMenu[r] \in Menus[r]
    /\ dishtable = {}
    /\ launches = 1
    /\ arrDishListByRestID = FreshMemory.cached
    /\ visit = 0
    /\ onScreen = FALSE
    /\ restID = FreshMemory.rest
    /\ dishList = None
    /\ sortedDic = {}
    /\ requests = FreshMemory.flights
    /\ mainQueue = <<>>
    /\ block = None
    /\ offered = {}
    /\ disturbed = {}

-----------------------------------------------------------------------------
\* Mutant: the rows of the last conversion stay in the list.
ConvertAdds(list, src) == IF list = None THEN src ELSE list \o src

\* convertNetworkdata2SortedDictionary, for the list: the first conversion
\* takes the rows, a later one replaces them unless the list is empty.
Convert(list, src) == IF list = <<>> THEN <<>> ELSE src

\* Mutant: every row counts, whether or not its dish is selected.
OrderPriceOfAll(list, selected) ==
    IF list = None THEN 0 ELSE FoldSeq(LAMBDA row, sum : sum + row.price, 0, list)

\* onClickDone: each selected dish adds the price of every row that bears it.
OrderPrice(list, selected) ==
    IF list = None THEN 0
    ELSE FoldSeq(LAMBDA row, sum : IF row.dish \in selected THEN sum + row.price ELSE sum,
                 0, list)

\* Mutant: the query forgets the restaurant.
QueryAll(r) == SetToSeq(dishtable)

\* searchDishListByRestID; the order of the rows is the database's.
Query(r) == SetToSeq(Stored(r))

\* The rows src become the content of the current screen.
Display(list, src) ==
    /\ dishList' = Convert(list, src)
    /\ sortedDic' = ToSet(src)
    /\ offered' = (IF list = None THEN {} ELSE offered) \cup ToSet(src)

\* The restaurant is stored: its rows are the content.
ShowStored(r, list) ==
    /\ r \in arrDishListByRestID
    /\ Display(list, Query(r))
    /\ UNCHANGED <<requests, disturbed>>

\* It is, but the query is refused: executeQuery answers without a row.
QueryRefused(r, list) ==
    /\ r \in arrDishListByRestID
    /\ Display(list, <<>>)
    /\ disturbed' = disturbed \cup {r}
    /\ UNCHANGED requests

\* It is not: the menu is downloaded (again), the content stays.
Download(v, r, list) ==
    /\ r \notin arrDishListByRestID
    /\ requests' = [requests EXCEPT ![v] = @ + 1]
    /\ dishList' = list
    /\ IF list = None THEN sortedDic' = {} /\ offered' = {}
                      ELSE UNCHANGED <<sortedDic, offered>>
    /\ UNCHANGED disturbed

\* viewWillAppear of screen v.
Appear(v, r, list) == ShowStored(r, list) \/ QueryRefused(r, list) \/ Download(v, r, list)

\* The main queue is free for a user event.
Idle == block = None

Outstanding == MapThenSumSet(LAMBDA v : requests[v], Visits) + Len(mainQueue)

\* SearchVC pushes a dishes screen for restaurant r.
OpenDishes(r) ==
    /\ Idle
    /\ ~onScreen
    /\ visit < MaxVisits
    /\ Outstanding < MaxRequests
    /\ visit' = visit + 1
    /\ onScreen' = TRUE
    /\ restID' = [restID EXCEPT ![visit'] = r]
    /\ Appear(visit', r, None)
    /\ UNCHANGED <<serverMenu, dishtable, launches, arrDishListByRestID,
                   mainQueue, block>>

\* The user returns to the screen from a detail screen or from another tab.
Reappear ==
    /\ Idle
    /\ onScreen
    /\ Outstanding < MaxRequests
    /\ Appear(visit, restID[visit], dishList)
    /\ UNCHANGED <<serverMenu, dishtable, launches, arrDishListByRestID, visit,
                   onScreen, restID, mainQueue, block>>

\* The screen is popped and takes its lists with it; its requests keep the
\* object alive until they complete, but nobody sees it again.
LeaveDishes ==
    /\ Idle
    /\ onScreen
    /\ onScreen' = FALSE
    /\ dishList' = None
    /\ sortedDic' = {}
    /\ offered' = {}
    /\ UNCHANGED <<serverMenu, dishtable, disturbed, launches,
                   arrDishListByRestID, visit, restID, requests, mainQueue,
                   block>>

\* A transport error: the completion handler does nothing, nobody retries.
RequestFails(v) ==
    /\ requests[v] > 0
    /\ requests' = [requests EXCEPT ![v] = @ - 1]
    /\ UNCHANGED <<serverMenu, dishtable, disturbed, launches,
                   arrDishListByRestID, visit, onScreen, restID, dishList,
                   sortedDic, mainQueue, block, offered>>

\* Mutant: the restaurant counts as stored when its menu has only arrived.
MenuArrivesCached(v) ==
    /\ requests[v] > 0
    /\ serverMenu[restID[v]] # <<>>
    /\ requests' = [requests EXCEPT ![v] = @ - 1]
    /\ mainQueue' = Append(mainQueue, [visit |-> v, rows |-> serverMenu[restID[v]]])
    /\ arrDishListByRestID' = arrDishListByRestID \cup {restID[v]}
    /\ UNCHANGED <<serverMenu, dishtable, disturbed, launches, visit, onScreen,
                   restID, dishList, sortedDic, block, offered>>

\* A menu arrives on the session's queue; its first row is of the restaurant
\* asked for, so the rest is left to a block on the main queue.
MenuArrives(v) ==
    /\ requests[v] > 0
    /\ serverMenu[restID[v]] # <<>>
    /\ requests' = [requests EXCEPT ![v] = @ - 1]
    /\ mainQueue' = Append(mainQueue, [visit |-> v, rows |-> serverMenu[restID[v]]])
    /\ UNCHANGED <<serverMenu, dishtable, disturbed, launches,
                   arrDishListByRestID, visit, onScreen, restID, dishList,
                   sortedDic, block, offered>>

\* Mutant: the block holds its screen weakly, and ends when it is gone.
StartBlockWhenShown ==
    /\ Idle
    /\ mainQueue # <<>>
    /\ mainQueue' = Tail(mainQueue)
    /\ IF onScreen /\ Head(mainQueue).visit = visit
       THEN block' = Head(mainQueue) /\ Display(dishList, Head(mainQueue).rows)
       ELSE UNCHANGED <<block, dishList, sortedDic, offered>>
    /\ UNCHANGED <<serverMenu, dishtable, disturbed, launches,
                   arrDishListByRestID, visit, onScreen, restID, requests>>

\* The block converts the rows for its own screen, which may be gone by now.
StartBlock ==
    /\ Idle
    /\ mainQueue # <<>>
    /\ mainQueue' = Tail(mainQueue)
    /\ block' = Head(mainQueue)
    /\ IF onScreen /\ Head(mainQueue).visit = visit
       THEN Display(dishList, Head(mainQueue).rows)
       ELSE UNCHANGED <<dishList, sortedDic, offered>>
    /\ UNCHANGED <<serverMenu, dishtable, disturbed, launches,
                   arrDishListByRestID, visit, onScreen, restID, requests>>

CanInsert(row) ==
    /\ row.id \in Insertable
    /\ \A old \in dishtable : old.id # row.id

\* One INSERT of insertArray:IntoTable:WithPrimaryKey:.
InsertRow ==
    /\ block # None
    /\ block.rows # <<>>
    /\ CanInsert(Head(block.rows))
    /\ dishtable' = dishtable \cup {Head(block.rows)}
    /\ block' = [block EXCEPT !.rows = Tail(@)]
    /\ UNCHANGED <<serverMenu, disturbed, launches, arrDishListByRestID, visit,
                   onScreen, restID, dishList, sortedDic, requests, mainQueue,
                   offered>>

\* Mutant: a row that cannot be inserted is skipped.
InsertFailsSkips ==
    /\ block # None
    /\ block.rows # <<>>
    /\ ~CanInsert(Head(block.rows))
    /\ block' = [block EXCEPT !.rows = Tail(@)]
    /\ UNCHANGED <<serverMenu, dishtable, disturbed, launches,
                   arrDishListByRestID, visit, onScreen, restID, dishList,
                   sortedDic, requests, mainQueue, offered>>

\* The first INSERT whose text or key is bad ends the loop: the rows after it
\* are not tried.
InsertFails ==
    /\ block # None
    /\ block.rows # <<>>
    /\ ~CanInsert(Head(block.rows))
    /\ block' = [block EXCEPT !.rows = <<>>]
    /\ UNCHANGED <<serverMenu, dishtable, disturbed, launches,
                   arrDishListByRestID, visit, onScreen, restID, dishList,
                   sortedDic, requests, mainQueue, offered>>

\* So does a connection that could not be opened, is closed or is locked out,
\* whatever the row.
InsertRefused ==
    /\ block # None
    /\ block.rows # <<>>
    /\ block' = [block EXCEPT !.rows = <<>>]
    /\ disturbed' = disturbed \cup {restID[block.visit]}
    /\ UNCHANGED <<serverMenu, dishtable, launches, arrDishListByRestID, visit,
                   onScreen, restID, dishList, sortedDic, requests, mainQueue,
                   offered>>

\* The result of the insertion is not looked at.
FinishBlock ==
    /\ block # None
    /\ block.rows = <<>>
    /\ arrDishListByRestID' = arrDishListByRestID \cup {restID[block.visit]}
    /\ block' = None
    /\ UNCHANGED <<serverMenu, dishtable, disturbed, launches, visit, onScreen,
                   restID, dishList, sortedDic, requests, mainQueue, offered>>

\* The restaurant an insertion is at work for has rows left to try.
CutShort == IF block # None /\ block.rows # <<>> THEN {restID[block.visit]} ELSE {}

\* A new process: the database is all that is left.
Relaunch ==
    /\ launches < MaxLaunches
    /\ launches' = launches + 1
    /\ arrDishListByRestID' = FreshMemory.cached
    /\ visit' = 0
    /\ onScreen' = FALSE
    /\ restID' = FreshMemory.rest
    /\ dishList' = None
    /\ sortedDic' = {}
    /\ requests' = FreshMemory.flights
    /\ mainQueue' = <<>>
    /\ block' = None
    /\ offered' = {}
    /\ disturbed' = disturbed \cup CutShort
    /\ UNCHANGED <<serverMenu, dishtable>>

\* Mutant: no restaurant is remembered as the owner of an empty menu.
NoMenuArrivesIgnored(v) ==
    /\ requests[v] > 0
    /\ requests' = [requests EXCEPT ![v] = @ - 1]
    /\ arrDishListByRestID' = arrDishListByRestID \cup {None}
    /\ UNCHANGED <<serverMenu, dishtable, disturbed, launches, visit, onScreen,
                   restID, dishList, sortedDic, mainQueue, block, offered>>

\* An answer without a menu: an empty one, or an error message (the service
\* failed).  There is no first row, so the CREATE TABLE text is invalid, and
\* adding the missing restID to the array raises an exception that ends the
\* process.
NoMenuArrives(v) ==
    /\ requests[v] > 0
    /\ Relaunch

\* The restaurant changes its menu.
ServiceUpdates(r) ==
    /\ \E m \in Menus[r] \ {serverMenu[r]} : serverMenu' = [serverMenu EXCEPT ![r] = m]
    /\ UNCHANGED <<dishtable, disturbed, launches, memoryVars>>

Next ==
    \/ \E r \in Restaurants : OpenDishes(r) \/ ServiceUpdates(r)
    \/ Reappear
    \/ LeaveDishes
    \/ \E v \in Visits : RequestFails(v) \/ MenuArrives(v) \/ NoMenuArrives(v)
    \/ StartBlock
    \/ InsertRow
    \/ InsertFails
    \/ InsertRefused
    \/ FinishBlock
    \/ Relaunch

Spec == Init /\ [][Next]_vars

\* The main queue runs what is enqueued, in order: a block is started when no
\* other handler runs, and the loop of a block that has started goes on.
FairSpec == Spec /\ WF_vars(StartBlock) /\ WF_vars(InsertRow)
                 /\ WF_vars(InsertFails) /\ WF_vars(FinishBlock)

-----------------------------------------------------------------------------
\* Type invariant; a restaurant is never remembered under a missing name.
TypeOK ==
    /\ \A r \in Restaurants : serverMenu[r] \in Menus[r]
    /\ dishtable \in SUBSET Rows
    /\ arrDishListByRestID \in SUBSET Restaurants
    /\ visit \in 0..MaxVisits
    /\ onScreen \in BOOLEAN
    /\ restID \in [Visits -> Restaurants \cup {None}]
    /\ dishList = None \/ dishList \in Seq(Rows)
    /\ sortedDic \in SUBSET Rows
    /\ requests \in [Visits -> Nat]
    /\ mainQueue \in Seq(Blocks)
    /\ block = None \/ block \in Blocks
    /\ launches \in 1..MaxLaunches
    /\ offered \in SUBSET Rows
    /\ disturbed \in SUBSET Restaurants

\* Whatever answers arrive late, for screens long popped, a screen offers and
\* prices dishes of its own restaurant only.
MenuOfRestaurant ==
    onScreen =>
        /\ \A row \in sortedDic : row.rest = restID[visit]
        /\ dishList # None => \A row \in ToSet(dishList) : row.rest = restID[visit]

\* Restaurants whose menu never changes.
Steady == {r \in Restaurants : \A m, n \in Menus[r] : m = n}

OfferedDishes == {row.dish : row \in offered}

\* What the selected dishes cost by the menu of the service.
TruePrice(selected) ==
    LET menu == serverMenu[restID[visit]]
    IN MapThenSumSet(LAMBDA i : menu[i].price,
                     {i \in DOMAIN menu : menu[i].dish \in selected})

\* The restaurant's rows can all be stored, no insertion of them was refused or
\* killed, in this launch or an earlier one, and no query for them was refused.
Intact(r) ==
    /\ r \notin disturbed
    /\ \A i \in DOMAIN serverMenu[r] : serverMenu[r][i].id \in Insertable

\* An order from a menu that stays the same and is intact costs what the menu
\* says, for every selection the screen has let the user make, however often
\* the screen or the process went away and came back.
PriceExact ==
    onScreen /\ restID[visit] \in Steady /\ Intact(restID[visit]) =>
        \A selected \in SUBSET OfferedDishes :
            OrderPrice(dishList, selected) = TruePrice(selected)

\* An order from a menu that stays the same is never too dear, even when rows
\* were lost on the way into the database or out of it, or with the process.
NeverOvercharged ==
    onScreen /\ restID[visit] \in Steady =>
        \A selected \in SUBSET OfferedDishes :
            OrderPrice(dishList, selected) <= TruePrice(selected)

\* Of a menu that stays the same the database holds a beginning, also after a
\* kill between two INSERTs, or when a menu cut short is downloaded again.
StoredIsPrefix ==
    \A r \in Steady :
        \E n \in 0..Len(serverMenu[r]) :
            Stored(r) = {serverMenu[r][i] : i \in 1..n}

\* The flag of a restaurant is set without a look at what the insertion did.
\* Only a refusal by the connection or a kill puts it ahead of the data: a
\* restaurant believed stored, whose menu stays the same and was never cut
\* short, has every row up to the first whose INSERT is invalid, after any
\* repeated downloads and restarts.
CachedMeansStored ==
    \A r \in (arrDishListByRestID \cap Steady) \ disturbed :
        LET menu == serverMenu[r]
        IN \A i \in DOMAIN menu :
               (\A j \in 1..i : menu[j].id \in Insertable) => menu[i] \in dishtable

\* A menu that has reached the app is stored and remembered in the end, even
\* when its screen is gone, unless the process ends first.
ArrivedGetsCached ==
    \A v \in Visits, n \in 1..MaxLaunches :
        (launches = n /\ \E i \in DOMAIN mainQueue : mainQueue[i].visit = v)
            ~> (launches # n \/ restID[v] \in arrDishListByRestID)
=============================================================================
