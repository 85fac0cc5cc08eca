# terminalOrder: specifications

TLA+ specifications of the restaurant terminal (`src/iOS_version_order/terminalOrder`, Objective-C)
and of its service (`src/aws_serverlessbase`, a Java Lambda function behind API Gateway, over
DynamoDB). In this text `O/` is the directory of the app and `J/` is
`src/aws_serverlessbase/src/main/java/com/awsserverless/apigatelambda/`.

Run `tlc -config X.cfg MCY` for a model, `tlapm ZProofs.tla` for a proof.

## 1. The system

| component | state | operations | meets |
|---|---|---|---|
| Order history (`O/OrderHistoryData`) | draft order, list of orders, property list file | fill the draft, save (delete file, append, empty draft, write), load at launch | ordering screens |
| Ordering screens (`O/SearchVC`, `O/OrderDishesTVC`, `O/MenuDishSelectedTVC`, `O/SetupOrderInfoVC`) | navigation stack, selection (twice), Done button, order mode (one flag in `UserConfigurationData`) | open a restaurant, show a dish, Select, setup form, Done, Back with an alert and a deferred pop, change of tab, tap on the selected tab | history through a shared dictionary, each other through a notification |
| Dish menu (`O/OrderDishesTVC`, `O/UserDataManager`) | lists of the screen, set of restaurants taken for stored | download, convert, store, read back, price | service, SQLite, main queue |
| SQLite access (`O/DBManager`) | one database file, one static handle | create table, insert rows one by one, query | menu, map |
| Map search (`O/SearchVC`, `O/SearchTargetByMapVC`) | pins, callout, observers of two notifications, "is the first answer stored" | region changes, answers, select, deselect, flip | service, SQLite, `SearchVC` |
| Location search (`O/SearchTargetByLocationTVC`, `O/SelectTargetTVC`, `O/SelectedLocationTVC`) | list of the city, names by section, nation, state and city in the singleton | choose, list, open | SQLite, singleton |
| User configuration (`O/UserConfigurationData`, `O/BaseVC`, `O/DisclaimerVC`, the setting screens with `O/LocationList`) | singleton, its file | first run, edit, save, load, quit | location search, order mode |
| User service (`J/requestaction/PostUser`, `GetSpecifiedUserRequest`, `J/datamodel/user`) | user table | load, modify, save; get | DynamoDB |
| Router and gateway (`J/RequestRouter`, `swagger.yaml`) | none | dispatch by class name, exceptions to statuses | all handlers |
| Restaurant, menu and city services (five handlers of `J/requestaction`, three DAOs) | their tables, of which one is written | a paged scan, a load or a save per request | DynamoDB |

What makes it hard to test: the app keeps state in four places (screens, process-wide singletons,
files, SQLite) that are updated by different handlers; blocks deferred to the main queue and
download handlers on the session's queue run after the screen they belong to has changed; files are
replaced by deleting them first; Objective-C collections share the objects they hold; the service
loads and saves in two steps in concurrent processes. `PROJECT.json` lists the hazards line by line.

What makes each part correct:

* history: no order is lost or repeated in memory; the file is never an old one; a restart finds
  everything or nothing; what is saved is what was placed;
* screens: the two copies of the selection agree; the first selection in a restaurant asks for the
  setup form, so no order mode is left from the restaurant before; an order that was begun can be
  finished; an order carries the latest setup form;
* menu: a screen shows and prices its own restaurant; an order costs what the menu says; the
  database holds a beginning of the menu;
* map and list: a row opens the restaurant it shows; the callout is that of the selected pin; an
  answer is shown; only the first answer is stored; the list is of the chosen city;
* location: only places with restaurants can be chosen, and the row touched is the one selected;
* configuration: what a user completed is never lost, and memory agrees with the file;
* service: a post takes effect at one instant, a list is complete, a stored restaurant stays, and a
  failure looks like one.

## 2. Modules

| module | what it is | extends, uses |
|---|---|---|
| `OrderHistory` | the singleton, its list of references and its file; actions used by the screens | |
| `OrderFlow` | the ordering screens composed with the history: the core of the app | `OrderHistory`, `HistoryLog` |
| `HistoryLog` | what the history promises: a log that restarts keep entirely or not at all | |
| `OrderFlowProofs` | the theorems on `OrderFlow` | `OrderFlow`, TLAPS |
| `DishMenu` | download, storage, reading back and pricing of a menu | |
| `DishMenuProofs` | the theorems on `DishMenu` | `DishMenu`, TLAPS |
| `DBHandle` | the one static handle of the database, call by call, used by two queues | `RowStore` |
| `RowStore` | what the tables promise: rows in order, once, without gaps, until the rest is given up | |
| `DBHandleProofs` | the theorems on `DBHandle` | `DBHandle`, TLAPS |
| `UserStore` | requests for users, DAO steps, answers | `UserRegister` |
| `UserRegister` | what the user table promises: one atomic register per device | |
| `UserStoreProofs` | the theorems on `UserStore` | `UserStore`, TLAPS |
| `MapSearch` | the search screen with its map and its list | |
| `MapSearchProofs` | the theorems on `MapSearch` | `MapSearch`, TLAPS |
| `UserConfigurationData` | the singleton and its file: operators used by the next two | |
| `FirstRun` | disclaimer, settings, launches, configuration tab | `UserConfigurationData` |
| `FirstRunProofs` | the theorems on `FirstRun` | `FirstRun`, TLAPS |
| `SectionIndex` | sorting and sectioning of names, as functions | |
| `DishSections` | sections and rows of the dishes table, as functions | `SectionIndex` |
| `LocationChoice` | the choice of nation, state and city | `UserConfigurationData`, `SectionIndex` |
| `LocationChoiceProofs` | the theorems on `LocationChoice`, `SectionIndex` and `DishSections` | `LocationChoice`, `MCSectionIndex`, TLAPS |
| `RestaurantService` | requests for restaurants, menus and cities | |
| `RestaurantServiceProofs` | the theorems on `RestaurantService` | `RestaurantService`, TLAPS |
| `MCOrderFlow`, `MCDishMenu`, `MCDBHandle`, `MCUserStore`, `MCMapSearch`, `MCLocationChoice`, `MCRestaurantService` | values for TLC | |
| `MCSectionIndex` | a list and a menu that grow, to run the functions on every short one | `DishSections` |

A definition named "Mutant" in its comment is not part of any specification: it is the definition
after it with a plausible bug, and shows that the property it is listed with can fail.

### OrderHistory and OrderFlow

A dictionary of the history has eight keys (`O/NetResource.h:41-48`). Four are always written
together by the setup form and four by the dishes screen, so a dictionary is `[setup, order]`, each
group absent (`None`) or a value. `writeModificationintoLocalFile` adds the draft to the list *by
reference*: a list entry is the reference `Draft` or a dictionary read from the file, and `Deref`
says what a reader sees. Deleting and writing the file are two actions, because the process can be
killed between them (`Relaunch` is enabled everywhere); no other handler can run in between
(`Idle`). A write the system refuses leaves no file, as the code ignores the result.

`top` is the screen on top of the stack, whose shape is fixed: search - dishes - detail - setup.
`visit` numbers the dishes screens of a launch and stands for their restaurant. Pushing, popping
and the calls of `viewWillAppear:` that follow are UIKit's, marked external. Every user event is
one action: `OpenRestaurant` (a pin or row of the search screen, `SearchVC prepareForSegue`),
`ShowDish`, `ClickSelected`, `ClickSetupDone`, `NavigateBack`, `PopToRoot`, `ReturnToTab`,
`ClickBack`, `AnswerNo`, `AnswerYes`, `ClickDone` with `FinishDone`. `RunPopBlock` is the block that YES
enqueues: it runs later, when anything may be on top, and pops that screen as long as its own
dishes screen still has a navigation controller. `PopToRoot` is a tap on the tab that is selected: the
tab bar (`Main.storyboard`, BaseVC) stays visible above the screens, and UIKit pops them all without
a call of their handlers, so that order mode may still be on at the search screen; `OpenRestaurant`
turns it off. A setup form completed with a number out of range
only raises an alert and is not a step.

Four variables only observe: `started`, `setups`, `loaded`, `placed`. No guard other than the
bounds reads them.

### DishMenu

Rows are `[id, rest, dish, price]`. The dishes screen pushed last is `visit`; `requests` counts the
downloads in flight per screen, since a request keeps its screen alive after it was popped.
`MenuArrives` is the completion handler on the session's queue; it enqueues a block; `StartBlock`
converts the rows for the block's own screen; `InsertRow` is one INSERT; `InsertFails` the first
INSERT that fails for its text or its key, `InsertRefused` one that the connection refuses
(SQLITE_BUSY from the session's queue, a closed handle, a file that did not open, a refused
CREATE), any row at any time; both end the loop. `FinishBlock` marks the restaurant as stored,
whatever the insertion returned. Between these steps the process can be killed, but no user event
can run (`Idle`), as they are one block of the main queue. `Appear` has three forms: the rows of a
restaurant taken for stored are shown (`ShowStored`), the query for them is refused and there are
none (`QueryRefused`), or the menu is downloaded (`Download`). `NoMenuArrives` is the branch of the
handler for an empty menu or an error message, in which `addObject:nil` raises. The branch compares
ids, but a menu with rows has rows of the restaurant asked for only, as the service filters by it
(`DynamoDBDishDataDAO.java:38-43`), so no answer with rows takes it. `Convert` keeps the branch of
`convertNetworkdata2SortedDictionary` that never refills an empty list. The INSERT text is
abstracted to whether it is valid SQL (`Insertable`).

`disturbed` only observes: the restaurants one of whose insertions was refused or cut short by a
kill, or one of whose queries was refused, in this launch or an earlier one. How refusals come
about, call by call, is the subject of `DBHandle`.

The file of `UserDataManager` has no writer in the code, so a new process starts with no restaurant
taken for stored.

### DBHandle and RowStore

One action is one SQLite call: `OpenForInsert`, `Create`, `InsertRow`, `Close` for
`insertArray:IntoTable:WithPrimaryKey:`, and `OpenForQuery`, `Prepare`, `StepAndFinalize` for
`executeQuery:`. The `...Refused` actions are their error paths; `OpenFails` is that of both
methods. `db` is the static variable, which every call reads anew, so that an access may go on with
the connection the other queue opened, or close it. A handle is an address and may be given out again
after it was closed. A call is refused when its statement is not valid, when its handle is closed, or
while the other queue is at work (`Busy`: SQLITE_BUSY, as no timeout is set). A call on a closed
handle is undefined: either it is refused or the process ends, which `Relaunch` covers. Each call is
atomic: the library is taken to be built thread-safe, as it is on the platform. Not modelled: an
error that lasts while a query is stepped through, on which `executeQuery:` would loop for ever. The
handle that a failed open returns is as good as none (`None`): every later call on it is refused.

`overlapped` and `before` only observe: whether the last access began while the other queue was at
work, and what was open then. `RowStore` is what readers may rely on in any case.

### UserStore

Each client has at most one request in work, in a process of its own. `Accept` and `Reject` are the
router and the checks of the handlers, `Load` and `Save` the two accesses of the mapper, `Reply`
the answer. The mapper has no configuration, so its reads are eventually consistent: `lagging` holds
the replaced items that a load may still return, until `CatchUp`. `StoreFails` is an exception of the
mapper at any point, also after the item was written. `Trim` is given as a function, so that ids that
differ only in blanks exist. The status is derived as `swagger.yaml` does: `BAD.*` is 400, `INT.*`
500 and anything else 200. None of the modelled paths throws `InternalErrorException` (only an
unreadable request stream does). `UserRegister` is what clients can rely on: a post takes effect at
one instant, a get sees one user as it was posted, possibly one just replaced.

### RestaurantService

The five other handlers in the same style. Each path of the gateway has its own set of requests
(`ListRequests` to `MapRequests`), each search its condition (`GetRestMenuByRestID`,
`SearchRestaurantByCity`, `SearchRestaurantByMap`) and its reply. `ReadPage` is one page of the scan that
`PaginatedScanList` makes when `toJson` walks over it, or the load of one key; `lagging` holds the
keys a read may still miss. A save takes a key nobody has (`@DynamoDBAutoGeneratedKey`). The tables
of cities and dishes are never written by the code, so a search is one step. `settledBefore` and
`stored` only observe. A position is one coordinate, because latitude and longitude are compared
alike. Who goes past the gateway may leave out the action or the body (`StrayRequests`,
`BodylessRequests`): `fromJson` makes null of a missing body, which three handlers refuse as bad, a
menu is asked of a null object, and the JSON value null is no object and raises in the router.

### MapSearch

`requests` counts the requests in flight per region; `handler` is the completion handler at work on
the session's queue, one at a time: it inserts the rows of the first answer one by one (`InsertRow`)
while the main queue goes on, then posts the answer to the map (`PostAnswer`). `observing` and
`listening` are the two registrations with the notification center. MapKit's part is written into
`SelectPin` and `DeselectPin`: the selected pin is deselected before another is selected; the
delegate methods are `DidDeselect` (which opens the restaurant) and `DidSelect` (which moves the map
and so asks for a region). So a restaurant is opened by the end of its selection: a touch of another
pin, or of an empty place, opens the one that was selected before. `restaurantList` and `displayed` are the list's data and the rows its
table has, which a memory warning separates. Creating the table succeeds when the answer has a
first row to name its columns (`TableCreated`) and the connection does not refuse it; any INSERT and
any query can be refused (`InsertOrStop`, `QueryRefused`). That the statement built from them is valid SQL is
assumed, although it ends in a comma if the enumeration of the row's keys ends with the primary key. Restaurants are numbers in the order of their names, and
`OrderByName` is the ORDER BY of the list's query.

### UserConfigurationData, FirstRun, LocationChoice, SectionIndex

`userData` is the singleton, `localFile` its file. Saving deletes and writes in two steps
(`SettingsDone`, `FinishSettings`) between which only a kill can come. `tagsMutable` says whether
`arrTags` holds a mutable array: what a property list or a setter declared `copy` leaves there is
not. An exception ends the process, so its action is a new launch (`TypesDoneRaises`, `RowRaises`,
`OpenEmptyChoice`, `ShowConfigurationRaises`). `FirstRun` has one action for each button or row of
the setting screens, and `PublishComment` for the button that overwrites the singleton's name;
`LocationChoice` one for each touch of the two screens of the search tab, and for leaving them by
their buttons, another tab (`ReturnFromTab`, `ShowConfiguration`) or their own (`PopToRoot`).
`LocationChoice` keeps apart the dictionary of names, the order in which `allKeys` enumerates it
(any) and the rows last reloaded (`shown`), which is older when the screen reappears. `SectionIndex`
translates `bubbleSort` and `convertArraytoDictionary`; a name is a number of two digits, since only
the first letter and the order of names matter. `Pass` is the inner loop of the sort, and `InOrder`
stands for what Foundation and SQLite do when they are asked for an order (the keys of a screen, the
ORDER BY of a query): the members of a set as a sequence in that order.

`DishSections` translates what `OrderDishesTVC` answers to its table view: the number of sections
counts every type of the menu, names and rows only those in `sortedArr`, so that the last
sections of a menu with an unknown type are empty. `Only` is the counting loop over `sortedArr`.

## 3. Runs

| run | question | bounds |
|---|---|---|
| `order_flow` | are screens, order mode, draft, list and file consistent, is the history a log, and does an order that is given up end? | 2 dishes, 2 visits, 2 setup forms, 2 orders, 2 pending pops |
| `saved_order_keys` | is a complete order saved with its keys? (no) | 1 order |
| `dish_menu` | does a screen stay with its restaurant, is a fixed menu priced exactly, what survives kills, bad rows and an empty menu, and does a menu that arrived get stored? | 3 restaurants: a row that cannot be stored, a dish twice, a menu that changes to and from nothing; 2 visits, each with any number of reappearances, 2 downloads outstanding, 2 launches |
| `db_handle` | is a serial access safe, who leaves connections open, and what do the tables promise when two queues overlap? | 3 connections, 5 rows of which one is not valid, 5 arrays |
| `user_store` | are two-step accesses a register? | 2 clients, ids "d", "" and " ", 2 users that differ in every attribute |
| `restaurant_service` | is a paged list complete beside posts, and does a refused post store nothing? | 2 clients, 2 keys, 1 type, symmetry in clients and keys; one restaurant on the border of the region |
| `map_search` | what is opened, shown, stored and listed under all interleavings? | 3 restaurants, of which two are at one place and one at (0, 0), 2 regions that overlap, 3 region changes a launch, 2 pins of a restaurant, 2 launches |
| `map_answers` | does an answer get its pins? (no) | as above |
| `section_index` | do the rows show each name once, in order, for every short list, and are the dishes of known types shown once? | lists of up to 5 of 5 names, with one letter in both cases; menus of up to 5 dishes of 3 known and 2 unknown types |
| `location_choice` | can only existing places be chosen? | 5 places in 2 nations, 2 files, 2 launches |
| `row_touched` | is the touched row selected? (no) | as above |
| `first_run` | is a completed configuration kept? | 3 launches, 2 names, 2 types, 1 typed text or none, 1 place chosen a launch |

Why the bounds are enough: two visits are needed for a draft, a deferred pop or a download to meet
a screen other than its own, and two setup forms and two orders for a form to be used twice or
forgotten; a third adds no new pair. Two dishes screens can be of one restaurant or of two, so that
answers arrive for a screen that is gone, or early. The second launch meets the partial menu
of the first; another finds the same table again. `MCNumbers` has a number on either side of the
accepted range. Prices are powers of two, so a sum tells which rows it contains. Two clients are
enough for a lost update. Three connections let a leaked one, a closed one that is given out again and one in use
exist at a time, and be exhausted.

For the map, two launches let a second answer meet the table of a first; a pin at (0, 0) is
among the restaurants, as a missing callout compares like one, and two pins at one place, which the
delegate methods cannot tell apart. A list of five names can leave a
letter and would show its return. A menu of up to five dishes can
leave out any of the three types that dishes have, and mix in two that the app does not know. Of the places, two share nation and state, two cities share a
letter, and a saved place has no restaurants.

The `dish_menu` run switches the deadlock check off because every behaviour ends when the bounds on
visits, downloads and launches are used up; so does `FirstRun` (launches and places) and
`MCSectionIndex` (the list is full). The other specifications have no dead ends: a kill, a touch or
a new request is always possible.

The prices are only claimed for restaurants whose menu does not change during the run (`Steady`): rows are inserted once and never updated, so after a change old and new prices
alternate, and nothing in the repository says which is meant. `PriceExact` and `CachedMeansStored` hold
for restaurants that are not `disturbed`: the code looks at the result of no insertion, so after a
refusal by the connection, or a kill in the middle of an insertion and a new start, a restaurant is
taken for stored although its later rows never get in. What then is left is said by
`StoredIsPrefix` and `NeverOvercharged`, which hold in any case.

Fairness is stated where the system, not a user, takes the step: the main queue is a serial FIFO queue
that runs what was enqueued, and a loop that has started goes on. In `OrderFlow` that is `RunPopBlock`
and the end of a save (`FinishDone`), in `DishMenu` the blocks and their loop (`StartBlock`, `InsertRow`,
`InsertFails`, `FinishBlock`), each with weak fairness, since nothing but its own step, a refusal in its
place or the end of the process disables it for good. The refusal itself (`InsertRefused`) is not fair:
it may happen, it need not. Hence `BackEndsOrder` (after YES, order mode ends or the
process does) and `ArrivedGetsCached` (a menu that arrived is stored and its restaurant remembered,
whatever has become of its screen). Touches, answers of the service, memory warnings and kills are
not fair: users may stop, a download may never be answered and nobody repeats it. So nothing is
claimed to happen on the screens by itself, nor at the service, where a process that answers nothing
is ended by its time limit.

## 4. Findings

Each is a run with a counterexample:

1. `SavedOrdersHaveTheirKeys`: `OrderHistoryData.m:59-60` adds the draft to the list by reference
   and then empties it, so each order of a launch is saved as an empty dictionary.
2. `AnswersAreShown`: `SearchTargetByMapVC.m:76` removes the map's observer each time the map
   disappears; only `viewDidLoad` adds it.
3. `TouchedIsSelected`: `SelectedLocationTVC.m:166` looks up in unsorted keys what line 156 shows by
   sorted ones.

Seen while modelling and part of the models, but without a run of their own:

* a tap on the selected tab leaves a restaurant with order mode on (`PopToRoot`), which nothing reads
  until the next restaurant is opened and turns it off;
* a touch of a second pin, or of an empty place of the map, opens the restaurant of the pin selected
  before (`SearchTargetByMapVC.m:167-178`, `DidDeselect`);
* a restaurant is taken for stored although the connection refused its rows
  (`OrderDishesTVC.m:57-58`, `InsertRefused`), and its screen then stays without them;
* a memory warning removes the observer that opens restaurants (`SearchVC.m:85`, `MemoryWarning`);
* types cannot be chosen twice: `CustomizedTypeTVC.m:29` empties an array that the setter declared
  `copy` has made immutable (`TypesDoneRaises`);
* publishing a comment sets the singleton's name to "bohan" (`PopoverCommentVC.m:34`,
  `PublishComment`), which stays until the file is read again;
* dishes of a type the app does not know are never shown (`NameOfSection`), so they cannot be
  ordered;
* an unexpected exception is answered with 200, the gateway's default (`StatusOf`);
* `PostUser` stores under the id as sent, `GetSpecifiedUserRequest` trims it (`Key`);
* `GetRestuarantList.java:41-47` answers a request for one restaurant with a list (`ListReply`),
  where `swagger.yaml:113` says "A restuarant".

## 5. Proofs

Assumptions: the named ASSUMEs of the modules, which TLC evaluates in the runs. They say that
bounds and numbers of guests are naturals, `None` and its like are none of the values they stand in
for, `Trim` maps ids to ids, users are functions on the attributes; a menu has distinct keys and
only rows of its restaurant, since the table generates the keys; prices are natural numbers; a
restaurant, a name and the parts of a place are numbers, which stand for their order; there are
finitely many restaurants. Nothing is assumed about how many dishes, rows, connections, clients, keys, users,
regions or launches there are.

`OrderFlowProofs`:

* `TypeCorrect`, `DiskMirrorsMemoryAlways`: the inductive invariant `TypeInv` is `TypeOK` with what
  the types do not say: outside the search screen there is a visit, a detail screen has a dish, while
  the history is being written there is no file and the draft has its order keys (`WritingInv`), the
  list is bounded, and `DiskMirrorsMemory`. Everything below uses it.
* `SelectionMirroredAlways`, `OrderCanBeFinishedAlways`: their conjunction `ScreenInv` is inductive
  beside `TypeInv`.
* `FirstSelectAsksForSetupAlways`: from `StartedInv` below, since order mode that is on anywhere but on
  the search screen implies that the visit is started.
* `HistoryCompleteAlways`: `CountInv`, the length of the list is what was loaded plus what was placed.
* `HistoryIsLogAlways`: each step is a step of `HistoryLog` or leaves its variables as they are.
* `OrderTakesLatestSetupAlways`: `SetupInv` adds which form the draft has (`DraftSetup`) and that
  placed orders have earlier ones (`PlacedBefore`).
* `PlacedWasStartedAlways`: `StartedInv` adds that order mode, or an enabled button anywhere but on
  the search screen, implies that this visit was started, and so does a draft being written for the
  draft's visit.

`UserStoreProofs`: `TypeCorrect`, and `IsRegisterAlways`, the refinement of `UserRegister`: a post
takes effect with its save, a get with its load, whatever replica it reads. The lemma the argument
rests on is `ModifiedIsUser`: the saved item does not depend on the retrieved one, since all
attributes are set. The inductive invariant (`CallInv`) says what a request in work has passed.

`FirstRunProofs`: `ConfigurationKeptAlways`, `MemoryMatchesFileAlways` (the name in memory is the
file's or the comments' signature, the rest is the file's). The inductive invariant has
both, the fields of singleton and file, and what each screen may be on top of (`ScreenOK`): the
settings can only be reached without a file, so there is none to lose while they are saved.

In the same module `TypeCorrect` and `TagsDistinctAlways`: a tag that is appended was not there and a
tag that is removed leaves distinct ones (lemmas on `Append` and `RemoveAt`).

`RestaurantServiceProofs`: `TypeCorrect`, `ListCompleteAlways`, `BadRequestsStoreNothingAlways`.
The heart is `ScanInv`: every key that was settled when the request came has been found or is left
to be read; with nothing left, the list has them all (`AnswerInv` keeps that after the answer).
`PhaseInv` says that a post between save and reply has its key.

`DBHandleProofs`: `TypeCorrect`, `SerialUseIsSafeAlways`, `OnlyQueriesLeakAlways`, `IsRowStoreAlways`.
A statement is only stepped through while its connection is open, because `sqlite3_close` refuses a
connection with a statement; the type invariant says so and is inductive. The inductive invariant of
the rest says, of an access that is alone, that the other queue is idle and that at most `db` is open
besides what was open before (`OneAtWork`), and that rows are left only while a queue stores
(`ArraysAtWork`).

`DishMenuProofs`: `TypeCorrect`, `MenuOfRestaurantAlways`, `StoredIsPrefixAlways`,
`CachedMeansStoredAlways`, as parts of one inductive invariant, `TableInv`. A menu in the queue is a
whole menu of its restaurant (`QueueWhole`), the rows a running block has left are an end of one
(`BlockOwn`, `BlockSuffix`), and the rows before that end are in the table up to the first that
cannot be, unless the restaurant is `disturbed` (`NeverCut`), which makes the table a
beginning of each fixed menu.

In the same module `PriceExactAlways` and `NeverOverchargedAlways`. Both follow from `ShownInv`, which
is inductive together with the invariants above: the rows of the screen's list are rows of the menu,
each once, and all of them if the menu is intact (`SameRows`). The price is a sum
over the rows of the list, in the order of the list, and the true price one over the rows of the menu;
`AnyOrder` shows that a sum does not depend on the order in which the elements are taken, `SameSum`
that two sets of rows in a one-to-one relation cost the same, and `SmallerSum` that a part costs no
more than the whole.

`MapSearchProofs`: `CalloutOfSelectionAlways`, `RowsOpenWhatTheyShowAlways` from `PinInv` (the callout
is that of the selected pin; the list is the one displayed, or empty), and `StoredByFirstAnswerAlways` from
`StoreInv` (the table is what the process found and the first rows of its first answer, and what a
handler has still to insert are the rows after these; a handler of a later answer inserts nothing).
`TypeCorrect` needs one fact more than the types (`TypeInv`): no more requests are in flight than
regions were asked for. `ListIsOfCityAlways` follows from `ListInv`: a list that is not empty is the
one displayed. Both need that the query has an answer at all, that is, that a finite set of
restaurants can be put in the order of their names (`OrderByNameOrders`).

`LocationChoiceProofs`, on the functions first, each for lists and menus of any length:

* `BubbleSortSorts`: the result has the same names, each as often, in order. After pass i the last i
  places hold their final names and nothing before them is larger (`PassSorts`), because a pass
  carries the largest name it meets to its end (`PassCarries`).
* `RowsAreTheNamesAlways`: in a sorted list the names of a letter are one run, so that
  `convertArraytoDictionary` never stores a letter twice. The loop keeps that the dictionary has the
  sections of what was read before the run in work (`NextNameCuts`, `StoreLastCuts`), and the rows,
  section after section, count each name as often as the list (`SectionRows`).
* `RowsAreDishesAlways`: the dictionary has for each type its dishes in the order of the menu
  (`SortedByType`); the sections with a name are the known types the menu uses, in the order of
  `sortedArr` (`OnlyPicks`, `SortedArrIs`), there are enough sections for them (`EnoughSections`), and
  the sections after them add no rows (`FlattenAny`).

Then on the screens: `TypeCorrect`, `ChosenCityExistsAlways`, `OfferedExistAlways`, all from `IInv`.
It says of the two configurations that their places are known names (`ConfigurationsOK`), of the
screen what it may be on top of (`ScreenOK`), of the table that it is finite (`TableOK`), that the
dictionary was made from names the table still has for the nation and state chosen so far
(`DictionaryOffers`), and `ChosenCityExists` itself. The names on offer are those of the dictionary, by the
lemmas above; that the user may touch a row in one place and select another (finding 3) does not
matter, as both are offered.

The functions of the folds are recursive, and the provers cannot instantiate the library's induction
theorems, whose parameter is an operator. What is proved about them goes round that: `Induct` derives
induction on the natural numbers, for a *set* of numbers, from the fact that they are well ordered
(`NatLessThanWellFounded` with `WFMin`, which have no such parameter), and `Recursion` shows by
it that the function which a fold chooses exists and satisfies its equations.

Model-checked only: liveness (`BackEndsOrder`, `ArrivedGetsCached`), which these provers do not reach.
Every invariant and every action property of a passing run is stated by a theorem.

The findings are violations and need no proof.

## 6. Plan

In the order of their importance, all written: `OrderHistory` and `OrderFlow` (T), `DishMenu` (T),
`UserStore` (T), `RestaurantService` (T), `DBHandle` (T), `MapSearch` (T), `FirstRun` (T),
`LocationChoice` with `SectionIndex` and `DishSections` (T); (T) marks modules with theorems.

One composition was planned and dropped: `OrderFlow` with `DishMenu`. They meet in one value, the
price that Done puts into the draft, which `DishMenu` computes from the lists at the moment of
the touch and `OrderFlow` treats as part of an order; `MenuOfRestaurant` and `PriceExact` hold
for every selection the screen offers, hence also for the one that is ordered. Neither module
reads anything else of the other, and the product has far more states than TLC can visit.

What would come next if the code grew: the price in the history once
`SavedOrdersHaveTheirKeys` holds, and a lock around the handle of `DBManager`, for which `DBHandle`
without `overlapped` is the specification.

## 7. Not modelled

* The list of comments and the pictures of the detail screen: they live and end with that screen, are
  only displayed, and nothing else reads them. What publishing a comment does to the user's name is
  in `FirstRun`.
* Cells and views: layout.
* Abandoned screens: `StartingConfigurationViewController` and `UserConfigurationSettingVC` are not in
  the storyboard any more; `LocationVC` is, but no code performs its segue and it only sorts a
  fixed list of words; `HistoryTableViewController` is a tab with the empty template: it reads no
  history.
* The generated client `MIA*`: getters, setters and JSON names; the app talks to the
  service through `NetResource`.
* Vendored frameworks (`AWSCore.framework` and others): they come as headers that declare an
  interface without an implementation, and only the unused generated client calls them. They make up
  nearly all header lines of the repository, so a count of lines that includes them says little
  about how much of the program is modelled.
* `arrRestaurantList` and the writers of the file of `UserDataManager`: no caller.
* `insertArray:IntoTable:`: called at `OrderDishesTVC.m:64` only, for an answer without a menu. Without
  a first row its CREATE is refused and no INSERT follows; the next line ends the process
  (`NoMenuArrives`).
* Names that are empty and dishes without a type: `substringWithRange:` (`SelectedLocationTVC.m:52,55`)
  and `setObject:forKey:` (`OrderDishesTVC.m:189`) raise for them. The functions of `SectionIndex` and
  `DishSections` are for lists and menus without such entries.
