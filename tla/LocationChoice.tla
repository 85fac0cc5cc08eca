--------------------------- MODULE LocationChoice ---------------------------
(***************************************************************************)
(* The choice of the place to search: SelectTargetTVC with its rows for    *)
(* nation, state and city, and SelectedLocationTVC, which offers what the  *)
(* table restaurantlist has for one of them, in sections.                  *)
(*                                                                         *)
(* The choice is written to the singleton only, never to the file; the     *)
(* configuration tab loads the file over it (FirstRun).  The table grows   *)
(* at any time, as the map stores what it downloads (MapSearch).           *)
(***************************************************************************)
EXTENDS UserConfigurationData, SectionIndex

CONSTANTS
    Places,        \* what rows of the table may have: [nation, state, city]
    SavedPlaces,   \* what a configuration file may have
    MaxLaunches    \* bound: launches of the app

ASSUME LocationChoiceAssumption ==
    /\ Places \subseteq [nation : Nat, state : Nat, city : Nat]
    /\ MaxLaunches \in Nat \ {0}

VARIABLES
    top,               \* "list" (of SearchVC), "target" or "choose"
    nType,             \* what SelectedLocationTVC chooses: 0 nation, 1 state, 2 city
    sortedDic,         \* its names by section
    allKeys,           \* the keys of sortedDic as allKeys enumerates them
    shown,             \* the names on screen by section, as they were last reloaded
    restaurantTable,   \* the places of the table's rows; survives the process
    launches,
    chosen             \* observed: the row touched last, [nType, row], or None

dataVars == <<sortedDic, allKeys>>
screenVars == <<top, nType, dataVars, shown>>
vars == <<configVars, screenVars, restaurantTable, launches, chosen>>

Field(t) == <<"nation", "state", "city">>[t + 1]

\* The configuration of a file that has place p.
Configuration(p) ==
    [NoConfiguration EXCEPT !.nation = p.nation, !.state = p.state, !.city = p.city]

Init ==
    /\ localFile \in {None} \cup {Configuration(p) : p \in SavedPlaces}
    /\ bFirst = (localFile = None)
    /\ tagsMutable = (localFile = None)
    /\ userData = IF localFile = None THEN NoConfiguration ELSE localFile
    /\ restaurantTable = {}
    /\ top = "list" /\ nType = 0 /\ sortedDic = << >> /\ allKeys = << >> /\ shown = << >>
    /\ launches = 1
    /\ chosen = None

-----------------------------------------------------------------------------
\* Mutant: the cities of a nation, of whatever state.
SearchDataBaseWithoutState(t, data) ==
    {p[Field(t)] : p \in {p \in restaurantTable : t >= 1 => p.nation = data.nation}}

\* searchDataBase: the names for a nation, a state or a city.  No row has an
\* empty one (Places): the first letter of an empty name raises.
SearchDataBase(t, data) ==
    {p[Field(t)] : p \in {p \in restaurantTable : /\ t >= 1 => p.nation = data.nation
                                                  /\ t = 2 => p.state = data.state}}

\* An exception ends the process; the app is started again.
NewProcess ==
    /\ launches < MaxLaunches
    /\ launches' = launches + 1
    /\ GetInfofromLocalFile(localFile)
    /\ top' = "list" /\ nType' = 0 /\ sortedDic' = << >> /\ allKeys' = << >> /\ shown' = << >>
    /\ chosen' = None
    /\ UNCHANGED <<localFile, restaurantTable>>

\* The answer to its query, in ascending order.
OrderedNames(names) == InOrder(names, <)

\* viewWillAppear of SelectedLocationTVC, if there is a name to show.  The
\* order in which a dictionary enumerates its keys is not specified.
Display(names) ==
    /\ names # {}
    /\ sortedDic' = ConvertArraytoDictionary(OrderedNames(names))
    /\ allKeys' \in SetToSeqs(DOMAIN sortedDic')

\* reloadData: sections in the order of their sorted keys.
ReloadData(dic) ==
    LET keys == SortKeys(dic)
    IN  shown' = [s \in DOMAIN keys |-> dic[keys[s]]]

\* Row 0 of the list pushes SelectTargetTVC.
OpenTarget ==
    /\ top = "list"
    /\ top' = "target"
    /\ UNCHANGED <<configVars, nType, dataVars, shown, restaurantTable, launches, chosen>>

\* SelectTargetTVC.didSelectRowAtIndexPath: a state needs a nation, a city
\* both.  The strings it shows are those of the singleton, taken when it
\* appears; nothing changes them while it is on top.
MayChoose(t) ==
    /\ t >= 1 => userData.nation # None
    /\ t = 2 => userData.state # None

OpenChoice ==
    /\ top = "target"
    /\ \E t \in 0..2 : /\ MayChoose(t)
                       /\ nType' = t
                       /\ Display(SearchDataBase(t, userData))
    /\ ReloadData(sortedDic')
    /\ top' = "choose"
    /\ UNCHANGED <<configVars, restaurantTable, launches, chosen>>

\* The same, with nothing to offer: objectAtIndex: 0 raises.  A query that is
\* refused offers nothing either, on any appearance: Relaunch.
OpenEmptyChoice ==
    /\ top = "target"
    /\ \E t \in 0..2 : MayChoose(t) /\ SearchDataBase(t, userData) = {}
    /\ NewProcess

\* Mutant: the title of the section is taken for the name.
RowTitle(section, row) == allKeys[section]

\* The value didSelectRowAtIndexPath takes: section counts in allKeys, not in
\* the sorted keys that the screen shows.
RowValue(section, row) == sortedDic[allKeys[section]][row]

\* The rows on screen, and those of them for which that value exists.
ShownRows == UNION {{<<s, r>> : r \in DOMAIN shown[s]} : s \in DOMAIN shown}

RowsWithValue ==
    {sr \in ShownRows : sr[1] \in DOMAIN allKeys /\ sr[2] \in DOMAIN sortedDic[allKeys[sr[1]]]}

SelectRow ==
    /\ top = "choose"
    /\ \E sr \in RowsWithValue :
         /\ SetField(Field(nType), RowValue(sr[1], sr[2]))
         /\ chosen' = [nType |-> nType, row |-> shown[sr[1]][sr[2]]]
    /\ ReloadData(sortedDic)
    /\ UNCHANGED <<bFirst, localFile, top, nType, dataVars, restaurantTable, launches>>

\* A row without a value: objectAtIndex: raises when the row is touched, or
\* earlier, as soon as the table displays it and asks for its checkmark
\* (accessoryTypeForRow: at once, or when it is scrolled to).
RowRaises ==
    /\ top = "choose"
    /\ ShownRows # RowsWithValue
    /\ NewProcess

NavigateBack ==
    /\ top # "list"
    /\ top' = IF top = "choose" THEN "target" ELSE "list"
    /\ UNCHANGED <<configVars, nType, dataVars, shown, restaurantTable, launches, chosen>>

\* A tap on the tab that is selected already pops to the search screen.
PopToRoot ==
    /\ top = "choose"
    /\ top' = "list"
    /\ UNCHANGED <<configVars, nType, dataVars, shown, restaurantTable, launches, chosen>>

-----------------------------------------------------------------------------
\* Mutant: a screen that appears again has what it had.
ReappearAsBefore(data) == UNCHANGED dataVars

\* viewWillAppear of the screen on top, when its tab is shown again.  It
\* fetches the names but does not reload the rows.
Reappear(data) ==
    IF top = "choose"
    THEN Display(SearchDataBase(nType, data))
    ELSE UNCHANGED dataVars

\* To another tab that loads nothing, and back.
ReturnFromTab ==
    /\ top # "list"
    /\ Reappear(userData)
    /\ UNCHANGED <<configVars, top, nType, shown, restaurantTable, launches, chosen>>

\* To the configuration tab, whose viewWillAppear loads the file, and back.
ShowConfiguration ==
    /\ localFile # None
    /\ GetInfofromLocalFile(localFile)
    /\ Reappear(localFile)
    /\ chosen' = None
    /\ UNCHANGED <<localFile, top, nType, shown, restaurantTable, launches>>

\* The same, if the place of the file leaves nothing to choose.
ShowConfigurationRaises ==
    /\ localFile # None /\ top = "choose"
    /\ SearchDataBase(nType, localFile) = {}
    /\ NewProcess

\* The map stores a row (MapSearch InsertRow).
StoreRestaurant ==
    /\ \E p \in Places \ restaurantTable : restaurantTable' = restaurantTable \cup {p}
    /\ UNCHANGED <<configVars, screenVars, launches, chosen>>

Relaunch == NewProcess

Next ==
    \/ OpenTarget \/ OpenChoice \/ OpenEmptyChoice
    \/ SelectRow \/ RowRaises \/ NavigateBack \/ PopToRoot
    \/ ReturnFromTab \/ ShowConfiguration \/ ShowConfigurationRaises
    \/ StoreRestaurant \/ Relaunch

Spec == Init /\ [][Next]_vars

-----------------------------------------------------------------------------
AllNames == UNION {{p.nation, p.state, p.city} : p \in Places \cup SavedPlaces}

\* Types; allKeys enumerates each section once.
TypeOK ==
    /\ \A t \in 0..2 : userData[Field(t)] \in AllNames \cup {None}
    /\ top \in {"list", "target", "choose"} /\ nType \in 0..2
    /\ IsInjective(allKeys) /\ ToSet(allKeys) = DOMAIN sortedDic
    /\ top = "choose" => sortedDic # << >> /\ shown # << >>
    /\ restaurantTable \subseteq Places
    /\ launches \in 1..MaxLaunches

\* A user whose last choice was a city has chosen a place with restaurants:
\* nation and state are those the cities were offered for, whatever was
\* chosen, reloaded and stored before, and so the list of SearchVC
\* (SearchTargetByLocationTVC) is not empty.
ChosenCityExists ==
    chosen # None /\ chosen.nType = 2 =>
        [nation |-> userData.nation, state |-> userData.state, city |-> userData.city]
            \in restaurantTable

\* Each name that touching a row can select belongs to a stored restaurant of
\* the nation and the state the singleton has now, also after the
\* configuration tab replaced them while the screen was covered: the rows may
\* be old then, but not the dictionary they are looked up in (viewWillAppear).
OfferedExist ==
    top = "choose" =>
        \A n \in ToSet(DisplayedRows(sortedDic)) :
            \E p \in restaurantTable :
                /\ p[Field(nType)] = n
                /\ nType >= 1 => p.nation = userData.nation
                /\ nType = 2 => p.state = userData.state

\* SelectTargetTVC.m:62-68 calls the rows "Select Nation", "Select State" and
\* "Select City": the row a user touches is the one that gets selected.
TouchedIsSelected ==
    chosen # None => userData[Field(chosen.nType)] = chosen.row
=============================================================================
