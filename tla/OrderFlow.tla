----------------------------- MODULE OrderFlow ------------------------------
(***************************************************************************)
(* Ordering dishes: the navigation stack                                   *)
(*     SearchVC - OrderDishesTVC - MenuDishSelectedTVC - SetupOrderInfoVC  *)
(* the order-mode flag the screens share through UserConfigurationData,    *)
(* the selection they keep in step through a notification, and the draft   *)
(* order they hand to OrderHistory.                                        *)
(*                                                                         *)
(* Screens of one launch are told apart by a visit number: the n-th        *)
(* OrderDishesTVC pushed is visit n (it stands for its restID, restName).  *)
(* A handler runs on the main queue to its end; only a block it enqueues   *)
(* (popBlocks) and a kill of the process can come between two of them.     *)
(***************************************************************************)
EXTENDS OrderHistory

CONSTANTS
    Dishes,      \* dishes a menu offers
    Numbers,     \* what can be typed as the number of guests
    MaxVisits,   \* bound: restaurants opened in one launch
    MaxSetups,   \* bound: setup forms completed in one launch
    MaxOrders,   \* bound: orders in the history
    MaxBlocks    \* bound: pop blocks waiting in the main queue

ASSUME OrderFlowAssumption ==
    /\ Numbers \subseteq Nat
    /\ MaxVisits \in Nat
    /\ MaxSetups \in Nat
    /\ MaxOrders \in Nat
    /\ MaxBlocks \in Nat

VARIABLES
    top,                  \* the screen on top of the navigation stack
    visit,                \* the OrderDishesTVC pushed last (0: none yet)
    selectedDishesList,   \* its selection
    btnBarDone,           \* is its Done button enabled
    dish,                 \* the dish the detail screen shows
    bSelected,            \* the detail screen's own idea of its selection
    bOrderModel,          \* UserConfigurationData: an order is in progress
    alert,                \* visit whose "delete the selected dishes" alert is up
    popBlocks,            \* visits whose deferred pop waits in the main queue
    started,              \* observed: visits in which Select was tapped
    setups,               \* observed: setup forms completed in this launch
    loaded,               \* observed: orders read from the file at launch
    placed                \* observed: the drafts saved in this launch

screenVars == <<top, visit, selectedDishesList, btnBarDone, dish, bSelected>>
orderVars == <<bOrderModel, alert, popBlocks>>
observedVars == <<started, setups, loaded, placed>>
vars == <<historyVars, screenVars, orderVars, observedVars>>

\* Mutant: the lower bound is off by one.
ValidNumbersFromZero == {n \in Numbers : n <= 10}

ValidNumbers == {n \in Numbers : n >= 1 /\ n <= 10}

SetupInfo == [id : 1..MaxSetups, number : 1..10]
OrderInfo == [visit : 1..MaxVisits, dishes : SUBSET Dishes]
Dict == [setup : SetupInfo \cup {None}, order : OrderInfo \cup {None}]
\* None is not a group of keys.
ASSUME NoneAssumption == None \notin SetupInfo /\ None \notin OrderInfo

PlacedOrder == [content : Dict, latest : 0..MaxSetups]

\* A user event reaches a screen: no handler is running, no alert is up.
Idle == ~writing /\ alert = 0

Toggle(S, x) == IF x \in S THEN S \ {x} ELSE S \cup {x}

Init ==
    /\ HistoryInit
    /\ top = "search"
    /\ visit = 0
    /\ selectedDishesList = {}
    /\ btnBarDone = FALSE
    /\ dish = None
    /\ bSelected = FALSE
    /\ bOrderModel = FALSE
    /\ alert = 0
    /\ popBlocks = <<>>
    /\ started = {}
    /\ setups = 0
    /\ loaded = 0
    /\ placed = <<>>

\* Popping s uncovers the screen below; the root of the stack stays.
Below(s) == IF s = "setup" THEN "detail"
            ELSE IF s = "detail" THEN "dishes" ELSE "search"

\* OrderDishesTVC viewWillAppear: the only place the button is refreshed.
RefreshDone(mode) == btnBarDone' = mode

\* Mutant: the button is set once and not refreshed when the screen reappears.
PopScreenWithoutRefresh(s, mode) == top' = Below(s) /\ UNCHANGED btnBarDone

\* UIKit pops s; the dishes screen, when uncovered, is told it will appear.
PopScreen(s, mode) ==
    /\ top' = Below(s)
    /\ IF Below(s) = "dishes" THEN RefreshDone(mode) ELSE UNCHANGED btnBarDone

-----------------------------------------------------------------------------
\* Mutant: a restaurant is opened in whatever mode the last one was left.
OpenRestaurantKeepsMode ==
    /\ Idle
    /\ top = "search"
    /\ visit < MaxVisits
    /\ visit' = visit + 1
    /\ selectedDishesList' = {}
    /\ RefreshDone(bOrderModel)
    /\ top' = "dishes"
    /\ UNCHANGED <<dish, bSelected, orderVars, historyVars, observedVars>>

\* SearchVC: a restaurant is chosen, order mode is reset, a screen is pushed.
OpenRestaurant ==
    /\ Idle
    /\ top = "search"
    /\ visit < MaxVisits
    /\ bOrderModel' = FALSE
    /\ visit' = visit + 1
    /\ selectedDishesList' = {}
    /\ RefreshDone(FALSE)
    /\ top' = "dishes"
    /\ UNCHANGED <<dish, bSelected, alert, popBlocks, historyVars, observedVars>>

\* Mutant: the detail screen is not told that its dish is already selected.
ShowDishUnselected(d) ==
    /\ Idle
    /\ top = "dishes"
    /\ top' = "detail"
    /\ dish' = d
    /\ bSelected' = FALSE
    /\ UNCHANGED <<visit, selectedDishesList, btnBarDone>>
    /\ UNCHANGED <<historyVars, orderVars, observedVars>>

\* A row of the dishes screen is tapped.
ShowDish(d) ==
    /\ Idle
    /\ top = "dishes"
    /\ top' = "detail"
    /\ dish' = d
    /\ bSelected' = (d \in selectedDishesList)
    /\ UNCHANGED <<visit, selectedDishesList, btnBarDone>>
    /\ UNCHANGED <<historyVars, orderVars, observedVars>>

\* Select/Cancel of the detail screen: the notification reaches the dishes
\* screen synchronously; outside order mode the setup form is pushed.
ClickSelected ==
    /\ Idle
    /\ top = "detail"
    /\ bSelected' = ~bSelected
    /\ selectedDishesList' = Toggle(selectedDishesList, dish)
    /\ bOrderModel' = TRUE
    /\ top' = IF bOrderModel THEN "detail" ELSE "setup"
    /\ started' = started \cup {visit}
    /\ UNCHANGED <<visit, btnBarDone, dish, alert, popBlocks>>
    /\ UNCHANGED <<historyVars, setups, loaded, placed>>

\* Done of the setup form, with a number of guests it accepts; any other
\* number only raises an alert.
ClickSetupDone(n) ==
    /\ Idle
    /\ top = "setup"
    /\ n \in ValidNumbers
    /\ setups < MaxSetups
    /\ setups' = setups + 1
    /\ SetupDraft([id |-> setups', number |-> n])
    /\ PopScreen("setup", bOrderModel)
    /\ UNCHANGED <<orderHistoryList, localFile, writing, orderVars>>
    /\ UNCHANGED <<visit, selectedDishesList, dish, bSelected>>
    /\ UNCHANGED <<started, loaded, placed>>

\* The system back button of the detail screen and of the setup form.
NavigateBack ==
    /\ Idle
    /\ top \in {"detail", "setup"}
    /\ PopScreen(top, bOrderModel)
    /\ UNCHANGED <<visit, selectedDishesList, dish, bSelected>>
    /\ UNCHANGED <<historyVars, orderVars, observedVars>>

\* The tab bar stays below every screen of the stack.  A tap on its selected
\* tab makes UIKit pop to the search screen: no code of the screens runs, so
\* nothing asks for the order in progress and order mode stays as it is.
PopToRoot ==
    /\ Idle
    /\ top # "search"
    /\ top' = "search"
    /\ UNCHANGED <<visit, selectedDishesList, btnBarDone, dish, bSelected>>
    /\ UNCHANGED <<historyVars, orderVars, observedVars>>

\* The user leaves for another tab and returns to the dishes screen.
ReturnToTab ==
    /\ Idle
    /\ top = "dishes"
    /\ RefreshDone(bOrderModel)
    /\ UNCHANGED <<top, visit, selectedDishesList, dish, bSelected>>
    /\ UNCHANGED <<historyVars, orderVars, observedVars>>

\* Back of the dishes screen: asks first when an order is in progress.
ClickBack ==
    /\ Idle
    /\ top = "dishes"
    /\ IF bOrderModel
       THEN alert' = visit /\ UNCHANGED <<top, btnBarDone>>
       ELSE PopScreen("dishes", FALSE) /\ UNCHANGED alert
    /\ UNCHANGED <<visit, selectedDishesList, dish, bSelected>>
    /\ UNCHANGED <<bOrderModel, popBlocks, historyVars, observedVars>>

AnswerNo ==
    /\ alert # 0
    /\ alert' = 0
    /\ UNCHANGED <<bOrderModel, popBlocks, screenVars, historyVars, observedVars>>

\* YES only enqueues the pop: other events may be handled before it runs.
AnswerYes ==
    /\ alert # 0
    /\ Len(popBlocks) < MaxBlocks
    /\ alert' = 0
    /\ popBlocks' = Append(popBlocks, alert)
    /\ UNCHANGED <<bOrderModel, screenVars, historyVars, observedVars>>

\* Mutant: the block waits until the alert has gone.
RunPopBlockWhenIdle ==
    /\ Idle
    /\ popBlocks # <<>>
    /\ popBlocks' = Tail(popBlocks)
    /\ bOrderModel' = FALSE
    /\ IF top # "search" /\ Head(popBlocks) = visit
       THEN PopScreen(top, FALSE)
       ELSE UNCHANGED <<top, btnBarDone>>
    /\ UNCHANGED <<visit, selectedDishesList, dish, bSelected, alert>>
    /\ UNCHANGED <<historyVars, observedVars>>

\* The enqueued block ends order mode and pops whatever is on top, provided
\* its own dishes screen still belongs to the navigation controller.
RunPopBlock ==
    /\ ~writing
    /\ popBlocks # <<>>
    /\ popBlocks' = Tail(popBlocks)
    /\ bOrderModel' = FALSE
    /\ IF top # "search" /\ Head(popBlocks) = visit
       THEN PopScreen(top, FALSE)
       ELSE UNCHANGED <<top, btnBarDone>>
    /\ UNCHANGED <<visit, selectedDishesList, dish, bSelected, alert>>
    /\ UNCHANGED <<historyVars, observedVars>>

\* Mutant: Done is accepted whether or not its button is enabled.
ClickDoneAlways ==
    /\ Idle
    /\ top = "dishes"
    /\ Len(orderHistoryList) < MaxOrders
    /\ bOrderModel' = FALSE
    /\ FillDraft([visit |-> visit, dishes |-> selectedDishesList])
    /\ DeleteInfoLocalFile
    /\ UNCHANGED <<orderHistoryList, screenVars, alert, popBlocks, observedVars>>

\* Done of the dishes screen, up to the deletion of the old file.
ClickDone ==
    /\ Idle
    /\ top = "dishes"
    /\ btnBarDone
    /\ Len(orderHistoryList) < MaxOrders
    /\ bOrderModel' = FALSE
    /\ FillDraft([visit |-> visit, dishes |-> selectedDishesList])
    /\ DeleteInfoLocalFile
    /\ UNCHANGED <<orderHistoryList, screenVars, alert, popBlocks, observedVars>>

\* The rest of Done.  The screen stays, and so does its enabled button.
FinishDone(accepted) ==
    /\ WriteLocalFile(accepted)
    /\ placed' = Append(placed, [content |-> curOrdrtDic, latest |-> setups])
    /\ UNCHANGED <<screenVars, orderVars, started, setups, loaded>>

\* The process is killed and the app launched again.
Relaunch ==
    /\ SetupInstancefromLocalFile
    /\ top' = "search"
    /\ visit' = 0
    /\ selectedDishesList' = {}
    /\ btnBarDone' = FALSE
    /\ dish' = None
    /\ bSelected' = FALSE
    /\ bOrderModel' = FALSE
    /\ alert' = 0
    /\ popBlocks' = <<>>
    /\ started' = {}
    /\ setups' = 0
    /\ loaded' = Len(orderHistoryList')
    /\ placed' = <<>>

Next ==
    \/ OpenRestaurant
    \/ \E d \in Dishes : ShowDish(d)
    \/ ClickSelected
    \/ \E n \in Numbers : ClickSetupDone(n)
    \/ NavigateBack
    \/ PopToRoot
    \/ ReturnToTab
    \/ ClickBack
    \/ AnswerNo
    \/ AnswerYes
    \/ RunPopBlock
    \/ ClickDone
    \/ \E accepted \in BOOLEAN : FinishDone(accepted)
    \/ Relaunch

Spec == Init /\ [][Next]_vars

\* A handler that has begun goes on, and the main queue runs its blocks; what
\* the user does, or the system to the process, is not to be relied on.
FairSpec == Spec /\ WF_vars(RunPopBlock) /\ WF_vars(\E accepted \in BOOLEAN : FinishDone(accepted))

-----------------------------------------------------------------------------
HistoryTypeOK ==
    /\ curOrdrtDic \in Dict
    /\ orderHistoryList \in Seq(Dict \cup {Draft})
    /\ localFile \in Seq(Dict) \cup {None}
    /\ writing \in BOOLEAN

ScreenTypeOK ==
    /\ top \in {"search", "dishes", "detail", "setup"}
    /\ visit \in 0..MaxVisits
    /\ selectedDishesList \in SUBSET Dishes
    /\ btnBarDone \in BOOLEAN
    /\ dish \in Dishes \cup {None}
    /\ bSelected \in BOOLEAN
    /\ bOrderModel \in BOOLEAN
    /\ alert \in 0..MaxVisits
    /\ popBlocks \in Seq(1..MaxVisits)

ObservedTypeOK ==
    /\ started \in SUBSET (1..MaxVisits)
    /\ setups \in 0..MaxSetups
    /\ loaded \in 0..MaxOrders
    /\ placed \in Seq(PlacedOrder)

\* Type invariant.  The number of guests of a draft or of a placed order is
\* one SetupOrderInfoVC accepts, whatever can be typed.
TypeOK == HistoryTypeOK /\ ScreenTypeOK /\ ObservedTypeOK

\* The detail screen and the dishes screen hold the selection twice and
\* toggle each copy: as long as a detail screen is on the stack, its flag says
\* whether its dish is in the selection of the dishes screen below it.
SelectionMirrored ==
    top \in {"detail", "setup"} => (bSelected <=> dish \in selectedDishesList)

\* Order mode is a flag of the process, not of a screen.  The alert, the
\* deferred pop and Done end it, a pop to the root leaves it on.  Still the
\* first Select in every restaurant asks for the number of guests: the mode
\* of one restaurant never carries over into the next.
FirstSelectAsksForSetup ==
    [][(visit \in started' \ started) => (top' = "setup")]_vars

\* While an order is in progress the dishes screen offers to finish it, though
\* its button is refreshed only when the screen appears.
OrderCanBeFinished == top = "dishes" /\ bOrderModel => btnBarDone

\* The YES of the alert ends the order in progress in the end, whatever screen
\* or alert the user has brought up before the block runs.
BackEndsOrder == popBlocks # <<>> ~> ~bOrderModel

\* No order is placed for a restaurant in whose visit nothing was ever
\* selected, although the button survives Done, alerts and tab switches.
PlacedWasStarted ==
    \A i \in DOMAIN placed : placed[i].content.order.visit \in started

\* The draft outlives the visit it was set up in.  A placed order carries the
\* latest setup form completed in this launch, and no form serves two orders:
\* an order without one follows an order that used the latest.
OrderTakesLatestSetup ==
    \A i \in DOMAIN placed :
        LET setup == placed[i].content.setup
            latest == placed[i].latest
        IN IF setup # None
           THEN /\ setup.id = latest
                /\ \A j \in 1..(i - 1) : placed[j].latest < latest
           ELSE latest # 0 => \E j \in 1..(i - 1) : placed[j].latest = latest

\* Between two handlers the history in memory counts what was loaded and
\* everything placed since, whether or not the file could be written.
HistoryComplete == ~writing => Len(orderHistoryList) = loaded + Len(placed)

\* When there is a file it is never a stale one: it has as many orders as the
\* list in memory, also in the middle of Done.
DiskMirrorsMemory ==
    localFile # None => Len(localFile) = Len(orderHistoryList)

\* The history keeps its promise: it grows by one order at a time, and a
\* restart, even one in the middle of Done, finds all of it or nothing.
HL == INSTANCE HistoryLog WITH log <- Len(orderHistoryList),
                               intact <- (localFile # None)
HistoryIsLog == HL!Spec

\* NetResource.h lists the eight keys of a dictionary of the order history.
\* When every order of this launch was placed with both groups of keys, so is
\* every order found in the file.
SavedOrdersHaveTheirKeys ==
    /\ localFile # None
    /\ loaded = 0
    /\ \A i \in DOMAIN placed : placed[i].content.setup # None
    => \A i \in DOMAIN localFile :
           localFile[i].setup # None /\ localFile[i].order # None
=============================================================================
