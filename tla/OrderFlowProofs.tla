-------------------------- MODULE OrderFlowProofs ---------------------------
(***************************************************************************)
(* Proofs about OrderFlow, for every menu, every bound and every set of    *)
(* typed numbers.                                                          *)
(***************************************************************************)
EXTENDS OrderFlow, TLAPS

\* Outside the search screen there is a visit to speak of.
VisitOpen == top # "search" => visit >= 1

\* A detail screen on the stack shows a dish of the menu.
DishShown == top \in {"detail", "setup"} => dish \in Dishes

\* While Done is writing there is no file, the draft has its order keys and
\* the list has room for one more order.
WritingInv ==
    writing => /\ localFile = None
               /\ curOrdrtDic.order # None
               /\ Len(orderHistoryList) < MaxOrders

\* The list never outgrows its bound.
ListBounded == Len(orderHistoryList) <= MaxOrders

\* Type correctness with what it needs to be inductive.
TypeInv ==
    TypeOK /\ VisitOpen /\ DishShown /\ WritingInv /\ ListBounded /\ DiskMirrorsMemory

\* Facts about the data, so that the steps need not expand the sets.
LEMMA EmptyDictType == EmptyDict \in Dict
  BY DEF EmptyDict, Dict

LEMMA SetupDraftType ==
  ASSUME NEW id \in 1..MaxSetups, NEW n \in ValidNumbers
  PROVE  [EmptyDict EXCEPT !.setup = [id |-> id, number |-> n]] \in Dict
  <1>1. n \in 1..10
    BY OrderFlowAssumption DEF ValidNumbers
  <1>2. [id |-> id, number |-> n] \in SetupInfo
    BY <1>1 DEF SetupInfo
  <1>3. QED
    BY <1>2 DEF EmptyDict, Dict

LEMMA FillDraftType ==
  ASSUME NEW d \in Dict, NEW o \in OrderInfo
  PROVE  /\ [d EXCEPT !.order = o] \in Dict
         /\ [d EXCEPT !.order = o].order = o
         /\ [d EXCEPT !.order = o].setup = d.setup
  BY DEF Dict

\* The entries of a file are what the list's entries read as.
LEMMA DerefSeq ==
  ASSUME NEW list \in Seq(Dict \cup {Draft})
  PROVE  LET file == [i \in 1..Len(list) |-> Deref(list[i], EmptyDict)]
         IN file \in Seq(Dict) /\ Len(file) = Len(list)
  <1>1. \A i \in 1..Len(list) : Deref(list[i], EmptyDict) \in Dict
    BY EmptyDictType DEF Deref
  <1>2. QED
    BY <1>1

LEMMA InitTypeInv == Init => TypeInv
  <1> SUFFICES ASSUME Init PROVE TypeInv
    OBVIOUS
  <1>1. HistoryTypeOK
    <2>1. curOrdrtDic \in Dict
      BY EmptyDictType DEF Init, HistoryInit
    <2>2. orderHistoryList \in Seq(Dict \cup {Draft})
      BY DEF Init, HistoryInit
    <2>3. localFile \in Seq(Dict) \cup {None} /\ writing \in BOOLEAN
      BY DEF Init, HistoryInit
    <2>4. QED
      BY <2>1, <2>2, <2>3, Zenon DEF HistoryTypeOK
  <1>2. ScreenTypeOK
    <2>1. /\ top \in {"search", "dishes", "detail", "setup"}
          /\ btnBarDone \in BOOLEAN /\ bSelected \in BOOLEAN
          /\ bOrderModel \in BOOLEAN
      BY DEF Init
    <2>2. dish \in Dishes \cup {None}
      BY DEF Init
    <2>3. visit \in 0..MaxVisits /\ alert \in 0..MaxVisits
      BY OrderFlowAssumption DEF Init
    <2>4. selectedDishesList \in SUBSET Dishes
      BY DEF Init
    <2>5. popBlocks \in Seq(1..MaxVisits)
      BY DEF Init
    <2>6. QED
      BY <2>1, <2>2, <2>3, <2>4, <2>5, Zenon DEF ScreenTypeOK
  <1>3. ObservedTypeOK
    <2>1. started \in SUBSET (1..MaxVisits)
      BY DEF Init
    <2>2. setups \in 0..MaxSetups /\ loaded \in 0..MaxOrders
      BY OrderFlowAssumption DEF Init
    <2>3. placed \in Seq(PlacedOrder)
      BY DEF Init
    <2>4. QED
      BY <2>1, <2>2, <2>3, Zenon DEF ObservedTypeOK
  <1>4. VisitOpen /\ DishShown /\ WritingInv /\ ListBounded /\ DiskMirrorsMemory
    BY OrderFlowAssumption
    DEF Init, HistoryInit, VisitOpen, DishShown, WritingInv, ListBounded,
        DiskMirrorsMemory
  <1>5. QED
    BY <1>1, <1>2, <1>3, <1>4, Zenon DEF TypeInv, TypeOK

LEMMA NextTypeInv == TypeInv /\ [Next]_vars => TypeInv'
  <1> SUFFICES ASSUME TypeInv, [Next]_vars PROVE TypeInv'
    OBVIOUS
  <1> USE OrderFlowAssumption
      DEF TypeInv, TypeOK, HistoryTypeOK, ScreenTypeOK, ObservedTypeOK,
          VisitOpen, DishShown, WritingInv, ListBounded, DiskMirrorsMemory
  <1>1. CASE OpenRestaurant
    <2>1. selectedDishesList' \in SUBSET Dishes
      BY <1>1 DEF OpenRestaurant
    <2>2. /\ top' = "dishes" /\ visit' = visit + 1 /\ visit < MaxVisits
          /\ bOrderModel' = FALSE /\ btnBarDone' = FALSE
          /\ UNCHANGED <<dish, bSelected, alert, popBlocks, historyVars, observedVars>>
      BY <1>1 DEF OpenRestaurant, RefreshDone
    <2>3. ScreenTypeOK'
      <3>1. visit' \in 0..MaxVisits
        BY <2>2
      <3>2. QED
        BY <2>1, <2>2, <3>1
    <2>4. HistoryTypeOK' /\ ObservedTypeOK'
      BY <2>2 DEF historyVars, observedVars
    <2>5. QED
      BY <2>2, <2>3, <2>4 DEF historyVars, observedVars
  <1>2. ASSUME NEW d \in Dishes, ShowDish(d) PROVE TypeInv'
    BY <1>2 DEF ShowDish, Idle, historyVars, orderVars, observedVars
  <1>3. CASE ClickSelected
    <2>1. selectedDishesList' \in SUBSET Dishes
      BY <1>3 DEF ClickSelected, Toggle
    <2>2. QED
      BY <1>3, <2>1 DEF ClickSelected, Idle, historyVars
  <1>4. ASSUME NEW n \in Numbers, ClickSetupDone(n) PROVE TypeInv'
    <2>1. setups' \in 1..MaxSetups
      BY <1>4 DEF ClickSetupDone
    <2>2. curOrdrtDic' \in Dict
      BY <1>4, <2>1, SetupDraftType DEF ClickSetupDone, SetupDraft
    <2>3. QED
      BY <1>4, <2>1, <2>2 DEF ClickSetupDone, Idle, PopScreen, Below, RefreshDone,
                              orderVars
  <1>5. CASE NavigateBack
    BY <1>5 DEF NavigateBack, Idle, PopScreen, Below, RefreshDone, historyVars,
                orderVars, observedVars
  <1>6. CASE ReturnToTab
    BY <1>6 DEF ReturnToTab, Idle, RefreshDone, historyVars, orderVars, observedVars
  <1>7. CASE ClickBack
    BY <1>7 DEF ClickBack, Idle, PopScreen, Below, RefreshDone, historyVars,
                observedVars
  <1>8. CASE AnswerNo
    BY <1>8 DEF AnswerNo, screenVars, historyVars, observedVars
  <1>9. CASE AnswerYes
    <2>1. alert \in 1..MaxVisits
      BY <1>9 DEF AnswerYes
    <2>2. popBlocks' \in Seq(1..MaxVisits)
      BY <1>9, <2>1 DEF AnswerYes
    <2>3. QED
      BY <1>9, <2>2 DEF AnswerYes, screenVars, historyVars, observedVars
  <1>10. CASE RunPopBlock
    <2>1. popBlocks' \in Seq(1..MaxVisits)
      BY <1>10 DEF RunPopBlock
    <2>2. /\ top' \in {"search", "dishes", "detail", "setup"}
          /\ btnBarDone' \in BOOLEAN
      <3>1. CASE top # "search" /\ Head(popBlocks) = visit
        BY <1>10, <3>1 DEF RunPopBlock, PopScreen, Below, RefreshDone
      <3>2. CASE ~(top # "search" /\ Head(popBlocks) = visit)
        BY <1>10, <3>2 DEF RunPopBlock
      <3>3. QED
        BY <3>1, <3>2
    <2>3. top' = top \/ top' = Below(top)
      BY <1>10 DEF RunPopBlock, PopScreen
    <2>4. /\ bOrderModel' = FALSE
          /\ UNCHANGED <<visit, selectedDishesList, dish, bSelected, alert>>
          /\ UNCHANGED <<historyVars, observedVars>>
      BY <1>10 DEF RunPopBlock
    <2>5. ScreenTypeOK'
      BY <2>1, <2>2, <2>4
    <2>6. HistoryTypeOK' /\ ObservedTypeOK'
      BY <2>4 DEF historyVars, observedVars
    <2>7. QED
      BY <2>3, <2>4, <2>5, <2>6 DEF Below, historyVars, observedVars
  <1>11. CASE ClickDone
    <2> DEFINE info == [visit |-> visit, dishes |-> selectedDishesList]
    <2>1. info \in OrderInfo
      BY <1>11 DEF ClickDone, OrderInfo
    <2>2. curOrdrtDic' \in Dict /\ curOrdrtDic'.order = info
      BY <1>11, <2>1, FillDraftType DEF ClickDone, FillDraft
    <2>3. curOrdrtDic'.order # None
      BY <2>1, <2>2, NoneAssumption
    <2>4. QED
      BY <1>11, <2>2, <2>3 DEF ClickDone, DeleteInfoLocalFile, screenVars, observedVars
  <1>12. ASSUME NEW accepted \in BOOLEAN, FinishDone(accepted) PROVE TypeInv'
    <2>1. curOrdrtDic' \in Dict
      BY <1>12, EmptyDictType DEF FinishDone, WriteLocalFile
    <2>2. /\ orderHistoryList' \in Seq(Dict \cup {Draft})
          /\ Len(orderHistoryList') <= MaxOrders
      BY <1>12 DEF FinishDone, WriteLocalFile
    <2>3. /\ localFile' \in Seq(Dict) \cup {None}
          /\ localFile' # None => Len(localFile') = Len(orderHistoryList')
      BY <1>12, <2>2, DerefSeq DEF FinishDone, WriteLocalFile
    <2>4. placed' \in Seq(PlacedOrder)
      BY <1>12 DEF FinishDone, PlacedOrder
    <2>5. QED
      BY <1>12, <2>1, <2>2, <2>3, <2>4
      DEF FinishDone, WriteLocalFile, screenVars, orderVars
  <1>13. CASE Relaunch
    <2>1. /\ orderHistoryList' \in Seq(Dict \cup {Draft})
          /\ Len(orderHistoryList') \in 0..MaxOrders
      BY <1>13 DEF Relaunch, SetupInstancefromLocalFile
    <2>2. /\ selectedDishesList' \in SUBSET Dishes
          /\ started' \in SUBSET (1..MaxVisits)
      BY <1>13 DEF Relaunch
    <2>3. /\ top' = "search" /\ visit' = 0 /\ btnBarDone' = FALSE
          /\ dish' = None /\ bSelected' = FALSE
          /\ bOrderModel' = FALSE /\ alert' = 0
          /\ setups' = 0 /\ loaded' = Len(orderHistoryList')
      BY <1>13 DEF Relaunch
    <2>4. /\ visit' \in 0..MaxVisits /\ alert' \in 0..MaxVisits
          /\ setups' \in 0..MaxSetups /\ loaded' \in 0..MaxOrders
      BY <2>1, <2>3
    <2>5. /\ top' \in {"search", "dishes", "detail", "setup"}
          /\ btnBarDone' \in BOOLEAN /\ bSelected' \in BOOLEAN
          /\ bOrderModel' \in BOOLEAN
      BY <2>3
    <2>6. dish' \in Dishes \cup {None}
      BY <2>3
    <2>7. popBlocks' \in Seq(1..MaxVisits) /\ placed' \in Seq(PlacedOrder)
      BY <1>13 DEF Relaunch
    <2>8. /\ curOrdrtDic' \in Dict /\ writing' = FALSE /\ localFile' = localFile
          /\ localFile # None => orderHistoryList' = localFile
      BY <1>13, EmptyDictType DEF Relaunch, SetupInstancefromLocalFile
    <2>9. ScreenTypeOK'
      BY <2>2, <2>4, <2>5, <2>6, <2>7, Zenon
    <2>10. HistoryTypeOK' /\ ObservedTypeOK'
      <3>1. writing' \in BOOLEAN /\ localFile' \in Seq(Dict) \cup {None}
        BY <2>8 DEF HistoryTypeOK
      <3>2. QED
        BY <2>1, <2>2, <2>4, <2>7, <2>8, <3>1, Zenon
    <2>11. QED
      BY <2>1, <2>3, <2>8, <2>9, <2>10
  <1>14. CASE PopToRoot
    BY <1>14 DEF PopToRoot, Idle, historyVars, orderVars, observedVars
  <1>15. CASE UNCHANGED vars
    BY <1>15 DEF vars, historyVars, screenVars, orderVars, observedVars
  <1>16. QED
    BY <1>1, <1>2, <1>3, <1>4, <1>5, <1>6, <1>7, <1>8, <1>9, <1>10, <1>11,
       <1>12, <1>13, <1>14, <1>15 DEF Next

-----------------------------------------------------------------------------
LEMMA TypeInvAlways == Spec => []TypeInv
  BY InitTypeInv, NextTypeInv, PTL DEF Spec

\* Every reachable state is well typed; in particular no draft and no placed
\* order carries a number of guests outside 1..10.
THEOREM TypeCorrect == Spec => []TypeOK
  <1>1. TypeInv => TypeOK
    BY DEF TypeInv
  <1>2. QED
    BY <1>1, TypeInvAlways, PTL

\* A file on disk is never behind the list in memory, also inside Done.
THEOREM DiskMirrorsMemoryAlways == Spec => []DiskMirrorsMemory
  <1>1. TypeInv => DiskMirrorsMemory
    BY DEF TypeInv
  <1>2. QED
    BY <1>1, TypeInvAlways, PTL

-----------------------------------------------------------------------------
\* Selection and order mode across the screens.
ScreenInv == SelectionMirrored /\ OrderCanBeFinished

LEMMA NextScreenInv == TypeInv /\ ScreenInv /\ [Next]_vars => ScreenInv'
  <1> SUFFICES ASSUME ScreenTypeOK, ScreenInv, [Next]_vars PROVE ScreenInv'
    BY DEF TypeInv, TypeOK
  <1> USE DEF ScreenTypeOK, ScreenInv, SelectionMirrored, OrderCanBeFinished
  <1>1. CASE OpenRestaurant
    BY <1>1 DEF OpenRestaurant, RefreshDone
  <1>2. ASSUME NEW d \in Dishes, ShowDish(d) PROVE ScreenInv'
    BY <1>2 DEF ShowDish, orderVars
  <1>3. CASE ClickSelected
    <2>1. bSelected' <=> dish' \in selectedDishesList'
      BY <1>3 DEF ClickSelected, Toggle
    <2>2. QED
      BY <1>3, <2>1 DEF ClickSelected
  <1>4. ASSUME NEW n \in Numbers, ClickSetupDone(n) PROVE ScreenInv'
    BY <1>4 DEF ClickSetupDone, PopScreen, Below, RefreshDone, orderVars
  <1>5. CASE NavigateBack
    BY <1>5 DEF NavigateBack, PopScreen, Below, RefreshDone, orderVars
  <1>6. CASE ReturnToTab
    BY <1>6 DEF ReturnToTab, RefreshDone, orderVars
  <1>7. CASE ClickBack
    BY <1>7 DEF ClickBack, PopScreen, Below, RefreshDone
  <1>8. CASE AnswerNo
    BY <1>8 DEF AnswerNo, screenVars
  <1>9. CASE AnswerYes
    BY <1>9 DEF AnswerYes, screenVars
  <1>10. CASE RunPopBlock
    <2>1. CASE top # "search" /\ Head(popBlocks) = visit
      BY <1>10, <2>1 DEF RunPopBlock, PopScreen, Below, RefreshDone
    <2>2. CASE ~(top # "search" /\ Head(popBlocks) = visit)
      BY <1>10, <2>2 DEF RunPopBlock
    <2>3. QED
      BY <2>1, <2>2
  <1>11. CASE ClickDone
    BY <1>11 DEF ClickDone, screenVars
  <1>12. ASSUME NEW accepted \in BOOLEAN, FinishDone(accepted) PROVE ScreenInv'
    BY <1>12 DEF FinishDone, screenVars, orderVars
  <1>13. CASE Relaunch
    BY <1>13 DEF Relaunch
  <1>14. CASE PopToRoot
    BY <1>14 DEF PopToRoot, orderVars
  <1>15. CASE UNCHANGED vars
    BY <1>15 DEF vars, screenVars, orderVars
  <1>16. QED
    BY <1>1, <1>2, <1>3, <1>4, <1>5, <1>6, <1>7, <1>8, <1>9, <1>10, <1>11,
       <1>12, <1>13, <1>14, <1>15 DEF Next

LEMMA ScreenInvAlways == Spec => []ScreenInv
  <1>1. Init => ScreenInv
    BY DEF Init, ScreenInv, SelectionMirrored, OrderCanBeFinished
  <1>2. QED
    BY <1>1, NextScreenInv, TypeInvAlways, PTL DEF Spec

\* The detail screen's flag and the dishes screen's list never disagree.
THEOREM SelectionMirroredAlways == Spec => []SelectionMirrored
  <1>1. ScreenInv => SelectionMirrored
    BY DEF ScreenInv
  <1>2. QED
    BY <1>1, ScreenInvAlways, PTL

\* An order in progress can be finished from the dishes screen.
THEOREM OrderCanBeFinishedAlways == Spec => []OrderCanBeFinished
  <1>1. ScreenInv => OrderCanBeFinished
    BY DEF ScreenInv
  <1>2. QED
    BY <1>1, ScreenInvAlways, PTL

-----------------------------------------------------------------------------
\* What the history has grown by in this launch, also while Done is writing.
CountInv == Len(orderHistoryList) = loaded + Len(placed)

LEMMA NextCountInv == TypeInv /\ CountInv /\ [Next]_vars => CountInv'
  <1> SUFFICES ASSUME TypeInv, CountInv, [Next]_vars PROVE CountInv'
    OBVIOUS
  <1> USE DEF CountInv
  <1>1. ASSUME NEW accepted \in BOOLEAN, FinishDone(accepted) PROVE CountInv'
    <2>1. curOrdrtDic # EmptyDict
      BY <1>1 DEF FinishDone, WriteLocalFile, TypeInv, WritingInv, EmptyDict
    <2>2. Len(orderHistoryList') = Len(orderHistoryList) + 1
      BY <1>1, <2>1 DEF FinishDone, WriteLocalFile, TypeInv, TypeOK, HistoryTypeOK
    <2>3. Len(placed') = Len(placed) + 1 /\ Len(placed) \in Nat
      BY <1>1 DEF FinishDone, TypeInv, TypeOK, ObservedTypeOK
    <2>4. loaded' = loaded /\ loaded \in Nat
      BY <1>1, OrderFlowAssumption DEF FinishDone, TypeInv, TypeOK, ObservedTypeOK
    <2>5. QED
      BY <2>2, <2>3, <2>4
  <1>2. CASE Relaunch
    <2>1. Len(orderHistoryList') \in Nat
      BY <1>2 DEF Relaunch, SetupInstancefromLocalFile, TypeInv, TypeOK, HistoryTypeOK
    <2>2. loaded' = Len(orderHistoryList') /\ Len(placed') = 0
      BY <1>2 DEF Relaunch
    <2>3. QED
      BY <2>1, <2>2
  <1>3. CASE UNCHANGED <<orderHistoryList, loaded, placed>>
    BY <1>3
  <1>4. QED
    BY <1>1, <1>2, <1>3
    DEF Next, OpenRestaurant, ShowDish, ClickSelected, ClickSetupDone,
        NavigateBack, PopToRoot, ReturnToTab, ClickBack, AnswerNo, AnswerYes,
        RunPopBlock,
        ClickDone, historyVars, observedVars, vars

\* No order is lost from memory or counted twice between two launches.
THEOREM HistoryCompleteAlways == Spec => []HistoryComplete
  <1>1. Init => CountInv
    BY DEF Init, HistoryInit, CountInv
  <1>2. CountInv => HistoryComplete
    BY DEF CountInv, HistoryComplete
  <1>3. QED
    BY <1>1, <1>2, NextCountInv, TypeInvAlways, PTL DEF Spec

-----------------------------------------------------------------------------
\* The steps that touch neither the list nor the file are stutters of the log.
LEMMA LogStutter ==
  ASSUME orderHistoryList' = orderHistoryList, localFile' = localFile
  PROVE  UNCHANGED HL!logVars
  BY DEF HL!logVars

LEMMA NextLog == TypeInv /\ [Next]_vars => [HL!Next]_(HL!logVars)
  <1> SUFFICES ASSUME TypeInv, [Next]_vars PROVE [HL!Next]_(HL!logVars)
    OBVIOUS
  <1>1. CASE ClickDone
    <2>1. orderHistoryList' = orderHistoryList /\ localFile' = None
      BY <1>1 DEF ClickDone, DeleteInfoLocalFile
    <2>2. HL!Begin
      BY <2>1 DEF HL!Begin
    <2>3. QED
      BY <2>2 DEF HL!Next
  <1>2. ASSUME NEW accepted \in BOOLEAN, FinishDone(accepted)
        PROVE  [HL!Next]_(HL!logVars)
    <2>1. curOrdrtDic # EmptyDict /\ localFile = None
      BY <1>2 DEF FinishDone, WriteLocalFile, TypeInv, WritingInv, EmptyDict
    <2>2. Len(orderHistoryList') = Len(orderHistoryList) + 1
      BY <1>2, <2>1 DEF FinishDone, WriteLocalFile, TypeInv, TypeOK, HistoryTypeOK
    <2>3. HL!Commit
      BY <2>1, <2>2 DEF HL!Commit
    <2>4. QED
      BY <2>3 DEF HL!Next
  <1>3. CASE Relaunch
    <2>1. localFile' = localFile
      BY <1>3 DEF Relaunch, SetupInstancefromLocalFile
    <2>2. CASE localFile = None
      <3>1. orderHistoryList' = <<>>
        BY <1>3, <2>2 DEF Relaunch, SetupInstancefromLocalFile
      <3>2. Len(orderHistoryList') = 0
        BY <3>1
      <3>3. HL!Restart
        BY <2>1, <2>2, <3>2 DEF HL!Restart
      <3>4. QED
        BY <3>3 DEF HL!Next
    <2>3. CASE localFile # None
      <3>1. Len(orderHistoryList') = Len(orderHistoryList)
        BY <1>3, <2>3
        DEF Relaunch, SetupInstancefromLocalFile, TypeInv, DiskMirrorsMemory
      <3>2. HL!Restart
        BY <2>1, <2>3, <3>1 DEF HL!Restart
      <3>3. QED
        BY <3>2 DEF HL!Next
    <2>4. QED
      BY <2>2, <2>3
  <1>4. CASE UNCHANGED <<orderHistoryList, localFile>>
    BY <1>4, LogStutter
  <1>5. QED
    BY <1>1, <1>2, <1>3, <1>4
    DEF Next, OpenRestaurant, ShowDish, ClickSelected, ClickSetupDone,
        NavigateBack, PopToRoot, ReturnToTab, ClickBack, AnswerNo, AnswerYes,
        RunPopBlock,
        historyVars, vars

\* OrderFlow implements HistoryLog: whatever the screens do and wherever the
\* process is killed, a restart finds the whole history or none of it.
THEOREM HistoryIsLogAlways == Spec => HistoryIsLog
  <1>1. Init => HL!Init
    BY DEF Init, HistoryInit, HL!Init
  <1>2. QED
    BY <1>1, NextLog, TypeInvAlways, PTL DEF Spec, HistoryIsLog, HL!Spec

-----------------------------------------------------------------------------
\* The setup form the draft holds, if it holds one, is the latest and has not
\* served any order; if it holds none, the latest has served one already.
DraftSetup ==
    IF curOrdrtDic.setup # None
    THEN /\ curOrdrtDic.setup.id = setups
         /\ \A j \in DOMAIN placed : placed[j].latest < setups
    ELSE setups # 0 => \E j \in DOMAIN placed : placed[j].latest = setups

PlacedBefore == \A j \in DOMAIN placed : placed[j].latest <= setups

SetupInv == OrderTakesLatestSetup /\ DraftSetup /\ PlacedBefore

LEMMA SetupOfEmptyDict == EmptyDict.setup = None
  BY DEF EmptyDict

LEMMA NextSetupInv == TypeInv /\ SetupInv /\ [Next]_vars => SetupInv'
  <1> SUFFICES ASSUME TypeInv, SetupInv, [Next]_vars PROVE SetupInv'
    OBVIOUS
  <1>1. setups \in Nat
    BY OrderFlowAssumption DEF TypeInv, TypeOK, ObservedTypeOK
  <1>2. /\ placed \in Seq(PlacedOrder)
        /\ \A j \in DOMAIN placed : placed[j].latest \in Nat
    <2>1. placed \in Seq(PlacedOrder)
      BY DEF TypeInv, TypeOK, ObservedTypeOK
    <2>2. ASSUME NEW j \in DOMAIN placed PROVE placed[j].latest \in Nat
      <3>1. placed[j] \in PlacedOrder
        BY <2>1
      <3>2. placed[j].latest \in 0..MaxSetups
        BY <3>1 DEF PlacedOrder
      <3>3. QED
        BY <3>2, OrderFlowAssumption
    <2>3. QED
      BY <2>1, <2>2
  <1>3. ASSUME NEW n \in Numbers, ClickSetupDone(n) PROVE SetupInv'
    <2>1. setups' = setups + 1 /\ placed' = placed
      BY <1>3 DEF ClickSetupDone
    <2>2. setups' \in 1..MaxSetups /\ n \in 1..10
      BY <1>1, <1>3, OrderFlowAssumption DEF ClickSetupDone, ValidNumbers
    <2>3. [id |-> setups', number |-> n] \in SetupInfo
      BY <2>2 DEF SetupInfo
    <2>4. curOrdrtDic'.setup = [id |-> setups', number |-> n]
      BY <1>3 DEF ClickSetupDone, SetupDraft, EmptyDict
    <2>5. DraftSetup'
      <3>1. curOrdrtDic'.setup # None
        BY <2>3, <2>4, NoneAssumption
      <3>2. curOrdrtDic'.setup.id = setups'
        BY <2>4
      <3>3. \A j \in DOMAIN placed' : placed'[j].latest < setups'
        BY <1>1, <1>2, <2>1 DEF SetupInv, PlacedBefore
      <3>4. QED
        BY <3>1, <3>2, <3>3 DEF DraftSetup
    <2>6. PlacedBefore'
      BY <1>1, <1>2, <2>1 DEF SetupInv, PlacedBefore
    <2>7. OrderTakesLatestSetup'
      BY <2>1 DEF SetupInv, OrderTakesLatestSetup
    <2>8. QED
      BY <2>5, <2>6, <2>7 DEF SetupInv
  <1>4. CASE ClickDone
    <2>1. UNCHANGED <<setups, placed>>
      BY <1>4 DEF ClickDone, observedVars
    <2>2. curOrdrtDic'.setup = curOrdrtDic.setup
      BY <1>4 DEF ClickDone, FillDraft, TypeInv, TypeOK, HistoryTypeOK, Dict
    <2>3. QED
      BY <2>1, <2>2 DEF SetupInv, DraftSetup, PlacedBefore, OrderTakesLatestSetup
  <1>5. ASSUME NEW accepted \in BOOLEAN, FinishDone(accepted) PROVE SetupInv'
    <2> DEFINE last == [content |-> curOrdrtDic, latest |-> setups]
    <2>1. setups' = setups /\ placed' = Append(placed, last)
      BY <1>5 DEF FinishDone
    <2>2. /\ DOMAIN placed' = 1..(Len(placed) + 1)
          /\ DOMAIN placed = 1..Len(placed)
          /\ Len(placed) \in Nat
          /\ \A j \in 1..Len(placed) : placed'[j] = placed[j]
          /\ placed'[Len(placed) + 1] = last
      BY <1>2, <2>1
    <2>3. curOrdrtDic'.setup = None
      BY <1>5, SetupOfEmptyDict DEF FinishDone, WriteLocalFile
    <2>4. DraftSetup'
      BY <2>1, <2>2, <2>3 DEF DraftSetup
    <2>5. PlacedBefore'
      BY <1>1, <2>1, <2>2 DEF SetupInv, PlacedBefore
    <2>6. OrderTakesLatestSetup'
      <3> SUFFICES ASSUME NEW i \in 1..(Len(placed) + 1)
                   PROVE  LET setup == placed'[i].content.setup
                              latest == placed'[i].latest
                          IN IF setup # None
                             THEN /\ setup.id = latest
                                  /\ \A j \in 1..(i - 1) : placed'[j].latest < latest
                             ELSE latest # 0 =>
                                    \E j \in 1..(i - 1) : placed'[j].latest = latest
        BY <2>2 DEF OrderTakesLatestSetup
      <3>1. CASE i \in 1..Len(placed)
        <4>1. placed'[i] = placed[i] /\ i \in DOMAIN placed
          BY <2>2, <3>1
        <4>2. \A j \in 1..(i - 1) : placed'[j] = placed[j]
          BY <2>2, <3>1
        <4>3. QED
          BY <4>1, <4>2 DEF SetupInv, OrderTakesLatestSetup
      <3>2. CASE i = Len(placed) + 1
        <4>1. 1..(i - 1) = DOMAIN placed
          BY <2>2, <3>2
        <4>2. placed'[i].content.setup = curOrdrtDic.setup /\ placed'[i].latest = setups
          BY <2>2, <3>2
        <4>3. \A j \in 1..(i - 1) : placed'[j] = placed[j]
          BY <2>2, <3>2
        <4>4. QED
          BY <4>1, <4>2, <4>3 DEF SetupInv, DraftSetup
      <3>3. QED
        BY <2>2, <3>1, <3>2
    <2>7. QED
      BY <2>4, <2>5, <2>6 DEF SetupInv
  <1>6. CASE Relaunch
    <2>1. setups' = 0 /\ placed' = <<>> /\ curOrdrtDic'.setup = None
      BY <1>6, SetupOfEmptyDict DEF Relaunch, SetupInstancefromLocalFile
    <2>2. QED
      BY <2>1 DEF SetupInv, DraftSetup, PlacedBefore, OrderTakesLatestSetup
  <1>7. CASE UNCHANGED <<curOrdrtDic, setups, placed>>
    BY <1>7 DEF SetupInv, DraftSetup, PlacedBefore, OrderTakesLatestSetup
  <1>8. QED
    BY <1>3, <1>4, <1>5, <1>6, <1>7
    DEF Next, OpenRestaurant, ShowDish, ClickSelected, NavigateBack, PopToRoot,
        ReturnToTab, ClickBack, AnswerNo, AnswerYes, RunPopBlock, historyVars, observedVars, vars

\* An order carries the latest setup form of this launch unless an earlier
\* order has used it: the draft that outlives its restaurant is used once.
THEOREM OrderTakesLatestSetupAlways == Spec => []OrderTakesLatestSetup
  <1>1. Init => SetupInv
    BY SetupOfEmptyDict
    DEF Init, HistoryInit, SetupInv, DraftSetup, PlacedBefore, OrderTakesLatestSetup
  <1>2. SetupInv => OrderTakesLatestSetup
    BY DEF SetupInv
  <1>3. QED
    BY <1>1, <1>2, NextSetupInv, TypeInvAlways, PTL DEF Spec

-----------------------------------------------------------------------------
\* Outside the search screen, order mode and an enabled Done belong to a visit
\* in which Select was tapped, and so does a draft with order keys.
StartedInv ==
    /\ top # "search" /\ (bOrderModel \/ btnBarDone) => visit \in started
    /\ writing => curOrdrtDic.order.visit \in started
    /\ PlacedWasStarted

LEMMA NextStartedInv ==
  TypeInv /\ StartedInv /\ [Next]_vars => StartedInv'
  <1> SUFFICES ASSUME TypeInv, StartedInv, [Next]_vars PROVE StartedInv'
    OBVIOUS
  <1>1. CASE OpenRestaurant
    BY <1>1 DEF OpenRestaurant, Idle, RefreshDone, historyVars, observedVars,
                StartedInv, PlacedWasStarted
  <1>2. ASSUME NEW d \in Dishes, ShowDish(d) PROVE StartedInv'
    BY <1>2 DEF ShowDish, historyVars, orderVars, observedVars, StartedInv,
                PlacedWasStarted
  <1>3. CASE ClickSelected
    BY <1>3 DEF ClickSelected, historyVars, StartedInv, PlacedWasStarted
  <1>4. ASSUME NEW n \in Numbers, ClickSetupDone(n) PROVE StartedInv'
    BY <1>4 DEF ClickSetupDone, Idle, PopScreen, Below, RefreshDone, orderVars,
                StartedInv, PlacedWasStarted
  <1>5. CASE NavigateBack
    BY <1>5 DEF NavigateBack, PopScreen, Below, RefreshDone, historyVars,
                orderVars, observedVars, StartedInv, PlacedWasStarted
  <1>6. CASE ReturnToTab
    BY <1>6 DEF ReturnToTab, RefreshDone, historyVars, orderVars, observedVars,
                StartedInv, PlacedWasStarted
  <1>7. CASE ClickBack
    BY <1>7 DEF ClickBack, PopScreen, Below, RefreshDone, historyVars,
                observedVars, StartedInv, PlacedWasStarted
  <1>8. CASE AnswerNo
    BY <1>8 DEF AnswerNo, screenVars, historyVars, observedVars, StartedInv,
                PlacedWasStarted
  <1>9. CASE AnswerYes
    BY <1>9 DEF AnswerYes, screenVars, historyVars, observedVars, StartedInv,
                PlacedWasStarted
  <1>10. CASE RunPopBlock
    <2>1. /\ bOrderModel' = FALSE
          /\ top' # "search" /\ btnBarDone' => top # "search" /\ btnBarDone
      <3>1. CASE top # "search" /\ Head(popBlocks) = visit
        BY <1>10, <3>1 DEF RunPopBlock, PopScreen, Below, RefreshDone
      <3>2. CASE ~(top # "search" /\ Head(popBlocks) = visit)
        BY <1>10, <3>2 DEF RunPopBlock
      <3>3. QED
        BY <3>1, <3>2
    <2>2. UNCHANGED <<visit, historyVars, observedVars>>
      BY <1>10 DEF RunPopBlock
    <2>3. QED
      BY <2>1, <2>2 DEF historyVars, observedVars, StartedInv, PlacedWasStarted
  <1>11. CASE ClickDone
    <2>1. /\ visit \in started
          /\ bOrderModel' = FALSE
          /\ UNCHANGED <<visit, started, placed>>
      BY <1>11 DEF ClickDone, screenVars, observedVars, StartedInv
    <2>2. curOrdrtDic'.order.visit = visit
      BY <1>11 DEF ClickDone, FillDraft, TypeInv, TypeOK, HistoryTypeOK, Dict
    <2>3. QED
      BY <2>1, <2>2 DEF StartedInv, PlacedWasStarted
  <1>12. ASSUME NEW accepted \in BOOLEAN, FinishDone(accepted) PROVE StartedInv'
    <2>1. /\ curOrdrtDic.order.visit \in started /\ writing' = FALSE
          /\ UNCHANGED <<started, screenVars, orderVars>>
      BY <1>12 DEF FinishDone, WriteLocalFile, StartedInv
    <2>2. placed \in Seq(PlacedOrder)
      BY DEF TypeInv, TypeOK, ObservedTypeOK
    <2>3. \A i \in DOMAIN placed' :
            \/ i \in DOMAIN placed /\ placed'[i] = placed[i]
            \/ placed'[i].content = curOrdrtDic
      BY <1>12, <2>2 DEF FinishDone
    <2>4. PlacedWasStarted'
      BY <2>1, <2>3 DEF StartedInv, PlacedWasStarted
    <2>5. QED
      BY <2>1, <2>4 DEF screenVars, orderVars, StartedInv
  <1>13. CASE Relaunch
    BY <1>13 DEF Relaunch, SetupInstancefromLocalFile, StartedInv, PlacedWasStarted
  <1>14. CASE PopToRoot
    BY <1>14 DEF PopToRoot, historyVars, orderVars, observedVars, StartedInv,
                 PlacedWasStarted
  <1>15. CASE UNCHANGED vars
    BY <1>15 DEF vars, historyVars, screenVars, orderVars, observedVars,
                 StartedInv, PlacedWasStarted
  <1>16. QED
    BY <1>1, <1>2, <1>3, <1>4, <1>5, <1>6, <1>7, <1>8, <1>9, <1>10, <1>11,
       <1>12, <1>13, <1>14, <1>15 DEF Next

LEMMA StartedInvAlways == Spec => []StartedInv
  <1>1. Init => StartedInv
    BY DEF Init, HistoryInit, StartedInv, PlacedWasStarted
  <1>2. QED
    BY <1>1, NextStartedInv, TypeInvAlways, PTL DEF Spec

\* No order is placed in a visit without a Select.
THEOREM PlacedWasStartedAlways == Spec => []PlacedWasStarted
  <1>1. StartedInv => PlacedWasStarted
    BY DEF StartedInv
  <1>2. QED
    BY <1>1, StartedInvAlways, PTL

\* Only Select starts a visit, and it does so outside order mode: were the
\* mode on, the visit would have been started before.
LEMMA FirstSelectStep ==
  StartedInv /\ [Next]_vars
    => [(visit \in started' \ started) => (top' = "setup")]_vars
  <1> SUFFICES ASSUME StartedInv, Next, visit \in started' \ started
               PROVE  top' = "setup"
    OBVIOUS
  <1>1. CASE ClickSelected
    <2>1. top = "detail" /\ ~bOrderModel
      BY <1>1 DEF ClickSelected, StartedInv
    <2>2. QED
      BY <1>1, <2>1 DEF ClickSelected
  <1>2. CASE Relaunch
    BY <1>2 DEF Relaunch
  <1>3. CASE started' = started
    BY <1>3
  <1>4. QED
    BY <1>1, <1>2, <1>3
    DEF Next, OpenRestaurant, ShowDish, ClickSetupDone, NavigateBack, PopToRoot,
        ReturnToTab, ClickBack, AnswerNo, AnswerYes, RunPopBlock, ClickDone,
        FinishDone, observedVars

\* In every restaurant the first Select asks for the number of guests, also
\* when an order was left in progress by a pop to the root.
THEOREM FirstSelectAsksForSetupAlways == Spec => FirstSelectAsksForSetup
  <1>1. QED
    BY FirstSelectStep, StartedInvAlways, PTL DEF Spec, FirstSelectAsksForSetup
=============================================================================
