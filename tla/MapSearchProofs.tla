--------------------------- MODULE MapSearchProofs ---------------------------
(***************************************************************************)
(* What holds of the search screen for all restaurants, places and regions *)
(* and any number of answers and launches, checked by TLAPS: the callout   *)
(* follows the selection, a row opens what it shows, and only the first    *)
(* answer of a launch is stored.                                           *)
(***************************************************************************)
EXTENDS MapSearch, FiniteSetTheorems, SequenceTheorems, WellFoundedInduction, TLAPS

-----------------------------------------------------------------------------
(* A finite set of numbers can be put in order, as the query does.         *)

LEMMA Induct ==
    ASSUME NEW T, 0 \in T, \A n \in Nat : n \in T => n + 1 \in T
    PROVE  Nat \subseteq T
  <1> DEFINE R == OpToRel(<, Nat)
  <1> DEFINE C == Nat \ T
  <1>1. IsWellFoundedOn(R, Nat)
    BY NatLessThanWellFounded
  <1>2. \A x, y \in Nat : y < x => <<y, x>> \in R
    BY DEF OpToRel
  <1>3. SUFFICES ASSUME C # {} PROVE FALSE
    OBVIOUS
  <1> HIDE DEF R
  <1>4. PICK x \in C : \A y \in C : <<y, x>> \notin R
    <2> HIDE DEF C
    <2>1. C \subseteq Nat
      BY DEF C
    <2> QED
      BY <1>1, <1>3, <2>1, WFMin
  <1>5. x \in Nat /\ x # 0
    BY <1>4
  <1>6. x - 1 \in Nat /\ x - 1 < x /\ (x - 1) + 1 = x
    BY <1>5
  <1>7. x - 1 \notin C
    BY <1>2, <1>4, <1>5, <1>6
  <1> QED
    BY <1>4, <1>5, <1>6, <1>7

\* A finite set of numbers has a bound.
LEMMA Bounded ==
    ASSUME NEW S \in SUBSET Nat, IsFiniteSet(S)
    PROVE  \E m \in Nat : \A x \in S : x < m
  <1> DEFINE Good(U) == \E m \in Nat : \A x \in U : x < m
  <1> DEFINE T == {n \in Nat : \A U \in SUBSET S : Cardinality(U) = n => Good(U)}
  <1>1. \A U \in SUBSET S : IsFiniteSet(U) /\ Cardinality(U) \in Nat
    BY FS_Subset, FS_CardinalityType
  <1>2. 0 \in T
    <2>1. \A U \in SUBSET S : Cardinality(U) = 0 => U = {}
      BY <1>1, FS_EmptySet
    <2>2. Good({})
      <3>1. 0 \in Nat
        OBVIOUS
      <3> QED
        BY <3>1
    <2> HIDE DEF Good
    <2> QED
      BY <2>1, <2>2
  <1>3. ASSUME NEW n \in Nat, n \in T PROVE n + 1 \in T
    <2> SUFFICES ASSUME NEW U \in SUBSET S, Cardinality(U) = n + 1 PROVE Good(U)
      OBVIOUS
    <2>1. U # {}
      BY ONLY n \in Nat, Cardinality(U) = n + 1, FS_EmptySet
    <2>2. PICK a \in U : TRUE
      BY <2>1
    <2> DEFINE W == U \ {a}
    <2>3. W \in SUBSET S /\ Cardinality(W) = n
      <3>1. IsFiniteSet(U) /\ Cardinality(U) \in Nat
        BY <1>1
      <3>2. Cardinality(W) = Cardinality(U) - 1
        BY <3>1, FS_RemoveElement
      <3> QED
        BY <3>1, <3>2
    <2>4. Good(W)
      <3> HIDE DEF Good, W
      <3> QED
        BY <1>3, <2>3
    <2>5. PICK m \in Nat : \A x \in W : x < m
      BY <2>4
    <2>6. a \in Nat /\ U \subseteq Nat
      OBVIOUS
    <2> DEFINE k == IF a < m THEN m ELSE a + 1
    <2>7. k \in Nat /\ m <= k /\ a < k
      BY <2>6
    <2>8. \A x \in U : x < k
      <3> SUFFICES ASSUME NEW x \in U PROVE x < k
        OBVIOUS
      <3>1. CASE x = a
        BY <2>7, <3>1
      <3>2. CASE x # a
        <4>1. x < m /\ x \in Nat
          BY <2>5, <2>6, <3>2
        <4> HIDE DEF k
        <4> QED
          BY <2>7, <4>1
      <3> QED
        BY <3>1, <3>2
    <2> HIDE DEF k
    <2> QED
      BY <2>7, <2>8
  <1>4. Good(S)
    <2> HIDE DEF Good
    <2>1. Nat \subseteq T
      <3> HIDE DEF T
      <3> QED
        BY <1>2, <1>3, Induct
    <2>2. Cardinality(S) \in Nat
      BY <1>1
    <2> QED
      BY <2>1, <2>2
  <1> QED
    BY <1>4

\* s has the n elements of U in order.
Ascends(s, n, U) ==
    /\ s \in [1..n -> U]
    /\ \A i, j \in 1..n : i < j => s[i] < s[j]

\* The number that is larger than all of U comes last.
LEMMA AscendsMore ==
    ASSUME NEW n \in Nat, NEW U \in SUBSET Nat, NEW m \in Nat, \A x \in U : x < m,
           NEW s, Ascends(s, n, U)
    PROVE  \E r : Ascends(r, n + 1, U \cup {m})
  <1> DEFINE r == [i \in 1..(n + 1) |-> IF i = n + 1 THEN m ELSE s[i]]
  <1>1. s \in [1..n -> U] /\ \A i, j \in 1..n : i < j => s[i] < s[j]
    BY DEF Ascends
  <1>2. \A i \in 1..(n + 1) : i # n + 1 => i \in 1..n
    OBVIOUS
  <1>3. r \in [1..(n + 1) -> U \cup {m}]
    BY <1>1, <1>2
  <1>4. ASSUME NEW i \in 1..(n + 1), NEW j \in 1..(n + 1), i < j
        PROVE  r[i] < r[j]
    <2>1. i \in 1..n /\ r[i] = s[i] /\ s[i] \in U
      BY <1>1, <1>4
    <2>2. CASE j = n + 1
      BY <2>1, <2>2
    <2>3. CASE j # n + 1
      BY <1>1, <1>2, <1>4, <2>1, <2>3
    <2> QED
      BY <2>2, <2>3
  <1> HIDE DEF r
  <1> QED
    BY <1>3, <1>4 DEF Ascends

LEMMA OrderExists ==
    ASSUME NEW S \in SUBSET Nat, IsFiniteSet(S)
    PROVE  \E s : Ascends(s, Cardinality(S), S)
  <1> DEFINE Below(U, m) == \A x \in U : x < m
  <1> DEFINE Good(U) == \E s : Ascends(s, Cardinality(U), U)
  <1> DEFINE T == {m \in Nat : \A U \in SUBSET S : Below(U, m) => Good(U)}
  <1>1. \A U \in SUBSET S : IsFiniteSet(U) /\ Cardinality(U) \in Nat
    BY FS_Subset, FS_CardinalityType
  <1>2. 0 \in T
    <2> SUFFICES ASSUME NEW U \in SUBSET S, Below(U, 0) PROVE Good(U)
      OBVIOUS
    <2>1. U = {}
      OBVIOUS
    <2>2. Cardinality(U) = 0
      BY <2>1, FS_EmptySet
    <2>3. Ascends(<<>>, 0, U)
      BY DEF Ascends
    <2> QED
      BY <2>2, <2>3
  <1>3. ASSUME NEW m \in Nat, m \in T PROVE m + 1 \in T
    <2> SUFFICES ASSUME NEW U \in SUBSET S, Below(U, m + 1) PROVE Good(U)
      OBVIOUS
    <2>1. \A x \in U : x < m \/ x = m
      OBVIOUS
    <2>2. CASE m \notin U
      <3>1. Below(U, m)
        BY <2>1, <2>2
      <3> HIDE DEF Below, Good
      <3> QED
        BY <1>3, <3>1
    <2>3. CASE m \in U
      <3> DEFINE W == U \ {m}
      <3>1. W \in SUBSET S /\ Below(W, m)
        BY <2>1
      <3>2. Good(W)
        <4> HIDE DEF Below, Good, W
        <4> QED
          BY <1>3, <3>1
      <3>3. PICK s : Ascends(s, Cardinality(W), W)
        BY <3>2
      <3>4. Cardinality(U) = Cardinality(W) + 1 /\ Cardinality(W) \in Nat
        <4>1. IsFiniteSet(U) /\ Cardinality(U) \in Nat
          BY <1>1
        <4>2. Cardinality(W) = Cardinality(U) - 1
          BY <2>3, <4>1, FS_RemoveElement
        <4>3. Cardinality(W) \in Nat
          BY <1>1, <3>1
        <4> QED
          BY <4>1, <4>2, <4>3
      <3>5. W \cup {m} = U /\ W \in SUBSET Nat
        BY <2>3
      <3>6. \A x \in W : x < m
        BY <3>1
      <3> HIDE DEF W
      <3>7. \E r : Ascends(r, Cardinality(W) + 1, W \cup {m})
        BY <3>3, <3>4, <3>5, <3>6, AscendsMore
      <3> QED
        BY <3>4, <3>5, <3>7
    <2> QED
      BY <2>2, <2>3
  <1>4. PICK m \in Nat : Below(S, m)
    BY Bounded
  <1>5. Nat \subseteq T
    <2> HIDE DEF T
    <2> QED
      BY <1>2, <1>3, Induct
  <1>6. Good(S)
    <2> HIDE DEF Below, Good
    <2> QED
      BY <1>4, <1>5
  <1> QED
    BY <1>6

\* ORDER BY: a sequence of the restaurants, in ascending order.
LEMMA OrderByNameOrders ==
    ASSUME NEW S \in SUBSET Nat, IsFiniteSet(S)
    PROVE  /\ OrderByName(S) \in [1..Cardinality(S) -> S]
           /\ Cardinality(S) \in Nat
           /\ \A i, j \in 1..Cardinality(S) : i < j => OrderByName(S)[i] < OrderByName(S)[j]
  <1> DEFINE n == Cardinality(S)
  <1>1. n \in Nat
    BY FS_CardinalityType
  <1>2. PICK s : Ascends(s, n, S)
    BY OrderExists
  <1>3. s \in [1..n -> S] /\ \A i, j \in 1..n : i < j => s[i] < s[j]
    BY <1>2 DEF Ascends
  <1>4. \A i, j \in 1..n : i # j => s[i] # s[j]
    <2> SUFFICES ASSUME NEW i \in 1..n, NEW j \in 1..n, i # j PROVE s[i] # s[j]
      OBVIOUS
    <2>1. s[i] \in S /\ s[j] \in S
      BY <1>3
    <2>2. s[i] \in Nat /\ s[j] \in Nat
      BY <2>1
    <2>3. i < j \/ j < i
      <3> HIDE DEF n
      <3> QED
        BY <1>1
    <2> QED
      BY <1>3, <2>2, <2>3
  <1>5. s \in SetToSeqs(S) /\ DOMAIN s = 1..n
    BY <1>3, <1>4 DEF SetToSeqs
  <1>6. /\ OrderByName(S) \in SetToSeqs(S)
        /\ \A i, j \in DOMAIN OrderByName(S) : i < j => OrderByName(S)[i] < OrderByName(S)[j]
    BY <1>3, <1>5 DEF OrderByName
  <1>7. OrderByName(S) \in [1..n -> S]
    BY <1>6 DEF SetToSeqs
  <1> QED
    BY <1>1, <1>6, <1>7

-----------------------------------------------------------------------------
USE MapSearchAssumption

-----------------------------------------------------------------------------
\* The pins and what is selected of them; a row that is still on display is
\* that of the list, unless a memory warning has emptied it.
PinInv ==
    /\ pins \in [Restaurants -> Nat]
    /\ selected \in Restaurants \cup {None}
    /\ callout \in Restaurants \cup {None}
    /\ restaurantList = displayed \/ restaurantList = <<>>
    /\ CalloutOfSelection

LEMMA FreshPins ==
    ASSUME NEW table, NEW c
    PROVE  /\ Start(table, c).pins \in [Restaurants -> Nat]
           /\ \A r \in Restaurants : Start(table, c).pins[r] = 0
  BY DEF Start

LEMMA NewProcessPins == NewProcess => PinInv'
  <1> SUFFICES ASSUME NewProcess PROVE PinInv'
    OBVIOUS
  <1>1. /\ pins' = Start(restaurantTable, city').pins
        /\ restaurantList' = displayed'
        /\ selected' = None /\ callout' = None
    BY DEF NewProcess
  <1> QED
    BY <1>1, FreshPins DEF PinInv, CalloutOfSelection

\* A step that leaves the pins and the selection alone.
LEMMA QuietPins ==
    ASSUME PinInv, UNCHANGED <<pins, pinVars>>,
           restaurantList' = displayed' \/ restaurantList' = <<>>
    PROVE  PinInv'
  BY DEF PinInv, pinVars, CalloutOfSelection

LEMMA StepPins == PinInv /\ [Next]_vars => PinInv'
  <1> SUFFICES ASSUME PinInv, [Next]_vars PROVE PinInv'
    OBVIOUS
  <1> USE DEF PinInv
  <1>1. CASE MoveMap \/ AnswerArrives \/ ErrorArrives \/ RequestFails \/ InsertRow
    BY <1>1, QuietPins DEF MoveMap, AnswerArrives, ErrorArrives, RequestFails, InsertRow, listVars
  <1>2. CASE PostAnswer
    <2>1. pins' = [r \in Restaurants |->
                      pins[r] + IF observing /\ r \in ToSet(handler.answer) THEN 1 ELSE 0]
      BY <1>2 DEF PostAnswer, ShowAllAnnotations
    <2>2. pins' \in [Restaurants -> Nat] /\ \A r \in Restaurants : pins[r] > 0 => pins'[r] > 0
      BY <2>1
    <2> QED
      BY <1>2, <2>2 DEF PostAnswer, pinVars, listVars, CalloutOfSelection
  <1>3. CASE SelectPin
    <2>1. PICK r \in Restaurants :
              /\ pins[r] > (IF r = selected THEN 1 ELSE 0)
              /\ DidSelect(r, CalloutAfterDeselect) /\ selected' = r
      BY <1>3 DEF SelectPin
    <2>2. UNCHANGED <<pins, listVars>> /\ pins[r] > 0
      BY <1>3, <2>1 DEF SelectPin
    <2>3. CalloutAfterDeselect = None
      <3>1. CASE selected = None
        BY <3>1 DEF CalloutOfSelection, CalloutAfterDeselect
      <3>2. CASE selected # None /\ callout # None
        BY <3>2 DEF CalloutOfSelection, CalloutAfterDeselect
      <3>3. CASE callout = None
        BY <3>3 DEF CalloutAfterDeselect
      <3> QED
        BY <3>1, <3>2, <3>3
    <2>4. callout' = r \/ (callout' = None /\ Position[r] = 0)
      BY <2>1, <2>3 DEF DidSelect, Coordinate
    <2> QED
      BY <2>1, <2>2, <2>4 DEF listVars, CalloutOfSelection
  <1>4. CASE DeselectPin
    <2>1. UNCHANGED <<pins, listVars>> /\ selected' = None /\ callout' = CalloutAfterDeselect
      BY <1>4 DEF DeselectPin
    <2>2. selected # None /\ Coordinate(callout) = Coordinate(selected)
      BY <1>4 DEF DeselectPin, CalloutOfSelection, Coordinate
    <2>3. callout' = None
      BY <2>1, <2>2 DEF CalloutAfterDeselect
    <2> QED
      BY <2>1, <2>3 DEF listVars, CalloutOfSelection
  <1>5. CASE SelectRow \/ SelectTargetCity \/ ClickChange \/ ChangeTab \/ ChooseCity
    BY <1>5, QuietPins DEF SelectRow, SelectTargetCity, ClickChange, ChangeTab, ChooseCity, listVars
  <1>6. CASE ReturnToSearch \/ RepresentTableView \/ MemoryWarning
    BY <1>6, QuietPins DEF ReturnToSearch, Refill, RepresentTableView, MemoryWarning
  <1>7. CASE Relaunch \/ SelectMissingRow
    BY <1>7, NewProcessPins DEF Relaunch, SelectMissingRow
  <1>8. CASE UNCHANGED vars
    BY <1>8, QuietPins DEF vars, listVars
  <1> QED
    BY <1>1, <1>2, <1>3, <1>4, <1>5, <1>6, <1>7, <1>8 DEF Next

LEMMA InitPins == Init => PinInv
  BY FreshPins DEF Init, PinInv, CalloutOfSelection

\* The callout on the map is that of the selected pin, although the two
\* delegate methods compare coordinates only (SearchTargetByMapVC.m:141-178).
THEOREM CalloutOfSelectionAlways == Spec => []CalloutOfSelection
  <1>1. PinInv => CalloutOfSelection
    BY DEF PinInv
  <1> QED
    BY <1>1, InitPins, StepPins, PTL DEF Spec

\* A touched row opens the restaurant it shows, whatever has emptied or filled
\* the list since (SearchTargetByLocationTVC.m, viewWillAppear and
\* didSelectRowAtIndexPath).
THEOREM RowsOpenWhatTheyShowAlways == Spec => []RowsOpenWhatTheyShow
  <1>1. PinInv => RowsOpenWhatTheyShow
    BY DEF PinInv, RowsOpenWhatTheyShow
  <1> QED
    BY <1>1, InitPins, StepPins, PTL DEF Spec

-----------------------------------------------------------------------------
\* The table is what this process found and the first n rows of its answer.
Holds(n) == restaurantTable = atLaunch \cup {firstAnswer[i] : i \in 1..n}

\* The handler has the rows of that answer after the first n still to store.
Left(n) ==
    /\ Len(handler.rows) = Len(firstAnswer) - n
    /\ \A j \in 1..Len(handler.rows) : handler.rows[j] = firstAnswer[n + j]

\* Until an answer was handled the table is as it was found; while one is
\* stored, the rows that are left follow those that are there.
StoreInv ==
    /\ firstAnswer \in Seq(Restaurants)
    /\ handler = None \/ handler \in Handlers
    /\ bTest /\ handler = None => restaurantTable = atLaunch
    /\ handler # None /\ handler.rows # <<>> =>
           \E n \in 0..Len(firstAnswer) : Left(n) /\ Holds(n)
    /\ \E n \in 0..Len(firstAnswer) : Holds(n)

\* An answer is a sequence of restaurants.
LEMMA AnswerSeq ==
    ASSUME NEW q, NEW s \in SetToSeqs(SearchRestaurantByMap(q))
    PROVE  s \in Seq(Restaurants)
  <1> DEFINE S == SearchRestaurantByMap(q)
  <1>1. S \subseteq Restaurants
    BY DEF SearchRestaurantByMap
  <1>2. IsFiniteSet(S) /\ Cardinality(S) \in Nat
    BY <1>1, FS_Subset, FS_CardinalityType
  <1>3. s \in [1..Cardinality(S) -> S]
    BY DEF SetToSeqs
  <1> HIDE DEF S
  <1>4. s \in [1..Cardinality(S) -> Restaurants]
    BY <1>1, <1>3
  <1> QED
    BY <1>2, <1>4

\* A step that touches neither handler nor table; the flag may be taken down.
LEMMA QuietStore ==
    ASSUME StoreInv, UNCHANGED <<handler, restaurantTable, firstAnswer, atLaunch>>,
           bTest' = bTest \/ bTest' = FALSE
    PROVE  StoreInv'
  <1>1. \A n : Holds(n)' = Holds(n) /\ Left(n)' = Left(n)
    BY DEF Holds, Left
  <1> QED
    BY <1>1 DEF StoreInv

LEMMA NewProcessStore == NewProcess => StoreInv'
  <1> SUFFICES ASSUME NewProcess PROVE StoreInv'
    OBVIOUS
  <1>1. /\ handler' = None /\ firstAnswer' = <<>>
        /\ atLaunch' = restaurantTable /\ restaurantTable' = restaurantTable
    BY DEF NewProcess
  <1>2. 0 \in 0..Len(firstAnswer') /\ Holds(0)' /\ firstAnswer' \in Seq(Restaurants)
    BY <1>1 DEF Holds
  <1> QED
    BY <1>1, <1>2 DEF StoreInv

\* An answer comes to the handler: to be stored if it is the first.
LEMMA AnswerStore == StoreInv /\ AnswerArrives => StoreInv'
  <1> SUFFICES ASSUME StoreInv, AnswerArrives PROVE StoreInv'
    OBVIOUS
  <1>0. PICK q \in Regions : \E s \in SetToSeqs(SearchRestaurantByMap(q)) : StartHandler(q, s)
    BY DEF AnswerArrives
  <1>1. PICK s \in SetToSeqs(SearchRestaurantByMap(q)) : StartHandler(q, s)
    BY <1>0
  <1>2. /\ s \in Seq(Restaurants) /\ <<>> \in Seq(Restaurants)
        /\ handler = None /\ UNCHANGED <<bTest, restaurantTable, atLaunch>>
        /\ handler' = [rows |-> IF bTest /\ TableCreated(s) THEN s ELSE <<>>, answer |-> s]
        /\ firstAnswer' = IF bTest THEN s ELSE firstAnswer
    BY <1>1, AnswerSeq DEF AnswerArrives, StartHandler, launchVars
  <1>3. handler' \in Handlers /\ firstAnswer' \in Seq(Restaurants) /\ handler' # None
    <2>1. handler' \in Handlers
      BY <1>2 DEF Handlers
    <2> QED
      BY <1>2, <2>1 DEF StoreInv
  <1>4. CASE bTest
    <2>1. restaurantTable' = atLaunch' /\ firstAnswer' = s
      BY <1>2, <1>4 DEF StoreInv
    <2>2. 0 \in 0..Len(firstAnswer') /\ Holds(0)'
      BY <1>3, <2>1 DEF Holds
    <2>3. handler'.rows # <<>> => handler'.rows = s
      BY <1>2
    <2>4. handler'.rows # <<>> => Left(0)'
      BY <1>2, <2>1, <2>3 DEF Left
    <2> QED
      BY <1>3, <2>2, <2>4 DEF StoreInv
  <1>5. CASE ~bTest
    <2>1. firstAnswer' = firstAnswer /\ handler'.rows = <<>>
      BY <1>2, <1>5
    <2>2. \A n : Holds(n)' = Holds(n)
      BY <1>2, <2>1 DEF Holds
    <2> QED
      BY <1>2, <1>3, <1>5, <2>1, <2>2 DEF StoreInv
  <1> QED
    BY <1>4, <1>5

\* One INSERT more, or the end of the loop.
LEMMA InsertStore == StoreInv /\ InsertRow => StoreInv'
  <1> SUFFICES ASSUME StoreInv, InsertRow PROVE StoreInv'
    OBVIOUS
  <1>1. /\ handler # None /\ handler \in Handlers /\ handler.rows # <<>>
        /\ handler.rows \in Seq(Restaurants) /\ firstAnswer \in Seq(Restaurants)
        /\ UNCHANGED <<bTest, firstAnswer, atLaunch>>
    BY DEF InsertRow, StoreInv, Handlers, launchVars
  <1>2. PICK n \in 0..Len(firstAnswer) : Left(n) /\ Holds(n)
    BY <1>1 DEF StoreInv
  <1>3. CASE /\ restaurantTable' = restaurantTable \cup {Head(handler.rows)}
             /\ handler' = [handler EXCEPT !.rows = Tail(handler.rows)]
    <2>1. handler' \in Handlers /\ handler' # None /\ handler'.rows = Tail(handler.rows)
      <3>1. Tail(handler.rows) \in Seq(Restaurants)
        BY <1>1
      <3>2. handler' \in Handlers /\ handler'.rows = Tail(handler.rows)
        BY <1>1, <1>3, <3>1 DEF Handlers
      <3> QED
        BY <3>2
    <2>2. /\ Len(handler.rows) \in Nat /\ Len(handler.rows) > 0
          /\ Len(Tail(handler.rows)) = Len(handler.rows) - 1
          /\ Head(handler.rows) = handler.rows[1]
          /\ \A j \in 1..Len(Tail(handler.rows)) : Tail(handler.rows)[j] = handler.rows[j + 1]
      BY <1>1
    <2>3. n + 1 \in 0..Len(firstAnswer) /\ Head(handler.rows) = firstAnswer[n + 1]
      BY <1>1, <1>2, <2>2 DEF Left
    <2>4. Holds(n + 1)'
      <3>1. 1..(n + 1) = (1..n) \cup {n + 1}
        OBVIOUS
      <3> QED
        BY <1>1, <1>2, <1>3, <2>3, <3>1 DEF Holds
    <2>5. Left(n + 1)'
      <3>1. Len(handler'.rows) = Len(firstAnswer) - (n + 1)
        BY <1>1, <1>2, <2>1, <2>2 DEF Left
      <3>2. ASSUME NEW j \in 1..Len(handler'.rows)
            PROVE  handler'.rows[j] = firstAnswer[(n + 1) + j]
        <4>1. j + 1 \in 1..Len(handler.rows) /\ handler'.rows[j] = handler.rows[j + 1]
          BY <2>1, <2>2
        <4>2. handler.rows[j + 1] = firstAnswer[n + (j + 1)]
          BY <1>2, <4>1 DEF Left
        <4>3. n + (j + 1) = (n + 1) + j
          BY <2>1, <2>2
        <4> QED
          BY <4>1, <4>2, <4>3
      <3> QED
        BY <1>1, <3>1, <3>2 DEF Left
    <2> QED
      BY <1>1, <2>1, <2>3, <2>4, <2>5 DEF StoreInv
  <1>4. CASE /\ handler' = [handler EXCEPT !.rows = <<>>]
             /\ UNCHANGED restaurantTable
    <2>1. <<>> \in Seq(Restaurants)
      OBVIOUS
    <2>2. handler' \in Handlers /\ handler' # None /\ handler'.rows = <<>>
      BY <1>1, <1>4, <2>1 DEF Handlers
    <2>3. Holds(n)'
      BY <1>1, <1>2, <1>4 DEF Holds
    <2> QED
      BY <1>1, <2>2, <2>3 DEF StoreInv
  <1> QED
    BY <1>3, <1>4 DEF InsertRow, InsertOrStop

LEMMA StepStore == StoreInv /\ [Next]_vars => StoreInv'
  <1> SUFFICES ASSUME StoreInv, [Next]_vars PROVE StoreInv'
    OBVIOUS
  <1>1. CASE MoveMap \/ RequestFails \/ ErrorArrives
    BY <1>1, QuietStore DEF MoveMap, RequestFails, ErrorArrives, storeVars, launchVars
  <1>2. CASE AnswerArrives
    BY <1>2, AnswerStore
  <1>3. CASE InsertRow
    BY <1>3, InsertStore
  <1>4. CASE PostAnswer
    <2>1. /\ handler' = None /\ bTest' = FALSE
          /\ UNCHANGED <<restaurantTable, firstAnswer, atLaunch>>
      BY <1>4 DEF PostAnswer, launchVars
    <2>2. \A n : Holds(n)' = Holds(n)
      BY <2>1 DEF Holds
    <2> QED
      BY <2>1, <2>2 DEF StoreInv
  <1>5. CASE SelectPin \/ DeselectPin \/ SelectRow \/ SelectTargetCity \/ ClickChange
             \/ ChangeTab \/ ChooseCity
    BY <1>5, QuietStore
    DEF SelectPin, DeselectPin, SelectRow, SelectTargetCity, ClickChange, ChangeTab, ChooseCity,
        storeVars, launchVars
  <1>6. CASE ReturnToSearch \/ RepresentTableView \/ MemoryWarning
    BY <1>6, QuietStore DEF ReturnToSearch, RepresentTableView, MemoryWarning, storeVars, launchVars
  <1>7. CASE Relaunch \/ SelectMissingRow
    BY <1>7, NewProcessStore DEF Relaunch, SelectMissingRow
  <1>8. CASE UNCHANGED vars
    BY <1>8, QuietStore DEF vars, storeVars, launchVars
  <1> QED
    BY <1>1, <1>2, <1>3, <1>4, <1>5, <1>6, <1>7, <1>8 DEF Next

LEMMA InitStore == Init => StoreInv
  <1> SUFFICES ASSUME Init PROVE StoreInv
    OBVIOUS
  <1>1. /\ firstAnswer = <<>> /\ handler = None /\ restaurantTable = {} /\ atLaunch = {}
    BY DEF Init
  <1>2. 0 \in 0..Len(firstAnswer) /\ Holds(0) /\ firstAnswer \in Seq(Restaurants)
    BY <1>1 DEF Holds
  <1> QED
    BY <1>1, <1>2 DEF StoreInv

\* A process adds to the table a beginning of the first answer it got, and
\* nothing of any other (bTest, SearchTargetByMapVC.m:118-136).
THEOREM StoredByFirstAnswerAlways == Spec => []StoredByFirstAnswer
  <1>1. StoreInv => StoredByFirstAnswer
    <2> SUFFICES ASSUME StoreInv PROVE StoredByFirstAnswer
      OBVIOUS
    <2>1. PICK n \in 0..Len(firstAnswer) : Holds(n)
      BY DEF StoreInv
    <2>2. firstAnswer \in Seq(Restaurants)
      BY DEF StoreInv
    <2> DEFINE begin == SubSeq(firstAnswer, 1, n)
    <2>3. begin \in Seq(Restaurants) /\ Len(begin) = n /\ \A i \in 1..n : begin[i] = firstAnswer[i]
      BY <2>2, SubSeqProperties
    <2>4. DOMAIN begin = 1..n
      BY <2>3
    <2> HIDE DEF begin
    <2>5. ToSet(begin) = {firstAnswer[i] : i \in 1..n}
      BY <2>3, <2>4 DEF ToSet
    <2> QED
      BY <2>1, <2>5 DEF begin, Holds, StoredByFirstAnswer
  <1> QED
    BY <1>1, InitStore, StepStore, PTL DEF Spec

-----------------------------------------------------------------------------
(* Types.                                                                  *)

\* The last n of the elements of t.
EndsWith(s, t) ==
    /\ Len(s) <= Len(t)
    /\ \A j \in 1..Len(s) : s[j] = t[(Len(t) - Len(s)) + j]

LEMMA ReverseSeq ==
    ASSUME NEW S, NEW s \in Seq(S)
    PROVE  /\ Reverse(s) \in Seq(S) /\ Len(Reverse(s)) = Len(s)
           /\ \A i \in 1..Len(s) : Reverse(s)[i] = s[(Len(s) - i) + 1]
  <1>1. \A i \in 1..Len(s) : (Len(s) - i) + 1 \in 1..Len(s) /\ s[(Len(s) - i) + 1] \in S
    BY DEF Reverse
  <1>2. Reverse(s) \in [1..Len(s) -> S]
    BY <1>1 DEF Reverse
  <1> QED
    BY <1>2 DEF Reverse

LEMMA PrefixMeans ==
    ASSUME NEW S, NEW s \in Seq(S), NEW t \in Seq(S)
    PROVE  IsPrefix(s, t) <=> Len(s) <= Len(t) /\ \A i \in 1..Len(s) : s[i] = t[i]
  <1> DEFINE n == Len(s)
  <1>1. n \in Nat /\ Len(t) \in Nat /\ \A i \in 1..n : s[i] \in S
    OBVIOUS
  <1> DEFINE a == SubSeq(s, 1, n)
  <1> DEFINE b == SubSeq(t, 1, n)
  <1>2. a \in Seq(S) /\ Len(a) = n /\ \A i \in 1..n : a[i] = s[i]
    BY <1>1, SubSeqProperties
  <1>3. ASSUME n <= Len(t)
        PROVE  b \in Seq(S) /\ Len(b) = n /\ \A i \in 1..n : b[i] = t[i]
    <2>1. \A i \in 1..n : t[i] \in S
      BY <1>1, <1>3
    <2> QED
      BY <1>1, <2>1, SubSeqProperties
  <1>4. IsPrefix(s, t) <=> n <= Len(t) /\ a = b
    BY DEF IsPrefix
  <1> HIDE DEF a, b
  <1>5. ASSUME n <= Len(t), \A i \in 1..n : s[i] = t[i] PROVE a = b
    <2>1. \A i \in 1..n : a[i] = b[i]
      BY <1>2, <1>3, <1>5
    <2> QED
      BY <1>1, <1>2, <1>3, <1>5, <2>1
  <1> QED
    BY <1>2, <1>3, <1>4, <1>5

\* A suffix is what comes last.
LEMMA SuffixMeans ==
    ASSUME NEW S, NEW s \in Seq(S), NEW t \in Seq(S)
    PROVE  IsSuffix(s, t) <=> EndsWith(s, t)
  <1> DEFINE n == Len(s)
  <1> DEFINE m == Len(t)
  <1> DEFINE a == Reverse(s)
  <1> DEFINE b == Reverse(t)
  <1>1. n \in Nat /\ m \in Nat
    OBVIOUS
  <1>2. a \in Seq(S) /\ Len(a) = n /\ \A i \in 1..n : a[i] = s[(n - i) + 1]
    BY ReverseSeq
  <1>3. b \in Seq(S) /\ Len(b) = m /\ \A i \in 1..m : b[i] = t[(m - i) + 1]
    BY ReverseSeq
  <1>4. IsSuffix(s, t) <=> n <= m /\ \A i \in 1..n : a[i] = b[i]
    <2> HIDE DEF a, b
    <2>1. IsPrefix(a, b) <=> n <= m /\ \A i \in 1..n : a[i] = b[i]
      BY <1>2, <1>3, PrefixMeans
    <2> QED
      BY <2>1 DEF IsSuffix, a, b
  <1> HIDE DEF a, b, n, m
  <1>5. ASSUME n <= m, \A i \in 1..n : a[i] = b[i], NEW j \in 1..n
        PROVE  s[j] = t[(m - n) + j]
    <2> DEFINE i == (n - j) + 1
    <2>1. i \in 1..n /\ i \in 1..m /\ (n - i) + 1 = j /\ (m - i) + 1 = (m - n) + j
      BY <1>1, <1>5
    <2> HIDE DEF i
    <2>2. a[i] = s[(n - i) + 1] /\ b[i] = t[(m - i) + 1] /\ a[i] = b[i]
      BY <1>2, <1>3, <1>5, <2>1
    <2> QED
      BY <2>1, <2>2
  <1>6. ASSUME n <= m, \A j \in 1..n : s[j] = t[(m - n) + j], NEW i \in 1..n
        PROVE  a[i] = b[i]
    <2> DEFINE j == (n - i) + 1
    <2>1. j \in 1..n /\ i \in 1..m /\ (m - i) + 1 = (m - n) + j
      BY <1>1, <1>6
    <2>2. a[i] = s[(n - i) + 1] /\ b[i] = t[(m - i) + 1]
      BY <1>2, <1>3, <2>1
    <2>3. s[j] = t[(m - n) + j]
      BY <1>6, <2>1
    <2> QED
      BY <2>1, <2>2, <2>3
  <1> QED
    BY <1>4, <1>5, <1>6 DEF EndsWith, n, m

\* The list of a city: its restaurants, in the order of their names.
LEMMA OrderedList ==
    ASSUME NEW table \in SUBSET Restaurants, NEW c,
           NEW rows, rows = SearchRestaurantListByLocation(table, c)
    PROVE  /\ rows \in Seq(Restaurants)
           /\ \A i \in DOMAIN rows : /\ City[rows[i]] = c
                                     /\ i > 1 => rows[i - 1] < rows[i]
  <1> DEFINE S == {r \in table : c # None /\ City[r] = c}
  <1> DEFINE n == Cardinality(S)
  <1>1. S \in SUBSET Nat /\ S \subseteq Restaurants /\ \A r \in S : City[r] = c
    OBVIOUS
  <1>2. IsFiniteSet(S)
    BY <1>1, FS_Subset
  <1>3. rows = OrderByName(S)
    BY DEF SearchRestaurantListByLocation
  <1> HIDE DEF S
  <1>4. /\ rows \in [1..n -> S] /\ n \in Nat
        /\ \A i, j \in 1..n : i < j => rows[i] < rows[j]
    BY <1>1, <1>2, <1>3, OrderByNameOrders
  <1> HIDE DEF n
  <1>5. rows \in Seq(Restaurants) /\ DOMAIN rows = 1..n
    <2>1. rows \in [1..n -> Restaurants]
      BY <1>1, <1>4
    <2> QED
      BY <1>4, <2>1
  <1>6. ASSUME NEW i \in 1..n PROVE City[rows[i]] = c /\ (i > 1 => rows[i - 1] < rows[i])
    <2>1. rows[i] \in S
      BY <1>4
    <2>2. ASSUME i > 1 PROVE rows[i - 1] < rows[i]
      <3>1. i - 1 \in 1..n /\ i - 1 < i
        BY <1>4, <2>2
      <3> QED
        BY <1>4, <3>1
    <2> QED
      BY <1>1, <2>1, <2>2
  <1> QED
    BY <1>5, <1>6

\* A region is asked for once at a move, so that its requests are bounded.
TypeInv == TypeOK /\ \A q \in Regions : requests[q] <= moves

\* What the handler has still to store is the end of its answer.
HandlerOK == handler # None => handler \in Handlers /\ IsSuffix(handler.rows, handler.answer)

\* Any screen may be left, and the dishes screen is that of a restaurant.
ScreenOK ==
    /\ top \in {"search", "dishes", "target", "tab"}
    /\ restID \in Restaurants \cup {None}
    /\ observing \in BOOLEAN

MapOK ==
    /\ region \in Regions
    /\ requests \in [Regions -> 0..MaxMoves]
    /\ moves \in 0..MaxMoves
    /\ \A q \in Regions : requests[q] <= moves

ListOK == restaurantList \in Seq(Restaurants) /\ displayed \in Seq(Restaurants)

LEMMA Parts ==
    TypeInv <=> /\ ScreenOK /\ MapOK /\ HandlerOK /\ ListOK
                /\ bChange \in BOOLEAN /\ bTest \in BOOLEAN /\ listening \in BOOLEAN
                /\ pins \in [Restaurants -> 0..MaxPins]
                /\ selected \in Restaurants \cup {None} /\ callout \in Restaurants \cup {None}
                /\ restaurantTable \subseteq Restaurants \cap Insertable
                /\ launches \in 1..MaxLaunches
  BY DEF TypeInv, TypeOK, ScreenOK, MapOK, HandlerOK, ListOK

LEMMA PartsNext ==
    TypeInv' <=> /\ ScreenOK' /\ MapOK' /\ HandlerOK' /\ ListOK'
                 /\ bChange' \in BOOLEAN /\ bTest' \in BOOLEAN /\ listening' \in BOOLEAN
                 /\ pins' \in [Restaurants -> 0..MaxPins]
                 /\ selected' \in Restaurants \cup {None} /\ callout' \in Restaurants \cup {None}
                 /\ restaurantTable' \subseteq Restaurants \cap Insertable
                 /\ launches' \in 1..MaxLaunches
  BY DEF TypeInv, TypeOK, ScreenOK, MapOK, HandlerOK, ListOK

LEMMA ScreenKept == ScreenOK /\ UNCHANGED <<top, restID, observing>> => ScreenOK'
  BY DEF ScreenOK

LEMMA MapKept == MapOK /\ UNCHANGED mapVars => MapOK'
  BY DEF MapOK, mapVars

LEMMA HandlerKept == HandlerOK /\ UNCHANGED handler => HandlerOK'
  BY DEF HandlerOK

LEMMA ListKept == ListOK /\ UNCHANGED listVars => ListOK'
  BY DEF ListOK, listVars

\* The map moves: one request more, and one move more.
LEMMA RegionMoves ==
    ASSUME MapOK, NEW q \in Regions, RegionWillChange(q)
    PROVE  MapOK'
  <1>1. /\ moves < MaxMoves /\ moves' = moves + 1 /\ region' = q
        /\ requests' = [requests EXCEPT ![region] = @ + 1]
    BY DEF RegionWillChange
  <1>2. /\ region \in Regions /\ requests \in [Regions -> 0..MaxMoves] /\ moves \in 0..MaxMoves
        /\ \A p \in Regions : requests[p] \in 0..MaxMoves /\ requests[p] <= moves
    BY DEF MapOK
  <1>3. moves' \in 0..MaxMoves
    BY <1>1, <1>2
  <1>4. \A p \in Regions : /\ requests'[p] = IF p = region THEN requests[p] + 1 ELSE requests[p]
                           /\ requests'[p] \in 0..MaxMoves /\ requests'[p] <= moves'
    BY <1>1, <1>2, <1>3
  <1>5. requests' \in [Regions -> 0..MaxMoves]
    BY <1>1, <1>2, <1>4
  <1> QED
    BY <1>1, <1>3, <1>4, <1>5 DEF MapOK

\* A request is answered, or fails.
LEMMA RequestDone ==
    ASSUME MapOK, NEW q \in {q \in Regions : requests[q] > 0},
           requests' = [requests EXCEPT ![q] = @ - 1], UNCHANGED <<region, moves>>
    PROVE  MapOK'
  <1>1. /\ region \in Regions /\ requests \in [Regions -> 0..MaxMoves] /\ moves \in 0..MaxMoves
        /\ \A p \in Regions : requests[p] \in 0..MaxMoves /\ requests[p] <= moves
    BY DEF MapOK
  <1>2. \A p \in Regions : /\ requests'[p] = IF p = q THEN requests[p] - 1 ELSE requests[p]
                           /\ requests'[p] \in 0..MaxMoves /\ requests'[p] <= moves
    BY <1>1
  <1>3. requests' \in [Regions -> 0..MaxMoves]
    BY <1>1, <1>2
  <1> QED
    BY <1>1, <1>2, <1>3 DEF MapOK

LEMMA ShowsScreen ==
    ASSUME ScreenOK, NEW r \in Restaurants, ShowSpecificRestaurant(r)
    PROVE  ScreenOK'
  BY DEF ScreenOK, ShowSpecificRestaurant, LeaveSearch

LEMMA DeselectScreen ==
    ASSUME ScreenOK, callout \in Restaurants \cup {None}, DidDeselect
    PROVE  ScreenOK'
  BY ShowsScreen, ScreenKept DEF DidDeselect

\* A pin is touched: the map may be centered on it.
LEMMA SelectTypes ==
    ASSUME MapOK, NEW r \in Restaurants, NEW old \in Restaurants \cup {None}, DidSelect(r, old)
    PROVE  callout' \in Restaurants \cup {None} /\ MapOK'
  <1>1. CASE Coordinate(old) = Position[r]
    BY <1>1, MapKept DEF DidSelect
  <1>2. CASE Coordinate(old) # Position[r]
    <2>1. callout' = r
      BY <1>2 DEF DidSelect
    <2>2. PICK q \in Regions : IF q = region THEN UNCHANGED mapVars ELSE RegionWillChange(q)
      BY <1>2 DEF DidSelect
    <2>3. MapOK'
      BY <2>2, MapKept, RegionMoves
    <2> QED
      BY <2>1, <2>3
  <1> QED
    BY <1>1, <1>2

\* All of an answer, or nothing of it, is left to store when it arrives.
LEMMA HandlerStarts ==
    ASSUME NEW q \in {q \in Regions : requests[q] > 0}, MapOK, UNCHANGED <<region, moves>>,
           NEW s \in SetToSeqs(SearchRestaurantByMap(q)), StartHandler(q, s)
    PROVE  HandlerOK' /\ MapOK'
  <1>1. s \in Seq(Restaurants) /\ <<>> \in Seq(Restaurants)
    BY AnswerSeq
  <1>2. IsSuffix(s, s) /\ IsSuffix(<<>>, s)
    <2>1. EndsWith(s, s)
      BY <1>1 DEF EndsWith
    <2>2. EndsWith(<<>>, s)
      BY <1>1 DEF EndsWith
    <2> QED
      BY <1>1, <2>1, <2>2, SuffixMeans
  <1>3. PICK rows \in {s, <<>>} : handler' = [rows |-> rows, answer |-> s]
    BY DEF StartHandler
  <1>4. handler' \in Handlers
    BY <1>1, <1>3 DEF Handlers
  <1>5. HandlerOK'
    BY <1>2, <1>3, <1>4 DEF HandlerOK
  <1>6. MapOK'
    BY RequestDone DEF StartHandler
  <1> QED
    BY <1>5, <1>6

LEMMA TailEnds ==
    ASSUME NEW S, NEW s \in Seq(S), NEW t \in Seq(S), s # <<>>, EndsWith(s, t)
    PROVE  EndsWith(Tail(s), t)
  <1> DEFINE n == Len(s)
  <1> DEFINE m == Len(t)
  <1> DEFINE r == Tail(s)
  <1>1. n \in Nat /\ m \in Nat /\ n > 0 /\ Len(r) = n - 1
    OBVIOUS
  <1>2. \A j \in 1..(n - 1) : r[j] = s[j + 1]
    OBVIOUS
  <1>3. n <= m /\ \A j \in 1..n : s[j] = t[(m - n) + j]
    BY DEF EndsWith
  <1>4. EndsWith(r, t) <=> /\ Len(r) <= m
                           /\ \A j \in 1..Len(r) : r[j] = t[(m - Len(r)) + j]
    BY DEF EndsWith
  <1> HIDE DEF n, m, r
  <1>5. ASSUME NEW j \in 1..(n - 1) PROVE r[j] = t[(m - (n - 1)) + j]
    <2>1. j + 1 \in 1..n /\ (m - n) + (j + 1) = (m - (n - 1)) + j
      BY <1>1
    <2> QED
      BY <1>2, <1>3, <2>1
  <1>6. EndsWith(r, t)
    BY <1>1, <1>3, <1>4, <1>5
  <1> QED
    BY <1>6 DEF r

\* An INSERT takes the first row, or ends the loop: the rest is still the end.
LEMMA HandlerInserts ==
    ASSUME HandlerOK, handler # None, handler.rows # <<>>,
           InsertOrStop(Head(handler.rows), Tail(handler.rows))
    PROVE  HandlerOK'
  <1> DEFINE s == handler.rows
  <1> DEFINE t == handler.answer
  <1>1. handler \in Handlers /\ IsSuffix(s, t)
    BY DEF HandlerOK
  <1>2. s \in Seq(Restaurants) /\ t \in Seq(Restaurants) /\ s # <<>> /\ <<>> \in Seq(Restaurants)
    BY <1>1 DEF Handlers
  <1>3. PICK rows \in {Tail(s), <<>>} : handler' = [handler EXCEPT !.rows = rows]
    BY DEF InsertOrStop
  <1>4. rows \in Seq(Restaurants)
    <2>1. Tail(s) \in Seq(Restaurants)
      <3> HIDE DEF s
      <3> QED
        BY <1>2
    <2> QED
      BY <1>2, <1>3, <2>1
  <1>5. handler' \in Handlers /\ handler'.rows = rows /\ handler'.answer = t
    BY <1>1, <1>3, <1>4 DEF Handlers
  <1> HIDE DEF s, t
  <1>6. EndsWith(s, t)
    BY <1>1, <1>2, SuffixMeans
  <1>7. EndsWith(<<>>, t)
    BY <1>2 DEF EndsWith
  <1>8. EndsWith(Tail(s), t)
    BY <1>2, <1>6, TailEnds
  <1>9. EndsWith(rows, t)
    BY <1>3, <1>7, <1>8
  <1>10. IsSuffix(rows, t)
    BY <1>2, <1>4, <1>9, SuffixMeans
  <1> QED
    BY <1>5, <1>10 DEF HandlerOK

LEMMA NewProcessTypes == TypeInv /\ NewProcess => TypeInv'
  <1> SUFFICES ASSUME TypeInv, NewProcess PROVE TypeInv'
    OBVIOUS
  <1> DEFINE start == Start(restaurantTable, city')
  <1>1. /\ launches \in 1..MaxLaunches /\ MaxLaunches \in Nat
        /\ restaurantTable \subseteq Restaurants \cap Insertable
        /\ MaxMoves \in Nat /\ MaxPins \in Nat
    BY Parts
  <1>2. launches' \in 1..MaxLaunches
    <2>1. launches < MaxLaunches /\ launches' = launches + 1
      BY DEF NewProcess
    <2> QED
      BY <1>1, <2>1
  <1>3. /\ top' = "search" /\ restID' = None /\ bChange' = TRUE /\ region' \in Regions
        /\ requests' = start.requests /\ pins' = start.pins
        /\ restaurantList' \in {start.list, <<>>} /\ displayed' = restaurantList'
        /\ handler' = None /\ bTest' = TRUE /\ moves' = 0
        /\ observing' = TRUE /\ listening' = TRUE /\ selected' = None /\ callout' = None
        /\ restaurantTable' = restaurantTable
    BY DEF NewProcess, QueryRefused
  <1>4. /\ start.requests = [q \in Regions |-> 0]
        /\ start.pins = [r \in Restaurants |-> 0]
        /\ start.list = SearchRestaurantListByLocation(restaurantTable, city')
    BY DEF Start
  <1>5. start.list \in Seq(Restaurants)
    <2> DEFINE rows == SearchRestaurantListByLocation(restaurantTable, city')
    <2>1. restaurantTable \in SUBSET Restaurants
      BY <1>1
    <2>2. rows \in Seq(Restaurants)
      BY <2>1, OrderedList
    <2> HIDE DEF start
    <2> QED
      BY <1>4, <2>2
  <1> HIDE DEF start
  <1>6. ScreenOK' /\ HandlerOK' /\ ListOK'
    <2>1. <<>> \in Seq(Restaurants)
      OBVIOUS
    <2> QED
      BY <1>3, <1>5, <2>1 DEF ScreenOK, HandlerOK, ListOK
  <1>7. MapOK'
    BY <1>1, <1>3, <1>4 DEF MapOK
  <1>8. pins' \in [Restaurants -> 0..MaxPins]
    BY <1>1, <1>3, <1>4
  <1> QED
    BY <1>1, <1>2, <1>3, <1>6, <1>7, <1>8, PartsNext

LEMMA InitTypes == Init => TypeInv
  <1> SUFFICES ASSUME Init PROVE TypeInv
    OBVIOUS
  <1>1. /\ top = "search" /\ restID = None /\ bChange = TRUE /\ region \in Regions
        /\ requests = [q \in Regions |-> 0] /\ pins = [r \in Restaurants |-> 0]
        /\ handler = None /\ bTest = TRUE /\ moves = 0 /\ launches = 1
        /\ observing = TRUE /\ listening = TRUE /\ selected = None /\ callout = None
        /\ restaurantTable = {} /\ restaurantList = <<>> /\ displayed = <<>>
    BY DEF Init, Start
  <1>2. ScreenOK /\ HandlerOK /\ ListOK
    BY <1>1 DEF ScreenOK, HandlerOK, ListOK
  <1>3. MapOK
    BY <1>1 DEF MapOK
  <1>4. pins \in [Restaurants -> 0..MaxPins] /\ launches \in 1..MaxLaunches
    BY <1>1
  <1> QED
    BY <1>1, <1>2, <1>3, <1>4, Parts

LEMMA StepTypes == TypeInv /\ [Next]_vars => TypeInv'
  <1> SUFFICES ASSUME TypeInv, [Next]_vars PROVE TypeInv'
    OBVIOUS
  <1>0. /\ ScreenOK /\ MapOK /\ HandlerOK /\ ListOK
        /\ bChange \in BOOLEAN /\ bTest \in BOOLEAN /\ listening \in BOOLEAN
        /\ pins \in [Restaurants -> 0..MaxPins]
        /\ selected \in Restaurants \cup {None} /\ callout \in Restaurants \cup {None}
        /\ restaurantTable \subseteq Restaurants \cap Insertable
        /\ launches \in 1..MaxLaunches
    BY Parts
  <1> USE PartsNext, ScreenKept, MapKept, HandlerKept, ListKept
  <1>1. CASE MoveMap
    BY <1>0, <1>1, RegionMoves
    DEF MoveMap, storeVars, pinVars, screenVars, observerVars, launchVars
  <1>2. CASE AnswerArrives
    <2>1. PICK q \in {q \in Regions : requests[q] > 0} :
              \E s \in SetToSeqs(SearchRestaurantByMap(q)) : StartHandler(q, s)
      BY <1>2 DEF AnswerArrives
    <2>2. PICK s \in SetToSeqs(SearchRestaurantByMap(q)) : StartHandler(q, s)
      BY <2>1
    <2>3. UNCHANGED <<region, moves, pins, pinVars, listVars, screenVars, observerVars,
                      launchVars, bChange, city>>
      BY <1>2 DEF AnswerArrives
    <2>4. HandlerOK' /\ MapOK'
      BY <1>0, <2>2, <2>3, HandlerStarts
    <2>5. UNCHANGED <<bTest, restaurantTable>>
      BY <2>2 DEF StartHandler
    <2> QED
      BY <1>0, <2>3, <2>4, <2>5 DEF pinVars, screenVars, observerVars, launchVars
  <1>3. CASE ErrorArrives \/ RequestFails
    <2>1. PICK q \in {q \in Regions : requests[q] > 0} :
              requests' = [requests EXCEPT ![q] = @ - 1]
      BY <1>3 DEF ErrorArrives, RequestFails
    <2>2. UNCHANGED <<region, moves, handler, restaurantTable, pins, pinVars, listVars,
                      screenVars, observerVars, launchVars, bChange, city>>
      BY <1>3 DEF ErrorArrives, RequestFails, storeVars
    <2>3. bTest' \in BOOLEAN
      BY <1>0, <1>3 DEF ErrorArrives, RequestFails, storeVars
    <2>4. MapOK'
      BY <1>0, <2>1, <2>2, RequestDone
    <2> QED
      BY <1>0, <2>2, <2>3, <2>4 DEF pinVars, screenVars, observerVars, launchVars
  <1>4. CASE InsertRow
    <2>1. /\ handler # None /\ handler.rows # <<>>
          /\ InsertOrStop(Head(handler.rows), Tail(handler.rows))
          /\ UNCHANGED <<mapVars, bTest, firstAnswer, pins, pinVars, listVars, screenVars,
                         observerVars, launchVars, bChange, city>>
      BY <1>4 DEF InsertRow
    <2>2. HandlerOK'
      BY <1>0, <2>1, HandlerInserts
    <2>3. Head(handler.rows) \in Restaurants
      <3>1. handler.rows \in Seq(Restaurants)
        BY <1>0, <2>1 DEF HandlerOK, Handlers
      <3> QED
        BY <2>1, <3>1
    <2>4. restaurantTable' \subseteq Restaurants \cap Insertable
      BY <1>0, <2>1, <2>3 DEF InsertOrStop
    <2> QED
      BY <1>0, <2>1, <2>2, <2>4 DEF pinVars, screenVars, observerVars, launchVars
  <1>5. CASE PostAnswer
    <2>1. /\ \A r \in ToSet(handler.answer) : pins[r] < MaxPins
          /\ pins' = [r \in Restaurants |->
                        pins[r] + IF observing /\ r \in ToSet(handler.answer) THEN 1 ELSE 0]
          /\ bTest' = FALSE /\ handler' = None
          /\ UNCHANGED <<mapVars, restaurantTable, firstAnswer, pinVars, listVars, screenVars,
                         observerVars, launchVars, bChange, city>>
      BY <1>5 DEF PostAnswer, ShowAllAnnotations
    <2> DEFINE answer == ToSet(handler.answer)
    <2>2. pins' \in [Restaurants -> 0..MaxPins]
      <3>1. \A r \in Restaurants : pins[r] \in 0..MaxPins /\ (r \in answer => pins[r] < MaxPins)
        BY <1>0, <2>1
      <3> HIDE DEF answer
      <3>2. \A r \in Restaurants :
                pins[r] + (IF observing /\ r \in answer THEN 1 ELSE 0) \in 0..MaxPins
        BY <3>1
      <3> QED
        BY <2>1, <3>2 DEF answer
    <2>3. HandlerOK'
      BY <2>1 DEF HandlerOK
    <2> QED
      BY <1>0, <2>1, <2>2, <2>3 DEF pinVars, screenVars, observerVars, launchVars
  <1>6. CASE SelectPin
    <2>1. PICK r \in Restaurants :
              DidDeselect /\ DidSelect(r, CalloutAfterDeselect) /\ selected' = r
      BY <1>6 DEF SelectPin
    <2>2. CalloutAfterDeselect \in Restaurants \cup {None}
      BY <1>0 DEF CalloutAfterDeselect
    <2>3. callout' \in Restaurants \cup {None} /\ MapOK'
      BY <1>0, <2>1, <2>2, SelectTypes
    <2>4. ScreenOK'
      BY <1>0, <2>1, DeselectScreen
    <2>5. UNCHANGED <<handler, storeVars, pins, listVars, listening, launchVars, bChange, city>>
      BY <1>6 DEF SelectPin
    <2> QED
      BY <1>0, <2>1, <2>3, <2>4, <2>5 DEF storeVars, launchVars
  <1>7. CASE DeselectPin
    <2>1. /\ DidDeselect /\ callout' = CalloutAfterDeselect /\ selected' = None
          /\ UNCHANGED <<mapVars, handler, storeVars, pins, listVars, listening, launchVars,
                         bChange, city>>
      BY <1>7 DEF DeselectPin
    <2>2. callout' \in Restaurants \cup {None}
      BY <1>0, <2>1 DEF CalloutAfterDeselect
    <2>3. ScreenOK'
      BY <1>0, <2>1, DeselectScreen
    <2> QED
      BY <1>0, <2>1, <2>2, <2>3 DEF storeVars, launchVars
  <1>8. CASE SelectRow
    <2>1. PICK i \in DOMAIN displayed \cap DOMAIN restaurantList :
              ShowSpecificRestaurant(restaurantList[i])
      BY <1>8 DEF SelectRow
    <2>2. UNCHANGED <<mapVars, handler, storeVars, pins, pinVars, listVars, listening, launchVars,
                      bChange, city>>
      BY <1>8 DEF SelectRow
    <2>3. restaurantList[i] \in Restaurants
      <3>1. restaurantList \in Seq(Restaurants)
        BY <1>0 DEF ListOK
      <3> QED
        BY <3>1
    <2>4. ScreenOK'
      BY <1>0, <2>1, <2>3, ShowsScreen
    <2> QED
      BY <1>0, <2>2, <2>4 DEF storeVars, pinVars, launchVars
  <1>9. CASE SelectTargetCity \/ ChangeTab
    <2>1. /\ top' \in {"target", "tab"} /\ observing' = FALSE
          /\ UNCHANGED <<mapVars, handler, storeVars, pins, pinVars, listVars, restID, listening,
                         launchVars, bChange, city>>
      BY <1>9 DEF SelectTargetCity, ChangeTab, LeaveSearch
    <2>2. ScreenOK'
      BY <1>0, <2>1 DEF ScreenOK
    <2> QED
      BY <1>0, <2>1, <2>2 DEF storeVars, pinVars, launchVars
  <1>10. CASE ClickChange \/ ChooseCity
    <2>1. /\ bChange' \in BOOLEAN
          /\ UNCHANGED <<mapVars, handler, storeVars, pins, pinVars, listVars, screenVars,
                         observerVars, launchVars>>
      BY <1>0, <1>10 DEF ClickChange, ChooseCity
    <2> QED
      BY <1>0, <2>1 DEF storeVars, pinVars, screenVars, observerVars, launchVars
  <1>11. CASE ReturnToSearch
    <2> DEFINE rows == SearchRestaurantListByLocation(restaurantTable, city)
    <2>1. /\ top' = "search" /\ restaurantList' \in {rows, <<>>} /\ displayed' = restaurantList'
          /\ UNCHANGED <<mapVars, handler, storeVars, pins, pinVars, restID, observerVars,
                         launchVars, bChange, city>>
      BY <1>11 DEF ReturnToSearch, Refill, QueryRefused
    <2>2. rows \in Seq(Restaurants) /\ <<>> \in Seq(Restaurants)
      BY <1>0, OrderedList
    <2> HIDE DEF rows
    <2>3. ScreenOK' /\ ListOK'
      BY <1>0, <2>1, <2>2 DEF ScreenOK, ListOK, observerVars
    <2> QED
      BY <1>0, <2>1, <2>3 DEF storeVars, pinVars, observerVars, launchVars
  <1>12. CASE RepresentTableView \/ MemoryWarning
    <2>1. ListOK'
      <3>1. <<>> \in Seq(Restaurants)
        OBVIOUS
      <3> QED
        BY <1>0, <1>12, <3>1 DEF RepresentTableView, MemoryWarning, ListOK
    <2>2. /\ listening' \in BOOLEAN
          /\ UNCHANGED <<mapVars, handler, storeVars, pins, pinVars, screenVars, observing,
                         launchVars, bChange, city>>
      BY <1>0, <1>12 DEF RepresentTableView, MemoryWarning, observerVars
    <2> QED
      BY <1>0, <2>1, <2>2 DEF storeVars, pinVars, screenVars, launchVars
  <1>13. CASE Relaunch \/ SelectMissingRow
    BY <1>13, NewProcessTypes DEF Relaunch, SelectMissingRow
  <1>14. CASE UNCHANGED vars
    BY <1>0, <1>14 DEF vars, storeVars, pinVars, screenVars, observerVars, launchVars
  <1> QED
    BY <1>1, <1>2, <1>3, <1>4, <1>5, <1>6, <1>7, <1>8, <1>9, <1>10, <1>11, <1>12, <1>13, <1>14
    DEF Next

\* Every field has its type: the requests of a region stay within the moves
\* of the map, the handler stores the end of its answer, and every row of the
\* table is one that could be inserted (SearchTargetByMapVC.m:93-137).
THEOREM TypeCorrect == Spec => []TypeOK
  <1>1. TypeInv => TypeOK
    BY DEF TypeInv
  <1> QED
    BY <1>1, InitTypes, StepTypes, PTL DEF Spec

-----------------------------------------------------------------------------
(* The list.                                                               *)

\* The list is what is displayed, unless a memory warning has emptied it: to
\* display it again keeps the rows of the city or leaves none.
ListInv ==
    /\ restaurantList = displayed \/ restaurantList = <<>>
    /\ ListIsOfCity

\* A step that keeps the rows, the city and the search screen.
LEMMA QuietList ==
    ASSUME ListInv, UNCHANGED <<listVars, city>>, top' = "search" => top = "search"
    PROVE  ListInv'
  BY DEF ListInv, ListIsOfCity, listVars

\* The rows of the city that is chosen are displayed.
LEMMA FreshList ==
    ASSUME TypeInv,
           restaurantList' \in {SearchRestaurantListByLocation(restaurantTable, city'), QueryRefused},
           displayed' = restaurantList'
    PROVE  ListInv'
  <1>1. restaurantTable \in SUBSET Restaurants
    BY Parts
  <1>2. \A i \in DOMAIN displayed' : /\ City[displayed'[i]] = city'
                                     /\ i > 1 => displayed'[i - 1] < displayed'[i]
    BY <1>1, OrderedList DEF QueryRefused
  <1> QED
    BY <1>2 DEF ListInv, ListIsOfCity

LEMMA StepList == TypeInv /\ ListInv /\ [Next]_vars => ListInv'
  <1> SUFFICES ASSUME TypeInv, ListInv, [Next]_vars PROVE ListInv'
    OBVIOUS
  <1>1. CASE MoveMap \/ AnswerArrives \/ ErrorArrives \/ RequestFails \/ InsertRow \/ PostAnswer
    BY <1>1, QuietList
    DEF MoveMap, AnswerArrives, ErrorArrives, RequestFails, InsertRow, PostAnswer, screenVars
  <1>2. CASE SelectPin \/ DeselectPin \/ SelectRow \/ SelectTargetCity \/ ClickChange \/ ChangeTab
    BY <1>2, QuietList
    DEF SelectPin, DeselectPin, SelectRow, SelectTargetCity, ClickChange, ChangeTab
  <1>3. CASE ChooseCity
    <2>1. top = "target" /\ top' = top /\ UNCHANGED listVars
      BY <1>3 DEF ChooseCity, screenVars
    <2> QED
      BY <2>1 DEF ListInv, ListIsOfCity, listVars
  <1>4. CASE ReturnToSearch
    BY <1>4, FreshList DEF ReturnToSearch, Refill
  <1>5. CASE RepresentTableView
    <2>1. displayed' = restaurantList /\ UNCHANGED <<restaurantList, top, city>>
      BY <1>5 DEF RepresentTableView, screenVars
    <2>2. CASE restaurantList = displayed
      BY <2>1, <2>2, QuietList DEF listVars
    <2>3. CASE restaurantList = <<>>
      BY <2>1, <2>3 DEF ListInv, ListIsOfCity
    <2> QED
      BY <2>2, <2>3 DEF ListInv
  <1>6. CASE MemoryWarning
    <2>1. restaurantList' = <<>> /\ UNCHANGED <<displayed, top, city>>
      BY <1>6 DEF MemoryWarning, screenVars
    <2> QED
      BY <2>1 DEF ListInv, ListIsOfCity
  <1>7. CASE Relaunch \/ SelectMissingRow
    <2>1. NewProcess
      BY <1>7 DEF Relaunch, SelectMissingRow
    <2>2. /\ restaurantList' \in {Start(restaurantTable, city').list, QueryRefused}
          /\ displayed' = restaurantList'
      BY <2>1 DEF NewProcess
    <2> QED
      BY <2>2, FreshList DEF Start
  <1>8. CASE UNCHANGED vars
    BY <1>8, QuietList DEF vars, screenVars
  <1> QED
    BY <1>1, <1>2, <1>3, <1>4, <1>5, <1>6, <1>7, <1>8 DEF Next

\* While the search screen is shown its list has restaurants of the chosen
\* city only, each once and in order, whatever was stored, chosen or emptied
\* in between (SearchTargetByLocationTVC.m, viewWillAppear).
THEOREM ListIsOfCityAlways == Spec => []ListIsOfCity
  <1>1. Init => ListInv
    BY DEF Init, ListInv, ListIsOfCity
  <1>2. ListInv => ListIsOfCity
    BY DEF ListInv
  <1> QED
    BY <1>1, <1>2, InitTypes, StepTypes, StepList, PTL DEF Spec
=============================================================================
