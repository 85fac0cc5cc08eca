--------------------------- MODULE MCSectionIndex ---------------------------
(* Checks SectionIndex for every list of up to MaxLen names, and           *)
(* DishSections for every menu of up to MaxDishes dishes: the list of a    *)
(* screen of places, or the menu of a restaurant, grows by an entry each   *)
(* time the screen appears.                                                *)
EXTENDS DishSections

CONSTANTS Names, MaxLen, DishTypes, MaxDishes

ASSUME NamesAssumption == Names \subseteq Nat /\ MaxLen \in Nat /\ MaxDishes \in Nat

VARIABLES origList, placesDic,  \* of a screen of places: its names and sortedDic
          srcList, dishDic      \* of a screen of dishes: its menu and sortedDic

listsVars == <<origList, placesDic, srcList, dishDic>>

ListsInit == /\ origList = <<>> /\ placesDic = [k \in {} |-> <<>>]
             /\ srcList = <<>> /\ dishDic = SortedDictionary(<<>>)

Appear == /\ srcList = <<>>
          /\ Len(origList) < MaxLen
          /\ \E n \in Names : origList' = Append(origList, n)
          /\ placesDic' = ConvertArraytoDictionary(origList')
          /\ UNCHANGED <<srcList, dishDic>>

MenuShown == /\ origList = <<>>
             /\ Len(srcList) < MaxDishes
             /\ \E t \in DishTypes :
                  srcList' = Append(srcList, [dishID |-> Len(srcList) + 1, dishType |-> t])
             /\ dishDic' = SortedDictionary(srcList')
             /\ UNCHANGED <<origList, placesDic>>

ListsSpec == ListsInit /\ [][Appear \/ MenuShown]_listsVars

Count(name, list) == Cardinality({i \in DOMAIN list : list[i] = name})

\* The rows on screen are the names of the list, each as often as the list
\* has it: convertArraytoDictionary loses and repeats none, although a first
\* letter that came back later would overwrite its section.  A section has the
\* names of its letter, in order, and at least one.
RowsAreTheNames ==
    /\ \A n \in Names : Count(n, DisplayedRows(placesDic)) = Count(n, origList)
    /\ \A k \in DOMAIN placesDic :
          LET names == placesDic[k]
          IN  /\ names # <<>>
              /\ \A i \in DOMAIN names : Initial(names[i]) = k
              /\ \A i \in DOMAIN names : i > 1 => names[i - 1] <= names[i]

\* From top to bottom the table of dishes shows the dishes of each known type
\* once, in the order of the menu, whichever types the menu leaves out or
\* adds: getNameofSection and getNumberofSection count the known types only,
\* numberOfSectionsInTableView all of them.
RowsAreDishes ==
    DishRows(dishDic) =
        FlattenSeq([i \in DOMAIN SortedArr |->
                      Only(srcList, {dish \in ToSet(srcList) : dish.dishType = SortedArr[i]})])
=============================================================================
