---------------------------- MODULE DishSections ----------------------------
(***************************************************************************)
(* The table of OrderDishesTVC: below the description of the restaurant,   *)
(* the dishes in one section per type.  sortedDic has the types that the   *)
(* menu uses, sortedArr the types that the app knows, in the order of the  *)
(* sections; sections and rows are counted here from 0 and 1.              *)
(***************************************************************************)
EXTENDS SectionIndex

\* viewDidLoad
SortedArr == <<"description", "breakfast", "lunch", "dinner">>

\* The body of the loop of convertNetworkdata2SortedDictionary.  Every dish has
\* a dishType: without one the dictionary raises and the process ends.
AddDish(dic, dish) ==
    IF dish.dishType \in DOMAIN dic
    THEN [dic EXCEPT ![dish.dishType] = Append(@, dish)]
    ELSE SetObject(dic, dish.dishType, <<dish>>)

SortedDictionary(srcList) == FoldLeft(AddDish, [k \in {} |-> <<>>], srcList)

\* Mutant: the section of the description is not counted.
NumberOfDishSections(dic) == Cardinality(DOMAIN dic)

\* A section for the description and for each type of the menu, known or not.
NumberOfSections(dic) == 1 + Cardinality(DOMAIN dic)

\* The elements of s that are in S, in their order: a loop that counts them.
Only(s, S) == FoldLeft(LAMBDA kept, x : IF x \in S THEN Append(kept, x) ELSE kept, <<>>, s)

\* The known types with dishes are counted in their order; a section beyond
\* them has no name.
NameOfSection(dic, section) ==
    LET known == Only(SortedArr, DOMAIN dic)
    IN  IF section \in DOMAIN known THEN known[section] ELSE "nil"

\* getNumberofSection and its caller
NumberOfRowsInSection(dic, section) ==
    IF section = 0 THEN 1
    ELSE IF NameOfSection(dic, section) = "nil" THEN 0
    ELSE Len(dic[NameOfSection(dic, section)])

\* The dish a row shows, and that touching it hands to the detail screen.
InfoOfIndexPath(dic, section, row) == dic[NameOfSection(dic, section)][row]

\* The rows of dishes on screen, from top to bottom.
DishRows(dic) ==
    FlattenSeq([section \in 1..NumberOfSections(dic) - 1 |->
                  [row \in 1..NumberOfRowsInSection(dic, section) |->
                     InfoOfIndexPath(dic, section, row)]])
=============================================================================
