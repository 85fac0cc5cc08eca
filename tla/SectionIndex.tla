---------------------------- MODULE SectionIndex ----------------------------
(***************************************************************************)
(* How a table of names gets its sections (SelectedLocationTVC, and with   *)
(* the same text LocationList): the names are sorted in place, then cut    *)
(* into a dictionary from first letters to arrays.                         *)
(*                                                                         *)
(* A name is a number of two digits, its letters; numbers are ordered as   *)
(* compare: orders the names.  Letters 0 to 4 are capitals, and 5 to 9 are *)
(* the same letters in lower case.                                         *)
(***************************************************************************)
EXTENDS Naturals, SequencesExt

\* substringWithRange: (0, 1) of a name.  Of an empty name it raises: no list
\* has one (names have two letters here).
Initial(name) == name \div 10

\* The exchange in the inner loop of bubbleSort.
Exchange(list, j) ==
    IF list[j] > list[j + 1]
    THEN [list EXCEPT ![j] = list[j + 1], ![j + 1] = list[j]]
    ELSE list

UpTo(n) == [i \in 1..n |-> i]

\* The inner loop of bubbleSort in its pass i.
Pass(list, i) == FoldLeft(Exchange, list, UpTo(Len(list) - i))

\* bubbleSort: after pass i the i largest names are in place.
BubbleSort(list) == FoldLeft(Pass, list, UpTo(Len(list) - 1))

\* setObject:forKey:
SetObject(dic, key, value) == [k \in DOMAIN dic \cup {key} |-> IF k = key THEN value ELSE dic[k]]

\* Mutant: the last run of names is only stored if its letter is new.
StoreLastMissing(acc) == acc.dic

\* The last element stores what is left in tmpArray.
StoreLast(acc) == SetObject(acc.dic, acc.prehead, acc.tmpArray)

\* The body of the loop of convertArraytoDictionary: a new first letter
\* stores the run of names before it.
NextName(acc, name) ==
    IF Initial(name) = acc.prehead
    THEN [acc EXCEPT !.tmpArray = Append(@, name)]
    ELSE [dic |-> SetObject(acc.dic, acc.prehead, acc.tmpArray),
          prehead |-> Initial(name),
          tmpArray |-> <<name>>]

\* convertArraytoDictionary, of a list that is not empty: objectAtIndex: 0
\* raises for an empty one.
ConvertArraytoDictionary(list) ==
    LET sorted == BubbleSort(list)
    IN  StoreLast(FoldLeft(NextName,
                           [dic |-> [k \in {} |-> <<>>], prehead |-> Initial(sorted[1]),
                            tmpArray |-> <<>>],
                           sorted))

\* The members of S in the order that op gives them.
InOrder(S, op(_, _)) ==
    CHOOSE s \in SetToSeqs(S) : \A i, j \in DOMAIN s : i < j => op(s[i], s[j])

\* caseInsensitiveCompare:, as it orders letters; a capital comes before its
\* small letter.
KeyBefore(k, l) == k % 5 < l % 5 \/ (k % 5 = l % 5 /\ k < l)

\* sortedArrayUsingSelector:, for the titles of the sections on screen.
SortKeys(dic) == InOrder(DOMAIN dic, KeyBefore)

\* The rows on screen, from top to bottom.
DisplayedRows(dic) ==
    LET keys == SortKeys(dic)
    IN  FlattenSeq([i \in DOMAIN keys |-> dic[keys[i]]])
=============================================================================
