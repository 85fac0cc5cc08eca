---------------------------- MODULE OrderHistory ----------------------------
(***************************************************************************)
(* The order history of the terminal: the OrderHistoryData singleton of    *)
(* O/OrderHistoryData.m.  It owns the dictionary of the order being        *)
(* prepared (curOrdrtDic), the list of the orders placed                   *)
(* (orderHistoryList) and the property list file the orders are saved to.  *)
(*                                                                         *)
(* A dictionary is abstracted to its two groups of keys: the four keys the *)
(* setup form writes together (setup) and the four keys the dishes screen  *)
(* writes together (order).  A group is absent (None) or has a value.      *)
(*                                                                         *)
(* Objective-C collections hold references.  writeModificationintoLocalFile*)
(* adds the draft dictionary itself to the list, so an entry of the list   *)
(* is either the reference Draft to curOrdrtDic or a dictionary that was   *)
(* loaded from the file.                                                   *)
(***************************************************************************)
EXTENDS Naturals, Sequences

CONSTANTS
    None,   \* an absent group of keys; no file on disk
    Draft   \* the reference to the one dictionary curOrdrtDic points to

VARIABLES
    curOrdrtDic,        \* content of the draft dictionary
    orderHistoryList,   \* in memory: references and loaded dictionaries
    localFile,          \* OrderHistoryData.plist, or None when there is none
    writing             \* inside writeModificationintoLocalFile, file deleted

historyVars == <<curOrdrtDic, orderHistoryList, localFile, writing>>

EmptyDict == [setup |-> None, order |-> None]

\* What a reader of the entry e sees when the draft dictionary holds d.
Deref(e, d) == IF e = Draft THEN d ELSE e

\* First launch: no file, so both objects are fresh.
HistoryInit ==
    /\ curOrdrtDic = EmptyDict
    /\ orderHistoryList = <<>>
    /\ localFile = None
    /\ writing = FALSE

\* The setup form empties the draft, then writes its own keys.
SetupDraft(info) == curOrdrtDic' = [EmptyDict EXCEPT !.setup = info]

\* The dishes screen writes its keys into whatever the draft holds.
FillDraft(info) == curOrdrtDic' = [curOrdrtDic EXCEPT !.order = info]

\* The old file goes first: from here to WriteLocalFile there is none.
DeleteInfoLocalFile ==
    /\ localFile' = None
    /\ writing' = TRUE

\* Mutant: the draft is emptied before it is looked at, so nothing is added.
WriteLocalFileEmptiesFirst(accepted) ==
    /\ writing
    /\ curOrdrtDic' = EmptyDict
    /\ UNCHANGED orderHistoryList
    /\ localFile' = IF accepted THEN [i \in 1..Len(orderHistoryList) |->
                                         Deref(orderHistoryList[i], EmptyDict)]
                    ELSE None
    /\ writing' = FALSE

\* Mutant: the file is written before the draft is added to the list.
WriteLocalFileTooEarly(accepted) ==
    /\ writing
    /\ curOrdrtDic' = EmptyDict
    /\ orderHistoryList' = Append(orderHistoryList, Draft)
    /\ localFile' = IF accepted THEN [i \in 1..Len(orderHistoryList) |->
                                         Deref(orderHistoryList[i], EmptyDict)]
                    ELSE None
    /\ writing' = FALSE

\* Mutant: the draft keeps its keys for the next order.
WriteLocalFileKeepsDraft(accepted) ==
    /\ writing
    /\ orderHistoryList' = Append(orderHistoryList, Draft)
    /\ localFile' = IF accepted THEN [i \in 1..Len(orderHistoryList') |->
                                         Deref(orderHistoryList'[i], curOrdrtDic)]
                    ELSE None
    /\ writing' = FALSE
    /\ UNCHANGED curOrdrtDic

\* The draft is added by reference and emptied; then the list is written.
\* The write is atomic, and when the system refuses it nothing reports it.
WriteLocalFile(accepted) ==
    /\ writing
    /\ orderHistoryList' = IF curOrdrtDic # EmptyDict
                           THEN Append(orderHistoryList, Draft)
                           ELSE orderHistoryList
    /\ curOrdrtDic' = EmptyDict
    /\ localFile' = IF accepted
                    THEN [i \in 1..Len(orderHistoryList') |->
                              Deref(orderHistoryList'[i], curOrdrtDic')]
                    ELSE None
    /\ writing' = FALSE

\* Mutant: the new process starts with an empty list whatever is on disk.
SetupInstanceIgnoringFile ==
    /\ orderHistoryList' = <<>>
    /\ curOrdrtDic' = EmptyDict
    /\ writing' = FALSE
    /\ UNCHANGED localFile

\* A new process reads the file; everything else in memory is gone.
SetupInstancefromLocalFile ==
    /\ orderHistoryList' = IF localFile # None THEN localFile ELSE <<>>
    /\ curOrdrtDic' = EmptyDict
    /\ writing' = FALSE
    /\ UNCHANGED localFile
=============================================================================
