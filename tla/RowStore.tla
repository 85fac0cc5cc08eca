------------------------------ MODULE RowStore ------------------------------
(***************************************************************************)
(* What the tables of the database promise to the screens that read them:  *)
(* the rows of an array get into their table one by one and in order, none *)
(* of them twice and none of them left out, up to a point where the rest   *)
(* of the array is given up.                                               *)
(***************************************************************************)
EXTENDS Sequences

CONSTANTS Tables, Arrays   \* Arrays[t]: the arrays that may be stored in t

VARIABLES
    rows,   \* the rows of each table, as they got in
    todo    \* what is left of the array that is being stored in it

Has(t, row) == \E i \in DOMAIN rows[t] : rows[t][i] = row

Init == /\ rows = [t \in Tables |-> <<>>]
        /\ todo = [t \in Tables |-> <<>>]

Begin(t) == /\ todo[t] = <<>>
            /\ \E a \in Arrays[t] : todo' = [todo EXCEPT ![t] = a]
            /\ UNCHANGED rows

Put(t) == /\ todo[t] # <<>>
          /\ ~Has(t, Head(todo[t]))
          /\ rows' = [rows EXCEPT ![t] = Append(@, Head(todo[t]))]
          /\ todo' = [todo EXCEPT ![t] = Tail(@)]

GiveUp(t) == /\ todo' = [todo EXCEPT ![t] = <<>>]
             /\ UNCHANGED rows

Restart == /\ todo' = [t \in Tables |-> <<>>]
           /\ UNCHANGED rows

Next == \/ \E t \in Tables : Begin(t) \/ Put(t) \/ GiveUp(t)
        \/ Restart

Spec == Init /\ [][Next]_<<rows, todo>>
=============================================================================
