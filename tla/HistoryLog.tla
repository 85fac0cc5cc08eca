----------------------------- MODULE HistoryLog -----------------------------
(***************************************************************************)
(* What the order history promises, without dictionaries, references or    *)
(* screens: a log that grows by one order at a time, kept across process   *)
(* restarts exactly when its copy on disk is intact.  A restart keeps all  *)
(* of the log or none of it.                                               *)
(***************************************************************************)
EXTENDS Naturals

VARIABLES
    log,      \* number of orders in the history
    intact    \* is there a copy on disk

logVars == <<log, intact>>

Init == log = 0 /\ intact = FALSE

\* The copy is given up before its replacement is written.
Begin == intact' = FALSE /\ UNCHANGED log

\* One more order, and a new copy if the system takes it.
Commit == log' = log + 1 /\ ~intact /\ intact' \in BOOLEAN

Restart == log' = (IF intact THEN log ELSE 0) /\ UNCHANGED intact

Next == Begin \/ Commit \/ Restart

Spec == Init /\ [][Next]_logVars
=============================================================================
