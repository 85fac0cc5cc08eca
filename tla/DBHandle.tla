------------------------------ MODULE DBHandle ------------------------------
(***************************************************************************)
(* DBManager's connections to the database file.  The handle is one static *)
(* variable, db, of a process in which two queues use it without a lock:   *)
(* the main queue stores menus and runs the queries of the screens, the    *)
(* session's queue stores the restaurants of the map.  Every SQLite call   *)
(* reads db anew, so an access may work on, or close, the connection that  *)
(* the other queue opened meanwhile.                                       *)
(*                                                                         *)
(* One action is one SQLite call.  A handle is an address, which may be    *)
(* used again once its connection is closed.  A call fails while the other *)
(* queue keeps the file locked (SQLITE_BUSY; no timeout is set), which is  *)
(* possible as long as that queue has an access at work.  A call on a      *)
(* closed handle is undefined: it fails, or it ends the process; Relaunch  *)
(* is the second outcome, and may come at any time.                        *)
(***************************************************************************)
EXTENDS Naturals, Sequences

CONSTANTS
    Rows,         \* a row is its primary key
    Arrays,       \* Arrays[q]: the arrays that queue q stores
    Insertable,   \* the rows for which the text of the INSERT is valid
    Handles,      \* the connections the system grants the process at a time
    None          \* db before the first call and after a failed one; no statement

Queues == {"main", "session"}

\* The main queue stores menus, the session's queue restaurants.  The session's
\* queue also calls insertArray:IntoTable: for a menu, with an answer that has
\* none: its access is that of an array without a row, whose CREATE is refused
\* whatever the table, and the process ends after it (Relaunch).
TableOf == [q \in Queues |-> IF q = "main" THEN "dishtable" ELSE "restaurantlist"]
Tables == {"dishtable", "restaurantlist"}
QueueOf == [t \in Tables |-> IF t = "dishtable" THEN "main" ELSE "session"]

ASSUME DBHandleAssumption ==
    /\ None \notin Handles
    /\ \A q \in Queues : Arrays[q] \subseteq Seq(Rows)

VARIABLES
    created,      \* tables the file has
    tables,       \* their rows, in the order they got in
    db,           \* static sqlite3 *db
    open,         \* connections opened and not closed
    pc,           \* the next SQLite call of each queue
    arrInfo,      \* rows a queue has still to store
    stmt,         \* the connection of the main queue's prepared statement, or None
    overlapped,   \* observed: was the other queue at work when an access last began
    before        \* observed: the connections open when an access last began

vars == <<created, tables, db, open, pc, arrInfo, stmt, overlapped, before>>

Init ==
    /\ created = {}
    /\ tables = [t \in Tables |-> <<>>]
    /\ db = None
    /\ open = {}
    /\ pc = [q \in Queues |-> "idle"]
    /\ arrInfo = [q \in Queues |-> <<>>]
    /\ stmt = None
    /\ overlapped = FALSE
    /\ before = {}

Busy(q) == \E p \in Queues \ {q} : pc[p] # "idle"

\* An access of queue q begins.
Begin(q) ==
    /\ pc[q] = "idle"
    /\ overlapped' = Busy(q)
    /\ before' = open

\* sqlite3_open
Open(q, next) ==
    /\ Begin(q)
    /\ \E h \in Handles \ open : db' = h /\ open' = open \cup {h}
    /\ pc' = [pc EXCEPT ![q] = next]

\* insertArray:IntoTable:WithPrimaryKey: is called with array a.
OpenForInsert(q, a) ==
    /\ Open(q, "create")
    /\ arrInfo' = [arrInfo EXCEPT ![q] = a]
    /\ UNCHANGED <<created, tables, stmt>>

\* executeQuery is called.
OpenForQuery ==
    /\ Open("main", "prepare")
    /\ UNCHANGED <<created, tables, arrInfo, stmt>>

\* No connection is left: neither kind of access does anything more.  The handle
\* that sqlite3_open yields then, and nobody closes, is no connection to the
\* file: every call on it is refused, by the other queue too, as on None.
OpenFails(q) ==
    /\ Begin(q)
    /\ open = Handles
    /\ db' = None
    /\ UNCHANGED <<created, tables, open, pc, arrInfo, stmt>>

\* CREATE TABLE IF NOT EXISTS, with the columns of the first row.
Create(q) ==
    /\ pc[q] = "create"
    /\ arrInfo[q] # <<>>
    /\ db \in open
    /\ created' = created \cup {TableOf[q]}
    /\ pc' = [pc EXCEPT ![q] = "insert"]
    /\ UNCHANGED <<tables, db, open, arrInfo, stmt, overlapped, before>>

\* A refused call is followed by sqlite3_close, no row is tried any more.
Refuse(q) ==
    /\ pc' = [pc EXCEPT ![q] = "close"]
    /\ arrInfo' = [arrInfo EXCEPT ![q] = <<>>]
    /\ UNCHANGED <<created, tables, db, open, stmt, overlapped, before>>

\* Mutant: the connection of a table that cannot be created stays open.
CreateRefusedLeaks(q) ==
    /\ pc[q] = "create"
    /\ arrInfo[q] = <<>> \/ db \notin open \/ Busy(q)
    /\ pc' = [pc EXCEPT ![q] = "idle"]
    /\ arrInfo' = [arrInfo EXCEPT ![q] = <<>>]
    /\ UNCHANGED <<created, tables, db, open, stmt, overlapped, before>>

\* Without a first row there are no columns, and the statement is not valid.
CreateRefused(q) ==
    /\ pc[q] = "create"
    /\ arrInfo[q] = <<>> \/ db \notin open \/ Busy(q)
    /\ Refuse(q)

Stored(t) == {tables[t][i] : i \in DOMAIN tables[t]}

CanInsert(q, row) == row \in Insertable /\ row \notin Stored(TableOf[q])

InsertRow(q) ==
    /\ pc[q] = "insert"
    /\ arrInfo[q] # <<>>
    /\ db \in open
    /\ CanInsert(q, Head(arrInfo[q]))
    /\ tables' = [tables EXCEPT ![TableOf[q]] = Append(@, Head(arrInfo[q]))]
    /\ arrInfo' = [arrInfo EXCEPT ![q] = Tail(@)]
    /\ UNCHANGED <<created, db, open, pc, stmt, overlapped, before>>

\* Mutant: the loop closes the connection, and the end of the method again.
InsertRefusedClosesToo(q) ==
    /\ pc[q] = "insert"
    /\ arrInfo[q] # <<>>
    /\ ~CanInsert(q, Head(arrInfo[q])) \/ db \notin open \/ Busy(q)
    /\ pc' = [pc EXCEPT ![q] = "close"]
    /\ arrInfo' = [arrInfo EXCEPT ![q] = <<>>]
    /\ open' = open \ {db}
    /\ UNCHANGED <<created, tables, db, stmt, overlapped, before>>

\* Mutant: a row that is refused is skipped.
InsertRefusedSkips(q) ==
    /\ pc[q] = "insert"
    /\ arrInfo[q] # <<>>
    /\ ~CanInsert(q, Head(arrInfo[q])) \/ db \notin open \/ Busy(q)
    /\ arrInfo' = [arrInfo EXCEPT ![q] = Tail(@)]
    /\ UNCHANGED <<created, tables, db, open, pc, stmt, overlapped, before>>

\* The first row that is refused ends the loop.
InsertRefused(q) ==
    /\ pc[q] = "insert"
    /\ arrInfo[q] # <<>>
    /\ ~CanInsert(q, Head(arrInfo[q])) \/ db \notin open \/ Busy(q)
    /\ Refuse(q)

\* sqlite3_close, after the last row or a refusal.  It closes nothing while
\* the connection has a prepared statement, or when db is closed already.
Close(q) ==
    /\ \/ pc[q] = "close"
       \/ pc[q] = "insert" /\ arrInfo[q] = <<>>
    /\ open' = IF stmt = db THEN open ELSE open \ {db}
    /\ pc' = [pc EXCEPT ![q] = "idle"]
    /\ UNCHANGED <<created, tables, db, arrInfo, stmt, overlapped, before>>

\* sqlite3_prepare_v2 for a SELECT from table t.
Prepare(t) ==
    /\ pc["main"] = "prepare"
    /\ db \in open
    /\ t \in created
    /\ stmt' = db
    /\ pc' = [pc EXCEPT !["main"] = "step"]
    /\ UNCHANGED <<created, tables, db, open, arrInfo, overlapped, before>>

\* Mutant: the statement is not compared with NULL.
PrepareRefusedUnchecked(t) ==
    /\ pc["main"] = "prepare"
    /\ db \notin open \/ t \notin created \/ Busy("main")
    /\ pc' = [pc EXCEPT !["main"] = "step"]
    /\ UNCHANGED <<created, tables, db, open, arrInfo, stmt, overlapped, before>>

\* No statement: executeQuery returns nil, and the connection stays open.
PrepareRefused(t) ==
    /\ pc["main"] = "prepare"
    /\ db \notin open \/ t \notin created \/ Busy("main")
    /\ pc' = [pc EXCEPT !["main"] = "idle"]
    /\ UNCHANGED <<created, tables, db, open, arrInfo, stmt, overlapped, before>>

\* sqlite3_step to the last row, again and again while the file is locked,
\* and sqlite3_finalize; the connection stays open.
StepAndFinalize ==
    /\ pc["main"] = "step"
    /\ stmt' = None
    /\ pc' = [pc EXCEPT !["main"] = "idle"]
    /\ UNCHANGED <<created, tables, db, open, arrInfo, overlapped, before>>

\* A new process; what the INSERTs wrote is in the file.
Relaunch ==
    /\ db' = None
    /\ open' = {}
    /\ pc' = [q \in Queues |-> "idle"]
    /\ arrInfo' = [q \in Queues |-> <<>>]
    /\ stmt' = None
    /\ overlapped' = FALSE
    /\ before' = {}
    /\ UNCHANGED <<created, tables>>

Next ==
    \/ \E q \in Queues :
          \/ \E a \in Arrays[q] : OpenForInsert(q, a)
          \/ OpenFails(q)
          \/ Create(q)
          \/ CreateRefused(q)
          \/ InsertRow(q)
          \/ InsertRefused(q)
          \/ Close(q)
    \/ OpenForQuery
    \/ \E t \in Tables : Prepare(t) \/ PrepareRefused(t)
    \/ StepAndFinalize
    \/ Relaunch

Spec == Init /\ [][Next]_vars

-----------------------------------------------------------------------------
Calls == {"idle", "create", "insert", "close", "prepare", "step"}

\* Type invariant; a statement is only stepped through when there is one, and
\* its connection is open, whatever the other queue closes meanwhile.
TypeOK ==
    /\ created \in SUBSET Tables
    /\ tables \in [Tables -> Seq(Rows)]
    /\ db \in Handles \cup {None}
    /\ open \in SUBSET Handles
    /\ pc \in [Queues -> Calls]
    /\ pc["session"] \notin {"prepare", "step"}
    /\ arrInfo \in [Queues -> Seq(Rows)]
    /\ IF pc["main"] = "step" THEN stmt \in open ELSE stmt = None
    /\ overlapped \in BOOLEAN
    /\ before \in SUBSET Handles

\* An access that has the file to itself makes every call on the connection it
\* opened: no path of DBManager closes a connection twice or uses it closed.
SerialUseIsSafe ==
    ~overlapped =>
        \A q \in Queues : pc[q] \in Calls \ {"idle"} => db \in open

\* An insertion that has the file to itself leaves no connection behind,
\* whichever call is refused, and a query leaves at most its own: only
\* queries, and accesses that overlap, use the connections up.
OnlyQueriesLeak ==
    [][\A q \in Queues :
           ~overlapped /\ pc[q] # "idle" /\ pc'[q] = "idle" =>
               open' \subseteq IF pc[q] \in {"prepare", "step"} THEN before \cup {db}
                                                                ELSE before]_vars

\* What is promised to the readers of the tables holds however the accesses
\* overlap: rows get in in order, once, without gaps, until the rest is given up.
Store == INSTANCE RowStore WITH
             Arrays <- [t \in Tables |-> Arrays[QueueOf[t]]],
             rows <- tables,
             todo <- [t \in Tables |-> arrInfo[QueueOf[t]]]

IsRowStore == Store!Spec
=============================================================================
