--------------------------- MODULE DBHandleProofs ---------------------------
(***************************************************************************)
(* What holds of DBManager's one handle for all rows, arrays and numbers   *)
(* of connections, checked by TLAPS.                                       *)
(***************************************************************************)
EXTENDS DBHandle, TLAPS

USE DBHandleAssumption

\* Nothing is left to store unless a queue is storing.
ArraysAtWork ==
    \A q \in Queues : pc[q] \notin {"create", "insert"} => arrInfo[q] = <<>>

\* Unless accesses overlap, one queue is at work, on the connection it opened.
OneAtWork ==
    ~overlapped =>
        /\ \A p, q \in Queues : pc[p] # "idle" /\ pc[q] # "idle" => p = q
        /\ \A q \in Queues : pc[q] # "idle" => open \subseteq before \cup {db}

IInv ==
    /\ TypeOK
    /\ ArraysAtWork
    /\ OneAtWork
    /\ SerialUseIsSafe

-----------------------------------------------------------------------------
LEMMA InitIInv == Init => IInv
<1> SUFFICES ASSUME Init PROVE IInv
  OBVIOUS
<1> USE DEF Init, Queues
<1>1. TypeOK
  <2>1. <<>> \in Seq(Rows)
    OBVIOUS
  <2> QED BY <2>1 DEF TypeOK, Calls
<1>2. ArraysAtWork
  BY DEF ArraysAtWork
<1>3. OneAtWork
  BY DEF OneAtWork
<1>4. SerialUseIsSafe
  BY DEF SerialUseIsSafe
<1> QED BY <1>1, <1>2, <1>3, <1>4 DEF IInv

\* The types survive every step, whatever the other queue is doing.
LEMMA TypeStep == TypeOK /\ ArraysAtWork /\ [Next]_vars => TypeOK'
<1> SUFFICES ASSUME TypeOK, ArraysAtWork, [Next]_vars PROVE TypeOK'
  OBVIOUS
<1> USE DEF TypeOK, Queues, Calls
<1>1. ASSUME NEW q \in Queues, NEW a \in Arrays[q], OpenForInsert(q, a) PROVE TypeOK'
  <2>1. a \in Seq(Rows)
    OBVIOUS
  <2> QED BY <1>1, <2>1 DEF OpenForInsert, Open, Begin, Busy
<1>2. ASSUME NEW q \in Queues, OpenFails(q) PROVE TypeOK'
  BY <1>2 DEF OpenFails, Begin, Busy
<1>3. ASSUME NEW q \in Queues, Create(q) PROVE TypeOK'
  <2>1. TableOf[q] \in Tables
    BY DEF TableOf, Tables
  <2> QED BY <1>3, <2>1 DEF Create
<1>4. ASSUME NEW q \in Queues, CreateRefused(q) PROVE TypeOK'
  BY <1>4 DEF CreateRefused, Refuse
<1>5. ASSUME NEW q \in Queues, InsertRow(q) PROVE TypeOK'
  <2>1. TableOf[q] \in Tables
    BY DEF TableOf, Tables
  <2>2. /\ Head(arrInfo[q]) \in Rows
        /\ Tail(arrInfo[q]) \in Seq(Rows)
    BY <1>5 DEF InsertRow
  <2>3. Append(tables[TableOf[q]], Head(arrInfo[q])) \in Seq(Rows)
    BY <2>1, <2>2
  <2> QED BY <1>5, <2>1, <2>2, <2>3 DEF InsertRow
<1>6. ASSUME NEW q \in Queues, InsertRefused(q) PROVE TypeOK'
  BY <1>6 DEF InsertRefused, Refuse
<1>7. ASSUME NEW q \in Queues, Close(q) PROVE TypeOK'
  BY <1>7 DEF Close
<1>8. CASE OpenForQuery
  BY <1>8 DEF OpenForQuery, Open, Begin, Busy
<1>9. ASSUME NEW t \in Tables, Prepare(t) PROVE TypeOK'
  BY <1>9 DEF Prepare
<1>10. ASSUME NEW t \in Tables, PrepareRefused(t) PROVE TypeOK'
  BY <1>10 DEF PrepareRefused
<1>11. CASE StepAndFinalize
  BY <1>11 DEF StepAndFinalize
<1>12. CASE Relaunch
  <2>1. <<>> \in Seq(Rows)
    OBVIOUS
  <2> QED BY <1>12, <2>1 DEF Relaunch
<1>13. CASE UNCHANGED vars
  BY <1>13 DEF vars
<1> QED BY <1>1, <1>2, <1>3, <1>4, <1>5, <1>6, <1>7, <1>8, <1>9, <1>10, <1>11,
           <1>12, <1>13 DEF Next

\* An array is only there between sqlite3_open and the last row or a refusal.
LEMMA ArraysStep == TypeOK /\ ArraysAtWork /\ [Next]_vars => ArraysAtWork'
<1> SUFFICES ASSUME TypeOK, ArraysAtWork, [Next]_vars PROVE ArraysAtWork'
  OBVIOUS
<1> USE DEF TypeOK, ArraysAtWork, Queues
<1>1. ASSUME NEW q \in Queues, NEW a \in Arrays[q], OpenForInsert(q, a) PROVE ArraysAtWork'
  BY <1>1 DEF OpenForInsert, Open
<1>2. ASSUME NEW q \in Queues, OpenFails(q) \/ Create(q) PROVE ArraysAtWork'
  BY <1>2 DEF OpenFails, Create
<1>3. ASSUME NEW q \in Queues, CreateRefused(q) \/ InsertRefused(q) PROVE ArraysAtWork'
  BY <1>3 DEF CreateRefused, InsertRefused, Refuse
<1>4. ASSUME NEW q \in Queues, InsertRow(q) \/ Close(q) PROVE ArraysAtWork'
  <2>1. CASE InsertRow(q)
    BY <2>1 DEF InsertRow
  <2>2. CASE Close(q)
    <3>1. arrInfo[q] = <<>>
      BY <2>2 DEF Close
    <3> QED BY <2>2, <3>1 DEF Close
  <2> QED BY <1>4, <2>1, <2>2
<1>5. CASE OpenForQuery
  BY <1>5 DEF OpenForQuery, Open, Begin
<1>6. ASSUME NEW t \in Tables, Prepare(t) \/ PrepareRefused(t) PROVE ArraysAtWork'
  BY <1>6 DEF Prepare, PrepareRefused
<1>7. CASE StepAndFinalize
  BY <1>7 DEF StepAndFinalize
<1>8. CASE Relaunch
  BY <1>8 DEF Relaunch
<1>9. CASE UNCHANGED vars
  BY <1>9 DEF vars
<1> QED BY <1>1, <1>2, <1>3, <1>4, <1>5, <1>6, <1>7, <1>8, <1>9 DEF Next

\* The observation of an overlap begins and ends with sqlite3_open.
LEMMA SerialStep ==
    IInv /\ [Next]_vars => OneAtWork' /\ SerialUseIsSafe'
<1> SUFFICES ASSUME IInv, [Next]_vars PROVE OneAtWork' /\ SerialUseIsSafe'
  OBVIOUS
<1> USE DEF IInv, TypeOK, OneAtWork, SerialUseIsSafe, Queues, Calls
<1>1. ASSUME NEW q \in Queues, NEW next \in {"create", "prepare"}, Open(q, next)
      PROVE  OneAtWork' /\ SerialUseIsSafe'
  <2>1. PICK h \in Handles \ open : db' = h /\ open' = open \cup {h}
    BY <1>1 DEF Open
  <2>2. ~overlapped' => \A p \in Queues : p # q => pc'[p] = "idle"
    BY <1>1 DEF Open, Begin, Busy
  <2>3. before' = open
    BY <1>1 DEF Open, Begin
  <2> QED BY <2>1, <2>2, <2>3
<1>2. ASSUME NEW q \in Queues, OpenFails(q) PROVE OneAtWork' /\ SerialUseIsSafe'
  <2>1. ~overlapped' => \A p \in Queues : pc'[p] = "idle"
    BY <1>2 DEF OpenFails, Begin, Busy
  <2> QED BY <2>1
<1>3. ASSUME NEW q \in Queues, Create(q) \/ InsertRow(q)
      PROVE  OneAtWork' /\ SerialUseIsSafe'
  BY <1>3 DEF Create, InsertRow
<1>4. ASSUME NEW q \in Queues, CreateRefused(q) \/ InsertRefused(q)
      PROVE  OneAtWork' /\ SerialUseIsSafe'
  BY <1>4 DEF CreateRefused, InsertRefused, Refuse
<1>5. ASSUME NEW q \in Queues, Close(q) PROVE OneAtWork' /\ SerialUseIsSafe'
  <2>1. pc[q] # "idle" /\ pc'[q] = "idle" /\ \A p \in Queues : p # q => pc'[p] = pc[p]
    BY <1>5 DEF Close
  <2>2. ~overlapped' => ~overlapped
    BY <1>5 DEF Close
  <2>3. ~overlapped' => \A p \in Queues : pc'[p] = "idle"
    BY <2>1, <2>2
  <2> QED BY <2>3
<1>6. ASSUME NEW t \in Tables, Prepare(t) \/ PrepareRefused(t)
      PROVE  OneAtWork' /\ SerialUseIsSafe'
  BY <1>6 DEF Prepare, PrepareRefused
<1>7. CASE StepAndFinalize
  BY <1>7 DEF StepAndFinalize
<1>8. CASE Relaunch
  BY <1>8 DEF Relaunch
<1>9. CASE UNCHANGED vars
  BY <1>9 DEF vars
<1>10. CASE OpenForQuery
  BY <1>1, <1>10 DEF OpenForQuery
<1>11. ASSUME NEW q \in Queues, NEW a \in Arrays[q], OpenForInsert(q, a)
       PROVE  OneAtWork' /\ SerialUseIsSafe'
  BY <1>1, <1>11 DEF OpenForInsert
<1> QED BY <1>2, <1>3, <1>4, <1>5, <1>6, <1>7, <1>8, <1>9, <1>10, <1>11 DEF Next

LEMMA NextIInv == IInv /\ [Next]_vars => IInv'
BY TypeStep, ArraysStep, SerialStep DEF IInv

LEMMA Inductive == Spec => []IInv
BY InitIInv, NextIInv, PTL DEF Spec

\* In every state the variables have their types, and a statement that is
\* stepped through is one of an open connection.
THEOREM TypeCorrect == Spec => []TypeOK
<1>1. IInv => TypeOK
  BY DEF IInv
<1> QED BY Inductive, <1>1, PTL

\* Every call of an access that has the file to itself is made on the open
\* connection of that access.
THEOREM SerialUseIsSafeAlways == Spec => []SerialUseIsSafe
<1>1. IInv => SerialUseIsSafe
  BY DEF IInv
<1> QED BY Inductive, <1>1, PTL

-----------------------------------------------------------------------------
\* The step that ends an access: a query may leave its connection, an
\* insertion must not.
LEMMA LeakStep ==
    ASSUME IInv, [Next]_vars, NEW q \in Queues,
           ~overlapped, pc[q] # "idle", pc'[q] = "idle"
    PROVE  open' \subseteq IF pc[q] \in {"prepare", "step"} THEN before \cup {db}
                                                            ELSE before
<1> USE DEF IInv, TypeOK, OneAtWork, SerialUseIsSafe, Queues, Calls
<1>1. /\ open \subseteq before \cup {db}
      /\ db \in open
      /\ \A p \in Queues : p # q => pc[p] = "idle"
  OBVIOUS
<1>2. ASSUME NEW p \in Queues, Close(p) PROVE open' \subseteq before
  <2>1. p = q /\ pc[q] \in {"close", "insert"}
    BY <1>1, <1>2 DEF Close
  <2>2. pc["main"] # "step"
    BY <1>1, <2>1
  <2>3. stmt # db
    BY <1>1, <2>2
  <2> QED BY <1>1, <1>2, <2>3 DEF Close
<1>3. ASSUME NEW t \in Tables, PrepareRefused(t) \/ StepAndFinalize
      PROVE  pc[q] \in {"prepare", "step"} /\ open' = open
  BY <1>1, <1>3 DEF PrepareRefused, StepAndFinalize
<1>4. CASE Relaunch
  BY <1>4 DEF Relaunch
<1>5. CASE UNCHANGED vars
  BY <1>5 DEF vars
<1>6. ASSUME NEW p \in Queues,
             \/ \E a \in Arrays[p] : OpenForInsert(p, a)
             \/ OpenFails(p) \/ Create(p) \/ CreateRefused(p)
             \/ InsertRow(p) \/ InsertRefused(p) \/ OpenForQuery
             \/ \E t \in Tables : Prepare(t)
      PROVE  FALSE
  BY <1>6 DEF OpenForInsert, OpenForQuery, Open, OpenFails, Create, CreateRefused,
              InsertRow, InsertRefused, Refuse, Prepare
<1>7. Close(q) \/ ~Close(q)
  OBVIOUS
<1>8. "dishtable" \in Tables
  BY DEF Tables
<1>9. CASE StepAndFinalize
  BY <1>1, <1>3, <1>8, <1>9
<1>10. ASSUME NEW p \in Queues, Close(p)
       PROVE  open' \subseteq IF pc[q] \in {"prepare", "step"} THEN before \cup {db}
                                                               ELSE before
  BY <1>2, <1>10
<1>11. ASSUME NEW t \in Tables, PrepareRefused(t)
       PROVE  open' \subseteq IF pc[q] \in {"prepare", "step"} THEN before \cup {db}
                                                               ELSE before
  BY <1>1, <1>3, <1>11
<1> QED BY <1>4, <1>5, <1>6, <1>9, <1>10, <1>11 DEF Next

\* Only queries and overlapping accesses leave connections open.
THEOREM OnlyQueriesLeakAlways == Spec => OnlyQueriesLeak
<1>1. IInv /\ [Next]_vars =>
          [\A q \in Queues :
              ~overlapped /\ pc[q] # "idle" /\ pc'[q] = "idle" =>
                  open' \subseteq IF pc[q] \in {"prepare", "step"} THEN before \cup {db}
                                                                   ELSE before]_vars
  BY LeakStep
<1> QED BY Inductive, <1>1, PTL DEF Spec, OnlyQueriesLeak

-----------------------------------------------------------------------------
\* Each table is filled by one queue.
LEMMA QueueAndTable ==
    /\ \A q \in Queues : TableOf[q] \in Tables /\ QueueOf[TableOf[q]] = q
    /\ \A t \in Tables : QueueOf[t] \in Queues /\ TableOf[QueueOf[t]] = t
BY DEF Queues, Tables, TableOf, QueueOf

\* The abstract todo, as a function of the tables.
Todo == [t \in Tables |-> arrInfo[QueueOf[t]]]

LEMMA InitStore == Init => Store!Init
BY QueueAndTable DEF Init, Store!Init

\* A new value of one queue's array is a new value of its table's todo.
LEMMA TodoOf ==
    ASSUME NEW q \in Queues, NEW s, TypeOK,
           arrInfo' = [arrInfo EXCEPT ![q] = s]
    PROVE  Todo' = [Todo EXCEPT ![TableOf[q]] = s]
<1>1. \A p \in Queues : arrInfo'[p] = IF p = q THEN s ELSE arrInfo[p]
  BY DEF TypeOK
<1>2. \A t \in Tables : arrInfo'[QueueOf[t]] = IF t = TableOf[q] THEN s ELSE arrInfo[QueueOf[t]]
  BY <1>1, QueueAndTable
<1>3. [Todo EXCEPT ![TableOf[q]] = s] =
          [t \in Tables |-> IF t = TableOf[q] THEN s ELSE arrInfo[QueueOf[t]]]
  BY DEF Todo
<1> QED BY <1>2, <1>3 DEF Todo

\* What a refused call does to the rows is the abstract GiveUp.
LEMMA RefuseStore ==
    ASSUME TypeOK, NEW q \in Queues, Refuse(q)
    PROVE  Store!GiveUp(TableOf[q])
BY TodoOf DEF Refuse, Store!GiveUp, Todo

LEMMA InsertStore ==
    ASSUME TypeOK, NEW q \in Queues, InsertRow(q)
    PROVE  Store!Put(TableOf[q])
<1> DEFINE row == Head(arrInfo[q])
<1>1. Todo[TableOf[q]] = arrInfo[q]
  BY QueueAndTable DEF Todo
<1>2. Todo' = [Todo EXCEPT ![TableOf[q]] = Tail(arrInfo[q])]
  BY TodoOf DEF InsertRow
<1>3. Todo' = [Todo EXCEPT ![TableOf[q]] = Tail(@)]
  BY <1>1, <1>2
<1>4. arrInfo[q] # <<>> /\ row \notin Stored(TableOf[q])
  BY DEF InsertRow, CanInsert
<1>5. ~Store!Has(TableOf[q], row)
  BY <1>4 DEF Store!Has, Stored
<1>6. tables' = [tables EXCEPT ![TableOf[q]] = Append(@, row)]
  BY DEF InsertRow
<1> QED BY <1>1, <1>3, <1>4, <1>5, <1>6 DEF Store!Put, Todo

\* Every step is one of the row store or leaves it as it is.
LEMMA NextStore == IInv /\ [Next]_vars => [Store!Next]_<<tables, Todo>>
<1> SUFFICES ASSUME IInv, [Next]_vars PROVE [Store!Next]_<<tables, Todo>>
  OBVIOUS
<1> USE DEF IInv
<1>1. ASSUME NEW q \in Queues, NEW a \in Arrays[q], OpenForInsert(q, a)
      PROVE  Store!Begin(TableOf[q])
  <2>1. arrInfo[q] = <<>>
    BY <1>1 DEF OpenForInsert, Open, Begin, ArraysAtWork
  <2>2. Todo' = [Todo EXCEPT ![TableOf[q]] = a]
    BY <1>1, TodoOf DEF OpenForInsert
  <2> QED BY <1>1, <2>1, <2>2, QueueAndTable DEF OpenForInsert, Store!Begin, Todo
<1>2. ASSUME NEW q \in Queues, InsertRow(q) PROVE Store!Put(TableOf[q])
  BY <1>2, InsertStore
<1>3. ASSUME NEW q \in Queues, CreateRefused(q) \/ InsertRefused(q)
      PROVE  Store!GiveUp(TableOf[q])
  BY <1>3, RefuseStore DEF CreateRefused, InsertRefused
<1>4. CASE Relaunch
  <2>1. \A t \in Tables : arrInfo'[QueueOf[t]] = <<>>
    BY <1>4, QueueAndTable DEF Relaunch
  <2>2. Todo' = [t \in Tables |-> <<>>]
    BY <2>1 DEF Todo
  <2>3. tables' = tables
    BY <1>4 DEF Relaunch
  <2> QED BY <2>2, <2>3 DEF Todo, Store!Restart, Store!Next
<1>5. ASSUME UNCHANGED <<tables, arrInfo>> PROVE UNCHANGED <<tables, Todo>>
  BY <1>5 DEF Todo
<1>6. ASSUME NEW q \in Queues, OpenFails(q) \/ Create(q) \/ Close(q)
      PROVE  UNCHANGED <<tables, arrInfo>>
  BY <1>6 DEF OpenFails, Create, Close
<1>7. ASSUME NEW t \in Tables, Prepare(t) \/ PrepareRefused(t)
      PROVE  UNCHANGED <<tables, arrInfo>>
  BY <1>7 DEF Prepare, PrepareRefused
<1>8. CASE OpenForQuery \/ StepAndFinalize \/ UNCHANGED vars
  BY <1>5, <1>8 DEF OpenForQuery, StepAndFinalize, vars
<1>9. \A q \in Queues : Store!Begin(TableOf[q]) \/ Store!Put(TableOf[q])
                         \/ Store!GiveUp(TableOf[q]) => Store!Next
  BY QueueAndTable DEF Store!Next
<1>10. Store!Restart => Store!Next
  BY DEF Store!Next
<1> QED BY <1>1, <1>2, <1>3, <1>4, <1>5, <1>6, <1>7, <1>8, <1>9, <1>10 DEF Next

\* However the accesses overlap, and whatever connection they end up on, the
\* tables are a row store.
THEOREM IsRowStoreAlways == Spec => IsRowStore
<1>1. Spec => Store!Init
  BY InitStore DEF Spec
<1>2. IInv /\ [Next]_vars => [Store!Next]_<<tables, [t \in Tables |-> arrInfo[QueueOf[t]]]>>
  BY NextStore DEF Todo
<1> QED BY Inductive, <1>1, <1>2, PTL DEF Spec, IsRowStore, Store!Spec
=============================================================================
