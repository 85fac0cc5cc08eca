----------------------- MODULE RestaurantServiceProofs -----------------------
(***************************************************************************)
(* For any clients, keys and tables: a list is complete, and who is told   *)
(* that a request was bad has stored nothing.                              *)
(***************************************************************************)
EXTENDS RestaurantService, TLAPS

USE RestaurantServiceAssumption

\* Only a list scans, only a post with a type saves, and a save has used a key.
PhaseInv ==
    \A c \in Clients :
        /\ pc[c] = "scan" => request[c].action = "GetRestuarantList"
        /\ pc[c] = "save" => request[c].body \in Types
        /\ pc[c] = "saved" => found[c] # {}

\* Keys once settled stay settled, and a scan of the whole table has found
\* those of them that are not left.
ScanInv ==
    \A c \in Clients :
        /\ settledBefore[c] \subseteq Settled
        /\ pc[c] = "scan" /\ request[c].body = NoBody
              => settledBefore[c] \subseteq found[c] \cup left[c]

\* The answers are there.
AnswerInv ==
    /\ DOMAIN answer = Clients
    /\ DOMAIN settledBefore = Clients

IInv == TypeOK /\ PhaseInv /\ ScanInv /\ AnswerInv /\ ListComplete /\ BadRequestsStoreNothing

LEMMA InitIInv == Init => IInv
  BY DEF Init, IInv, TypeOK, PhaseInv, ScanInv, AnswerInv, ListComplete, BadRequestsStoreNothing,
         Settled

\* An answer to c that is no list and no refusal, or is right, keeps the
\* invariant.
LEMMA RespondIInv ==
    ASSUME IInv, NEW c \in Clients, NEW r, NEW body, NEW rows,
           Respond(c, r, body, rows),
           UNCHANGED tableVars,
           \/ UNCHANGED <<settledBefore, stored>>
           \/ Observe(c),
           body = "list" /\ Asked(r) = "list" =>
               settledBefore'[c] \subseteq rows /\ rows \subseteq {id \in IDs : restaurantTable[id] # None},
           body = "BAD_REQ" => ~stored'[c]
    PROVE  IInv'
  <1>1. /\ settledBefore' = settledBefore \/ settledBefore' = [settledBefore EXCEPT ![c] = Settled]
        /\ stored' = stored \/ stored' = [stored EXCEPT ![c] = FALSE]
        /\ UNCHANGED <<restaurantTable, lagging>>
    BY DEF Observe, tableVars
  <1>2. /\ pc' = [pc EXCEPT ![c] = "idle"] /\ request' = [request EXCEPT ![c] = None]
        /\ left' = [left EXCEPT ![c] = {}] /\ found' = [found EXCEPT ![c] = {}]
    BY DEF Respond
  <1>3. answer' = [answer EXCEPT ![c] = [status |-> StatusOf(body), body |-> body,
                                         rows |-> rows, asked |-> Asked(r)]]
    BY DEF Respond
  <1>4. TypeOK'
    BY <1>1, <1>2 DEF IInv, TypeOK
  <1>5. PhaseInv'
    <2> SUFFICES ASSUME NEW d \in Clients PROVE (/\ pc[d] = "scan" => request[d].action = "GetRestuarantList"
                                                 /\ pc[d] = "save" => request[d].body \in Types
                                                 /\ pc[d] = "saved" => found[d] # {})'
      BY DEF PhaseInv
    <2>1. CASE d = c
      BY <1>2, <2>1 DEF IInv, TypeOK
    <2>2. CASE d # c
      BY <1>2, <2>2 DEF IInv, TypeOK, PhaseInv
    <2> QED
      BY <2>1, <2>2
  <1>6. Settled' = Settled
    BY <1>1 DEF Settled
  <1>7. ScanInv'
    <2> SUFFICES ASSUME NEW d \in Clients
                 PROVE  (/\ settledBefore[d] \subseteq Settled
                         /\ pc[d] = "scan" /\ request[d].body = NoBody
                               => settledBefore[d] \subseteq found[d] \cup left[d])'
      BY DEF ScanInv
    <2>1. CASE d = c
      BY <1>1, <1>2, <1>6, <2>1 DEF IInv, TypeOK, ScanInv, AnswerInv
    <2>2. CASE d # c
      <3>1. /\ settledBefore'[d] = settledBefore[d] /\ pc'[d] = pc[d] /\ request'[d] = request[d]
            /\ found'[d] = found[d] /\ left'[d] = left[d]
        BY <1>1, <1>2, <2>2 DEF IInv, TypeOK, AnswerInv
      <3> QED
        BY <3>1, <1>6 DEF IInv, ScanInv
    <2> QED
      BY <2>1, <2>2
  <1>8. AnswerInv'
    BY <1>1, <1>3 DEF IInv, AnswerInv
  <1>9. \A d \in Clients \ {c} : /\ answer'[d] = answer[d] /\ pc'[d] = pc[d]
                                 /\ settledBefore'[d] = settledBefore[d] /\ stored'[d] = stored[d]
    BY <1>1, <1>2, <1>3 DEF IInv, TypeOK, AnswerInv
  <1>10. answer'[c] = [status |-> StatusOf(body), body |-> body, rows |-> rows, asked |-> Asked(r)]
    BY <1>3 DEF IInv, AnswerInv
  <1>11. ListComplete'
    BY <1>1, <1>9, <1>10 DEF IInv, ListComplete
  <1>12. BadRequestsStoreNothing'
    <2>1. answer'[c].status = 400 => body = "BAD_REQ"
      BY <1>10 DEF StatusOf
    <2> QED
      BY <1>9, <2>1 DEF IInv, BadRequestsStoreNothing
  <1> QED
    BY <1>4, <1>5, <1>7, <1>8, <1>11, <1>12 DEF IInv

LEMMA AcceptIInv ==
    ASSUME IInv, NEW c \in Clients, NEW r \in Requests, Accept(c, r)
    PROVE  IInv'
  <1>1. /\ pc[c] = "idle"
        /\ request' = [request EXCEPT ![c] = r]
        /\ pc' = [pc EXCEPT ![c] = FirstStep(r)]
        /\ left' = [left EXCEPT ![c] = KeysToRead(r)]
        /\ settledBefore' = [settledBefore EXCEPT ![c] = Settled]
        /\ stored' = [stored EXCEPT ![c] = FALSE]
        /\ UNCHANGED <<restaurantTable, lagging, found, answer>>
    BY DEF Accept, Observe, tableVars
  <1>2. FirstStep(r) \in {"scan", "search", "save"}
        /\ (FirstStep(r) = "scan" => r.action = "GetRestuarantList")
        /\ (FirstStep(r) = "save" => r.body \in Types)
    <2>1. r.action = "PostRestuarant" => r.body \in Types
      BY DEF Requests, ListRequests, OneRequests, PostRequests, MenuRequests, CityRequests,
             MapRequests, StrayRequests, BodylessRequests, PostRestuarantRequest, Strings, Accept,
             Refused, Raises, PostRefused
    <2> QED
      BY <2>1 DEF FirstStep
  <1>3. KeysToRead(r) \subseteq IDs /\ (FirstStep(r) = "scan" /\ r.body = NoBody => KeysToRead(r) = IDs)
    <2>1. CASE r.action # "GetRestuarantList"
      BY <2>1, <1>2 DEF KeysToRead
    <2>2. CASE r.action = "GetRestuarantList" /\ r.body = NoBody
      BY <2>2 DEF KeysToRead
    <2>3. CASE r.action = "GetRestuarantList" /\ r.body # NoBody
      <3>1. r.body \in IDs \cup {Blank, None}
        BY <2>3 DEF Requests, ListRequests, OneRequests, PostRequests, MenuRequests,
                    CityRequests, MapRequests, StrayRequests, BodylessRequests, Accept, Refused, Raises
      <3>2. r.body # None
        BY <2>3 DEF Accept, Raises
      <3> QED
        BY <2>3, <3>1, <3>2 DEF KeysToRead
    <2> QED
      BY <2>1, <2>2, <2>3
  <1>4. TypeOK'
    BY <1>1, <1>2, <1>3 DEF IInv, TypeOK
  <1>5. Settled' = Settled /\ Settled \subseteq IDs
    BY <1>1 DEF Settled
  <1>6. \A d \in Clients \ {c} :
            /\ pc'[d] = pc[d] /\ request'[d] = request[d] /\ left'[d] = left[d]
            /\ settledBefore'[d] = settledBefore[d] /\ stored'[d] = stored[d]
    BY <1>1 DEF IInv, TypeOK, AnswerInv
  <1>7. /\ pc'[c] = FirstStep(r) /\ request'[c] = r /\ left'[c] = KeysToRead(r)
        /\ settledBefore'[c] = Settled
    BY <1>1 DEF IInv, TypeOK, AnswerInv
  <1>8. PhaseInv'
    BY <1>1, <1>2, <1>6, <1>7 DEF IInv, PhaseInv
  <1>9. ScanInv'
    BY <1>1, <1>3, <1>5, <1>6, <1>7 DEF IInv, ScanInv
  <1>10. AnswerInv'
    BY <1>1 DEF IInv, AnswerInv
  <1>11. ListComplete' /\ BadRequestsStoreNothing'
    BY <1>1, <1>2, <1>6, <1>7 DEF IInv, ListComplete, BadRequestsStoreNothing
  <1> QED
    BY <1>4, <1>8, <1>9, <1>10, <1>11 DEF IInv

\* A page takes the keys of restaurants every read finds from left to found.
LEMMA ReadPageIInv ==
    ASSUME IInv, NEW c \in Clients, ReadPage(c)
    PROVE  IInv'
  <1>1. PICK page \in SUBSET left[c] \ {{}} :
           /\ \E missed \in SUBSET (page \cap lagging) :
                found' = [found EXCEPT ![c] = @ \cup {id \in page \ missed : restaurantTable[id] # None}]
           /\ left' = [left EXCEPT ![c] = @ \ page]
    BY DEF ReadPage
  <1>2. PICK missed \in SUBSET (page \cap lagging) :
           found' = [found EXCEPT ![c] = @ \cup {id \in page \ missed : restaurantTable[id] # None}]
    BY <1>1
  <1>3. /\ pc[c] = "scan"
        /\ UNCHANGED <<restaurantTable, lagging, pc, request, answer, settledBefore, stored>>
    BY DEF ReadPage, tableVars
  <1>4. page \subseteq IDs
    BY DEF IInv, TypeOK
  <1>5. /\ found'[c] = found[c] \cup {id \in page \ missed : restaurantTable[id] # None}
        /\ left'[c] = left[c] \ page
        /\ \A d \in Clients \ {c} : found'[d] = found[d] /\ left'[d] = left[d]
    <2>1. c \in DOMAIN left
      BY DEF IInv, TypeOK
    <2>2. c \in DOMAIN found
      BY DEF IInv, TypeOK
    <2> QED
      BY <1>1, <1>2, <2>1, <2>2
  <1>6. TypeOK'
    <2>1. left' \in [Clients -> SUBSET IDs]
      BY <1>1 DEF IInv, TypeOK
    <2>2. found' \in [Clients -> SUBSET {id \in IDs : restaurantTable[id] # None}]
      BY <1>2, <1>4 DEF IInv, TypeOK
    <2> QED
      BY <1>3, <2>1, <2>2 DEF IInv, TypeOK
  <1>7. PhaseInv'
    BY <1>3, <1>5 DEF IInv, PhaseInv
  <1>8. Settled' = Settled
    BY <1>3 DEF Settled
  <1>9. \A id \in Settled : id \in page => id \in found'[c]
    BY <1>4, <1>5 DEF Settled
  <1>10. ScanInv'
    <2> SUFFICES ASSUME NEW d \in Clients
                 PROVE  /\ settledBefore[d] \subseteq Settled
                        /\ pc[d] = "scan" /\ request[d].body = NoBody
                              => settledBefore[d] \subseteq found'[d] \cup left'[d]
      BY <1>3, <1>8 DEF ScanInv
    <2>1. CASE d = c
      BY <1>5, <1>9, <2>1 DEF IInv, ScanInv
    <2>2. CASE d # c
      BY <1>5, <2>2 DEF IInv, ScanInv
    <2> QED
      BY <2>1, <2>2
  <1>11. AnswerInv' /\ ListComplete' /\ BadRequestsStoreNothing'
    BY <1>3 DEF IInv, AnswerInv, ListComplete, BadRequestsStoreNothing
  <1> QED
    BY <1>6, <1>7, <1>10, <1>11 DEF IInv

\* A new key was not settled, and no answer has it missing.
LEMMA SaveIInv ==
    ASSUME IInv, NEW c \in Clients, Save(c)
    PROVE  IInv' /\ \A id \in IDs : restaurantTable[id] # None => restaurantTable'[id] = restaurantTable[id]
  <1>1. PICK id \in IDs :
           /\ restaurantTable[id] = None
           /\ restaurantTable' = [restaurantTable EXCEPT ![id] = request[c].body]
           /\ lagging' = lagging \cup {id}
           /\ found' = [found EXCEPT ![c] = {id}]
    BY DEF Save
  <1>2. /\ pc[c] = "save"
        /\ pc' = [pc EXCEPT ![c] = "saved"]
        /\ stored' = [stored EXCEPT ![c] = TRUE]
        /\ UNCHANGED <<request, left, answer, settledBefore>>
    BY DEF Save
  <1>3. request[c].body \in Types
    BY <1>2 DEF IInv, PhaseInv
  <1>4. \A k \in IDs : restaurantTable[k] # None => restaurantTable'[k] = restaurantTable[k]
    BY <1>1 DEF IInv, TypeOK
  <1>5. restaurantTable'[id] # None
    BY <1>1, <1>3 DEF IInv, TypeOK
  <1>6. TypeOK'
    <2>1. restaurantTable' \in [IDs -> Types \cup {None}]
      BY <1>1, <1>3 DEF IInv, TypeOK
    <2>2. lagging' \subseteq {k \in IDs : restaurantTable'[k] # None}
      BY <1>1, <1>4, <1>5 DEF IInv, TypeOK
    <2>3. found' \in [Clients -> SUBSET {k \in IDs : restaurantTable'[k] # None}]
      BY <1>1, <1>4, <1>5 DEF IInv, TypeOK
    <2> QED
      BY <1>2, <2>1, <2>2, <2>3 DEF IInv, TypeOK
  <1>7. Settled \subseteq Settled'
    BY <1>1, <1>4 DEF Settled
  <1>8. \A d \in Clients \ {c} : found'[d] = found[d] /\ pc'[d] = pc[d] /\ stored'[d] = stored[d]
    BY <1>1, <1>2 DEF IInv, TypeOK
  <1>9. found'[c] = {id} /\ pc'[c] = "saved"
    BY <1>1, <1>2 DEF IInv, TypeOK
  <1>10. PhaseInv' /\ ScanInv'
    BY <1>2, <1>7, <1>8, <1>9 DEF IInv, PhaseInv, ScanInv
  <1>11. AnswerInv'
    BY <1>2 DEF IInv, AnswerInv
  <1>12. ListComplete' /\ BadRequestsStoreNothing'
    BY <1>2, <1>4, <1>8, <1>9 DEF IInv, ListComplete, BadRequestsStoreNothing
  <1> QED
    BY <1>4, <1>6, <1>10, <1>11, <1>12 DEF IInv

LEMMA CatchUpIInv ==
    ASSUME IInv, NEW id \in IDs, CatchUp(id)
    PROVE  IInv'
  <1>1. lagging' = lagging \ {id}
        /\ UNCHANGED <<restaurantTable, pc, request, left, found, answer, settledBefore, stored>>
    BY DEF CatchUp
  <1>2. Settled \subseteq Settled'
    BY <1>1 DEF Settled
  <1>3. TypeOK' /\ PhaseInv' /\ AnswerInv' /\ ListComplete' /\ BadRequestsStoreNothing'
    BY <1>1 DEF IInv, TypeOK, PhaseInv, AnswerInv, ListComplete, BadRequestsStoreNothing
  <1>4. ScanInv'
    BY <1>1, <1>2 DEF IInv, ScanInv
  <1> QED
    BY <1>3, <1>4 DEF IInv

LEMMA NextIInv == IInv /\ [Next]_vars => IInv'
  <1> SUFFICES ASSUME IInv, [Next]_vars PROVE IInv'
    OBVIOUS
  <1>1. ASSUME NEW c \in Clients, NEW r \in Requests, Accept(c, r) PROVE IInv'
    BY <1>1, AcceptIInv
  <1>2. ASSUME NEW c \in Clients, NEW r \in Requests, Reject(c, r) PROVE IInv'
    <2>1. Observe(c) => ~stored'[c]
      BY DEF Observe, IInv, TypeOK
    <2>2. PICK body \in {"BAD_REQ", "exception"} : Respond(c, r, body, {})
      BY <1>2 DEF Reject
    <2> QED
      BY <1>2, <2>1, <2>2, RespondIInv DEF Reject
  <1>11. ASSUME NEW c \in Clients, Unreadable(c) PROVE IInv'
    BY <1>11, RespondIInv DEF Unreadable
  <1>3. ASSUME NEW c \in Clients, ReadPage(c) PROVE IInv'
    BY <1>3, ReadPageIInv
  <1>4. ASSUME NEW c \in Clients, ListReply(c) PROVE IInv'
    <2>1. PICK rows : /\ Respond(c, request[c], "list", rows)
                      /\ request[c].body = NoBody => rows = found[c]
      BY <1>4 DEF ListReply
    <2>2. pc[c] = "scan" /\ left[c] = {} /\ UNCHANGED <<tableVars, settledBefore, stored>>
      BY <1>4 DEF ListReply
    <2>3. Asked(request[c]) = "list" => request[c].body = NoBody
      BY DEF Asked
    <2>4. Asked(request[c]) = "list" =>
              /\ settledBefore'[c] \subseteq rows
              /\ rows \subseteq {id \in IDs : restaurantTable[id] # None}
      BY <2>1, <2>2, <2>3 DEF IInv, ScanInv, TypeOK
    <2> QED
      BY <2>1, <2>2, <2>4, RespondIInv
  <1>5. ASSUME NEW c \in Clients, MenuReply(c) \/ CityReply(c) \/ MapReply(c) PROVE IInv'
    <2>1. PICK action, rows : SearchReply(c, action, rows)
      BY <1>5 DEF MenuReply, CityReply, MapReply
    <2> QED
      BY <2>1, RespondIInv DEF SearchReply
  <1>6. ASSUME NEW c \in Clients, Save(c) PROVE IInv'
    BY <1>6, SaveIInv
  <1>7. ASSUME NEW c \in Clients, PostReply(c) PROVE IInv'
    <2>1. Respond(c, request[c], "posted", found[c])
      BY <1>7 DEF PostReply, IInv, PhaseInv
    <2> QED
      BY <1>7, <2>1, RespondIInv DEF PostReply
  <1>8. ASSUME NEW c \in Clients, StoreFails(c) PROVE IInv'
    BY <1>8, RespondIInv DEF StoreFails
  <1>9. ASSUME NEW id \in IDs, CatchUp(id) PROVE IInv'
    BY <1>9, CatchUpIInv
  <1>10. CASE UNCHANGED vars
    <2>1. Settled' = Settled
      BY <1>10 DEF vars, tableVars, Settled
    <2> QED
      BY <1>10, <2>1
      DEF vars, tableVars, IInv, TypeOK, PhaseInv, ScanInv, AnswerInv, ListComplete,
          BadRequestsStoreNothing
  <1> QED
    BY <1>1, <1>2, <1>3, <1>4, <1>5, <1>6, <1>7, <1>8, <1>9, <1>10, <1>11 DEF Next

\* Tables, requests and phases keep their types, and what a request has found
\* is stored (RequestRouter.java and the handlers).
THEOREM TypeCorrect == Spec => []TypeOK
  <1>1. IInv => TypeOK
    BY DEF IInv
  <1> QED
    BY <1>1, InitIInv, NextIInv, PTL DEF Spec

\* A list read page by page has all restaurants every read could find before,
\* and only stored ones (GetRestuarantList.java, DynamoDBResturantDAO.java:35).
THEOREM ListCompleteAlways == Spec => []ListComplete
  <1>1. IInv => ListComplete
    BY DEF IInv
  <1> QED
    BY <1>1, InitIInv, NextIInv, PTL DEF Spec

\* A post answered with 400 has stored nothing (PostRestuarant.java:24-47).
THEOREM BadRequestsStoreNothingAlways == Spec => []BadRequestsStoreNothing
  <1>1. IInv => BadRequestsStoreNothing
    BY DEF IInv
  <1> QED
    BY <1>1, InitIInv, NextIInv, PTL DEF Spec
=============================================================================
